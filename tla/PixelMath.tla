------------------------------ MODULE PixelMath ------------------------------
(***************************************************************************)
(* The integer arithmetic of pixels: premultiplication and source-over     *)
(* (premultiplied_rgba.hpp), tint, dim and opacity (pixel_transform.cpp).  *)
(* Red, green and blue are computed alike and apart, so a pixel is one of  *)
(* them and its alpha.  A byte of the code is a number up to ChannelMax.   *)
(***************************************************************************)
EXTENDS Integers

CONSTANTS
  ChannelMax,  \* 255
  FactorOne    \* a finite factor of dim and opacity is n / FactorOne

ASSUME PixelAssumption ==
  /\ ChannelMax \in Nat \ {0}
  /\ FactorOne \in Nat \ {0}

Channel == 0 .. ChannelMax

Pixel == [c : Channel, a : Channel]

(* The casts to std::uint8_t and std::uint16_t.                            *)
Byte(n) == n % (ChannelMax + 1)

DoubleByte(n) == n % ((ChannelMax + 1) * (ChannelMax + 1))

RoundedDivide(numerator, denominator) ==
  (numerator + denominator \div 2) \div denominator

TransparentBlack == [c |-> 0, a |-> 0]

Premultiply(p) == [product |-> DoubleByte(p.c * p.a), alpha |-> p.a]

(* Mutant: the quotient is cast to a byte as it is.                        *)
UnpremultiplyUnclamped(q) ==
  IF q.alpha = 0 THEN TransparentBlack
  ELSE [c |-> Byte(RoundedDivide(q.product, q.alpha)), a |-> q.alpha]

Unpremultiply(q) ==
  LET rounded == RoundedDivide(q.product, q.alpha)
  IN  IF q.alpha = 0 THEN TransparentBlack
      ELSE [ c |-> IF rounded > ChannelMax THEN ChannelMax ELSE rounded,
             a |-> q.alpha ]

AlphaNumerator(source, backdrop) ==
  source.a * ChannelMax + backdrop.a * (ChannelMax - source.a)

ColorNumerator(source, backdrop) ==
  Premultiply(source).product * ChannelMax
    + Premultiply(backdrop).product * (ChannelMax - source.a)

(* Mutant: the colors are divided by the alpha already rounded to a byte.  *)
SourceOverQuantized(source, backdrop) ==
  LET alpha == Byte(RoundedDivide(AlphaNumerator(source, backdrop), ChannelMax))
  IN  IF alpha = 0 THEN TransparentBlack
      ELSE [ c |-> Byte(RoundedDivide(ColorNumerator(source, backdrop),
                                      alpha * ChannelMax)),
             a |-> alpha ]

(* source_over_srgba: both products stay exact until the last division.    *)
SourceOver(source, backdrop) ==
  LET alpha == AlphaNumerator(source, backdrop)
  IN  IF alpha = 0 THEN TransparentBlack
      ELSE [ c |-> Byte(RoundedDivide(ColorNumerator(source, backdrop), alpha)),
             a |-> Byte(RoundedDivide(alpha, ChannelMax)) ]

-----------------------------------------------------------------------------

(* Mutant: the product is divided by the number of byte values.            *)
MultiplyChannelShifted(channel, multiplier) ==
  Byte((channel * multiplier + ChannelMax \div 2) \div (ChannelMax + 1))

MultiplyChannel(channel, multiplier) ==
  Byte((channel * multiplier + ChannelMax \div 2) \div ChannelMax)

(* A finite factor is an integer count of 1 / FactorOne: the doubles the   *)
(* code computes with are exact for it.                                    *)
ClampedFactor(factor) ==
  IF factor < 0 THEN 0 ELSE IF factor > FactorOne THEN FactorOne ELSE factor

(* floor(clamped * 255 + 0.5).                                             *)
NormalizedMultiplier(factor) ==
  (2 * ClampedFactor(factor) * ChannelMax + FactorOne) \div (2 * FactorOne)

Tint(p, multiplier) == [p EXCEPT !.c = MultiplyChannel(@, multiplier)]

Dim(p, factor) == Tint(p, NormalizedMultiplier(factor))

AdjustOpacity(p, factor) ==
  [p EXCEPT !.a = MultiplyChannel(@, NormalizedMultiplier(factor))]
=============================================================================
