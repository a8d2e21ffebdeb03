---------------------------- MODULE MCPixelMath ----------------------------
(***************************************************************************)
(* One sample per behavior: the coefficients of an axis (MCQualityFilter), *)
(* a square image resized with them, a composited pair of pixels, or one   *)
(* pixel transformed.                                                      *)
(***************************************************************************)
EXTENDS MCQualityFilter, PixelFilter

CONSTANTS
  MixSides,      \* sides of the square images resized
  MixImages(_)   \* images of a side

Square(n) == (0 .. n - 1) \X (0 .. n - 1)

ASSUME MixAssumption ==
  /\ MixSides \subseteq 1 .. DimensionMax
  /\ \A n \in MixSides : MixImages(n) \subseteq [Square(n) -> Pixel]

VARIABLES sample, outcome

allVars == <<vars, sample, outcome>>

Unresolved == Err("unresolved")

(* The value of a factor that is not finite is not looked at.              *)
Factors ==
  [finite : {TRUE}, value : -1 .. FactorOne + 1] \cup
  [finite : {FALSE}, value : {0}]

AxisInit ==
  /\ Init
  /\ sample = [kind |-> "axis"]

MixInit ==
  /\ from \in MixSides /\ to \in MixSides
  /\ sample \in [kind : {"mix"}, image : MixImages(from)]
  /\ axis = Pending

PixelInit ==
  /\ from = 1 /\ to = 1 /\ axis = Pending
  /\ sample \in
       [kind : {"over"}, source : Pixel, backdrop : Pixel] \cup
       [kind : {"transform"}, pixel : Pixel, factor : Factors]

SampleInit == (AxisInit \/ MixInit \/ PixelInit) /\ outcome = Unresolved

Populate ==
  /\ sample.kind \in {"axis", "mix"}
  /\ Next
  /\ UNCHANGED <<sample, outcome>>

Mix ==
  /\ sample.kind = "mix" /\ axis # Pending
  /\ axis.ok
  /\ outcome' = [p \in Square(to) |->
                   ResizedPixel(sample.image, axis.value[p[1]],
                                axis.value[p[2]])]

Over ==
  /\ sample.kind = "over"
  /\ outcome' = SourceOver(sample.source, sample.backdrop)

(* A factor that is not finite is refused before there is an image.        *)
Transform ==
  /\ sample.kind = "transform"
  /\ outcome' =
       IF ~sample.factor.finite THEN Err("invalid_argument")
       ELSE Ok([ dim  |-> Dim(sample.pixel, sample.factor.value),
                 fade |-> AdjustOpacity(sample.pixel, sample.factor.value) ])

SampleNext ==
  \/ Populate
  \/ /\ outcome = Unresolved
     /\ Mix \/ Over \/ Transform
     /\ UNCHANGED <<vars, sample>>

SampleSpec == SampleInit /\ [][SampleNext]_allVars

Resolved(kind) == sample.kind = kind /\ outcome # Unresolved

-----------------------------------------------------------------------------

(* n / d rounded half up is r.                                             *)
RoundsTo(n, d, r) == 2 * n >= (2 * r - 1) * d /\ 2 * n < (2 * r + 1) * d

(* Source-over is Porter and Duff's, rounded once: alpha and color are the *)
(* exact rationals rounded half up, the color of a result lies between the *)
(* two that were mixed, an invisible source, an opaque source and an       *)
(* invisible backdrop change nothing of the other pixel, and nothing       *)
(* visible on either side gives transparent black (ADR 0013 "A zero-alpha  *)
(* source otherwise preserves the backdrop exactly, an opaque source       *)
(* replaces it exactly").                                                  *)
CompositesExactly(s, b, r) ==
  LET visible == ChannelMax * s.a + b.a * (ChannelMax - s.a)
      color   == ChannelMax * s.c * s.a + b.c * b.a * (ChannelMax - s.a)
  IN  /\ RoundsTo(visible, ChannelMax, r.a)
      /\ visible > 0 => RoundsTo(color, visible, r.c)
      /\ s.a = 0 /\ b.a = 0 => r = TransparentBlack
      /\ s.a = 0 /\ b.a > 0 => r = b
      /\ s.a = ChannelMax => r = s
      /\ b.a = 0 /\ s.a > 0 => r = s
      /\ s.a > 0 /\ b.a > 0 =>
           \/ s.c <= r.c /\ r.c <= b.c
           \/ b.c <= r.c /\ r.c <= s.c

SourceOverExact ==
  Resolved("over") =>
    CompositesExactly(sample.source, sample.backdrop, outcome)

(* Dimming and fading multiply by the clamped factor, within one step of   *)
(* the exact product although both the factor and the product are rounded; *)
(* they keep the other channels, never brighten, are the identity from 1   *)
(* on and zero from 0 down (ADR 0014).                                     *)
Scales(channel, factor, result) ==
  LET exact == channel * ClampedFactor(factor)
  IN  /\ result \in 0 .. channel
      /\ result * FactorOne - exact \in -FactorOne .. FactorOne
      /\ factor >= FactorOne => result = channel
      /\ factor <= 0 => result = 0

TransformsExact ==
  Resolved("transform") =>
    LET p == sample.pixel
        factor == sample.factor.value
    IN  IF ~sample.factor.finite THEN ~outcome.ok
        ELSE /\ Scales(p.c, factor, outcome.value.dim.c)
             /\ outcome.value.dim.a = p.a
             /\ Scales(p.a, factor, outcome.value.fade.a)
             /\ outcome.value.fade.c = p.c

(* The color of an invisible pixel never reaches a resized image: painting *)
(* it black changes nothing, and an invisible result is transparent black  *)
(* (ADR 0007 "RGB carried by transparent inputs cannot create a colored    *)
(* fringe").                                                               *)
HiddenColorsStayHidden ==
  Resolved("mix") =>
    LET painted == [p \in Square(from) |->
                      IF sample.image[p].a = 0 THEN TransparentBlack
                      ELSE sample.image[p]]
    IN  \A p \in Square(to) :
          /\ outcome[p].a = 0 => outcome[p] = TransparentBlack
          /\ outcome[p] =
               ResizedPixel(painted, axis.value[p[1]], axis.value[p[2]])

(* Resizing mixes and nothing else: alpha stays between those of the       *)
(* pixels under the spans; where they are opaque, or all alike, so does    *)
(* the color, exactly; where they are not, the two roundings of product    *)
(* and of alpha carry a color of at most high past it by no more than      *)
(* (high + 1) / alpha + 1/2, and below low by as much as that of low: the  *)
(* error is large at alpha 1 and 2 only, and the clamp in                  *)
(* unpremultiply_srgba is what keeps it inside a byte.                     *)
MixesWithinColors ==
  Resolved("mix") =>
    \A p \in Square(to) :
      LET under == { sample.image[q] :
                       q \in (DOMAIN axis.value[p[1]])
                               \X (DOMAIN axis.value[p[2]]) }
          seen   == {q \in under : q.a > 0}
          alphas == {q.a : q \in under}
          low    == Min({q.c : q \in seen})
          high   == Max({q.c : q \in seen})
          r      == outcome[p]
      IN  /\ r.a >= Min(alphas) /\ r.a <= Max(alphas)
          /\ alphas = {ChannelMax} => r.c >= low /\ r.c <= high
          /\ Cardinality(under) = 1 /\ seen # {} => r \in under
          /\ r.a > 0 =>
               /\ r.c \in Channel
               /\ 2 * r.a * (r.c - high) <= 2 * (high + 1) + r.a
               /\ 2 * r.a * (low - r.c) <= 2 * (low + 1) + r.a

-----------------------------------------------------------------------------

(* Images are made of these: hidden, faint, translucent and opaque colors. *)
MixPixels ==
  { [c |-> 15, a |-> 0], [c |-> 15, a |-> 1], [c |-> 15, a |-> 2],
    [c |-> 4, a |-> 8], [c |-> 0, a |-> 15], [c |-> 11, a |-> 15] }

(* All images of 1 and 4 pixels, and of 9 those of strong colors           *)
(* whose first row is also the last.                                       *)
MCImages(n) ==
  IF n < 3 THEN [Square(n) -> MixPixels]
  ELSE { [p \in Square(n) |-> rows[p[2] % 2][p[1]]] :
           rows \in [{0, 1} -> [0 .. n - 1 -> {p \in MixPixels : p.c > 9}]] }
=============================================================================
