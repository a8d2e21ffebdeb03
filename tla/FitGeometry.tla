----------------------------- MODULE FitGeometry -----------------------------
(***************************************************************************)
(* plan_fit (fit_geometry.cpp) and nearest_index (fit.cpp): which rectangle*)
(* of the source fills which rectangle of the destination under each fit   *)
(* policy, and which source index a destination index samples.  All of it  *)
(* is unsigned arithmetic of fixed width, kept here; a focal coordinate,   *)
(* a float in the code, is a multiple of 1/FocusOne, for which the double  *)
(* product of focal_offset is exact.                                       *)
(***************************************************************************)
EXTENDS DecodeLimits

CONSTANT FocusOne  \* the focal coordinate 1.0

ASSUME FocusAssumption == FocusOne \in Nat \ {0}

(* Three axes add up in a word (32-bit axes, 64-bit words).                *)
ASSUME AxisAssumption == 3 * DimensionMax <= WordMax

Policies == {"contain", "cover", "stretch", "none", "unrecognized"}

(* A FocalPoint: finite is FALSE if either coordinate is infinite or NaN.  *)
FocalPoint == [x : Int, y : Int, finite : BOOLEAN]

InWord(n) == n % (WordMax + 1)

Rect(x, y, width, height) ==
  [x |-> x, y |-> y, width |-> width, height |-> height]

FullRect(e) == Rect(0, 0, e.width, e.height)

(* Mutant: the ratio is truncated.                                         *)
TruncatedRatio(left, right, divisor) ==
  LET quotient == InWord(left * right) \div divisor
  IN  IF quotient > DimensionMax THEN Err("resource_limit")
      ELSE Ok(IF quotient = 0 THEN 1 ELSE quotient)

(* rounded_ratio: left * right / divisor, halves up, at least one.         *)
RoundedRatio(left, right, divisor) ==
  LET product  == InWord(left * right)
      carry    == IF InWord((product % divisor) * 2) >= divisor THEN 1 ELSE 0
      quotient == product \div divisor + carry
  IN  IF quotient > DimensionMax THEN Err("resource_limit")
      ELSE Ok(IF quotient = 0 THEN 1 ELSE quotient)

(* Mutant: a focal point past the far edge is not brought back.            *)
FocalOffsetUnclamped(slack, focus) ==
  IF focus <= 0 THEN 0
  ELSE (2 * slack * focus + FocusOne) \div (2 * FocusOne)

(* focal_offset: the slack before the rectangle, halves to the right.      *)
FocalOffset(slack, focus) ==
  IF focus <= 0 THEN 0
  ELSE IF focus >= FocusOne THEN slack
  ELSE (2 * slack * focus + FocusOne) \div (2 * FocusOne)

SourceIsWider(source, destination) ==
  InWord(source.width * destination.height)
    > InWord(destination.width * source.height)

Plan(source, destination) == Ok([source |-> source, destination |-> destination])

-----------------------------------------------------------------------------
(* The policies.  An aspect-preserving rectangle larger than the extent it *)
(* lies in is geometry_overflow.                                           *)

Contain(source, destination, focus) ==
  LET height == RoundedRatio(source.height, destination.width, source.width)
      width  == RoundedRatio(source.width, destination.height, source.height)
  IN  IF SourceIsWider(source, destination)
      THEN IF ~height.ok THEN height
           ELSE IF height.value > destination.height THEN Err("resource_limit")
           ELSE Plan(FullRect(source),
                     Rect(0, FocalOffset(destination.height - height.value,
                                         focus.y),
                          destination.width, height.value))
      ELSE IF ~width.ok THEN width
           ELSE IF width.value > destination.width THEN Err("resource_limit")
           ELSE Plan(FullRect(source),
                     Rect(FocalOffset(destination.width - width.value, focus.x),
                          0, width.value, destination.height))

Cover(source, destination, focus) ==
  LET width  == RoundedRatio(source.height, destination.width,
                             destination.height)
      height == RoundedRatio(source.width, destination.height,
                             destination.width)
  IN  IF SourceIsWider(source, destination)
      THEN IF ~width.ok THEN width
           ELSE IF width.value > source.width THEN Err("resource_limit")
           ELSE Plan(Rect(FocalOffset(source.width - width.value, focus.x), 0,
                          width.value, source.height),
                     FullRect(destination))
      ELSE IF ~height.ok THEN height
           ELSE IF height.value > source.height THEN Err("resource_limit")
           ELSE Plan(Rect(0, FocalOffset(source.height - height.value, focus.y),
                          source.width, height.value),
                     FullRect(destination))

Lesser(a, b) == IF b < a THEN b ELSE a

(* Mutant: one focal coordinate places both axes.                          *)
PlacedByColumn(extent, width, height, focus) ==
  Rect(FocalOffset(extent.width - width, focus.x),
       FocalOffset(extent.height - height, focus.x), width, height)

(* The transfer has its place in each extent.                              *)
Placed(extent, width, height, focus) ==
  Rect(FocalOffset(extent.width - width, focus.x),
       FocalOffset(extent.height - height, focus.y), width, height)

Unscaled(source, destination, focus) ==
  LET width  == Lesser(source.width, destination.width)
      height == Lesser(source.height, destination.height)
  IN  Plan(Placed(source, width, height, focus),
           Placed(destination, width, height, focus))

PlanFit(source, destination, policy, focus) ==
  CASE \/ source.width = 0 \/ source.height = 0
       \/ destination.width = 0 \/ destination.height = 0
         -> Err("invalid_dimensions")
    [] OTHER ->
       CASE ~focus.finite            -> Err("invalid_argument")
         [] focus.finite /\ policy = "stretch" ->
              Plan(FullRect(source), FullRect(destination))
         [] focus.finite /\ policy = "contain" ->
              Contain(source, destination, focus)
         [] focus.finite /\ policy = "cover" ->
              Cover(source, destination, focus)
         [] focus.finite /\ policy = "none" ->
              Unscaled(source, destination, focus)
         [] OTHER                    -> Err("invalid_argument")

-----------------------------------------------------------------------------

(* Mutant: a tie goes to the lesser index.                                 *)
NearestIndexTieLeft(i, sourceLength, destinationLength) ==
  LET product   == InWord(i * sourceLength)
      numerator == InWord((product % destinationLength) * 2 + sourceLength)
      carry     == IF numerator > InWord(destinationLength * 2) THEN 1 ELSE 0
  IN  (product \div destinationLength + carry) % (DimensionMax + 1)

(* nearest_index, its result cut to 32 bits.                               *)
NearestIndex(i, sourceLength, destinationLength) ==
  LET product   == InWord(i * sourceLength)
      numerator == InWord((product % destinationLength) * 2 + sourceLength)
      carry     == IF numerator >= InWord(destinationLength * 2) THEN 1 ELSE 0
  IN  (product \div destinationLength + carry) % (DimensionMax + 1)
=============================================================================
