------------------------------ MODULE FitProofs ------------------------------
(***************************************************************************)
(* The plan of fit and a whole call of it, for all 32-bit axes: planned    *)
(* rectangles and samples stay inside, both branches of contain and cover  *)
(* round one ratio, the coefficients measured are those populated, and     *)
(* every pixel of a finished image is the one the plan decides.            *)
(***************************************************************************)
EXTENDS Fit, MCFitGeometry, FilterProofs

LEMMA WordExact ==
  ASSUME NEW n \in Nat, n <= WordMax
  PROVE  InWord(n) = n
BY WidthAssumption DEF InWord

LEMMA AxisProduct ==
  ASSUME NEW a \in 0 .. DimensionMax, NEW b \in 0 .. DimensionMax
  PROVE  /\ a * b \in Nat
         /\ InWord(a * b) = a * b
<1>1. a \in Nat /\ b \in Nat /\ DimensionMax \in Nat
  BY WidthAssumption
<1>2. a * b <= DimensionMax * b
  BY <1>1, ProductMonotone
<1>3. b * DimensionMax <= DimensionMax * DimensionMax
  BY <1>1, ProductMonotone
<1>4. a * b \in Nat /\ a * b <= WordMax
  BY <1>1, <1>2, <1>3, WidthAssumption
<1>5. QED
  BY <1>4, WordExact

(* Halves are rounded up.                                                  *)
LEMMA HalvesUp ==
  ASSUME NEW q \in Nat, NEW m \in Nat, NEW d \in Nat, m < d
  PROVE  LET n == q + (IF m * 2 >= d THEN 1 ELSE 0)
             p == q * d + m
         IN  /\ n # 0 => /\ (2 * n - 1) * d <= 2 * p
                         /\ 2 * p < (2 * n + 1) * d
             /\ n = 0 => 2 * p < d
<1>1. q * d \in Nat
  OBVIOUS
<1>2. CASE m * 2 >= d
  <2>1. /\ (2 * (q + 1) - 1) * d = 2 * (q * d) + d
        /\ (2 * (q + 1) + 1) * d = 2 * (q * d) + 3 * d
    OBVIOUS
  <2>2. QED
    BY <1>1, <1>2, <2>1
<1>3. CASE ~(m * 2 >= d)
  <2>1. /\ (2 * q - 1) * d = 2 * (q * d) - d
        /\ (2 * q + 1) * d = 2 * (q * d) + d
        /\ q = 0 => q * d = 0
    OBVIOUS
  <2>2. QED
    BY <1>1, <1>3, <2>1
<1>4. QED
  BY <1>2, <1>3

(* A ratio that is at most a bound is rounded to the integer nearest to it,*)
(* at most that bound.                                                     *)
LEMMA RatioBound ==
  ASSUME NEW l \in 0 .. DimensionMax, NEW r \in 0 .. DimensionMax,
         NEW d \in 1 .. DimensionMax, NEW b \in 1 .. DimensionMax,
         l * r <= b * d
  PROVE  /\ RoundedRatio(l, r, d).ok
         /\ RoundedRatio(l, r, d).value \in 1 .. b
         /\ NearestInteger(RoundedRatio(l, r, d).value, l, r, d)
<1> DEFINE p == l * r
           q == p \div d
           m == p % d
           carry == IF InWord(m * 2) >= d THEN 1 ELSE 0
<1>1. p \in Nat /\ InWord(p) = p
  BY AxisProduct
<1>2. d \in Nat /\ d > 0 /\ b \in Nat /\ b > 0 /\ d <= DimensionMax
      /\ b <= DimensionMax /\ DimensionMax \in Nat
  BY WidthAssumption
<1>3. q \in Nat /\ m \in Nat /\ m < d /\ p = q * d + m
  <2> HIDE DEF p
  <2>1. QED
    BY <1>1, <1>2, Quotient
<1> HIDE DEF q, m
<1>4. p <= b * d
  OBVIOUS
<1> HIDE DEF p
<1>5. InWord(m * 2) = m * 2
  <2>1. m * 2 \in Nat /\ m * 2 <= WordMax
    BY <1>2, <1>3, AxisAssumption, WidthAssumption
  <2>2. QED
    BY <2>1, WordExact
<1>6. q + carry <= b
  <2>1. CASE q >= b + 1
    <3>1. (b + 1) * d <= q * d
      BY <2>1, <1>2, <1>3, ProductMonotone
    <3>2. (b + 1) * d = b * d + d
      BY <1>2
    <3>3. QED
      BY <3>1, <3>2, <1>1, <1>2, <1>3, <1>4
  <2>2. CASE q = b
    <3>1. m = 0
      BY <2>2, <1>2, <1>3, <1>4
    <3>2. QED
      BY <3>1, <2>2, <1>2, <1>5
  <2>3. CASE q < b
    BY <2>3, <1>2, <1>3
  <2>4. QED
    BY <2>1, <2>2, <2>3, <1>2, <1>3
<1>7. q + carry \in Nat /\ ~(q + carry > DimensionMax)
  BY <1>2, <1>3, <1>6
<1>8. RoundedRatio(l, r, d) = Ok(IF q + carry = 0 THEN 1 ELSE q + carry)
  BY <1>1, <1>7 DEF RoundedRatio, p, q, m
<1>9. NearestInteger(IF q + carry = 0 THEN 1 ELSE q + carry, l, r, d)
  <2>1. /\ q + carry # 0 => /\ (2 * (q + carry) - 1) * d <= 2 * p
                            /\ 2 * p < (2 * (q + carry) + 1) * d
        /\ q + carry = 0 => 2 * p < d
    BY <1>2, <1>3, <1>5, HalvesUp
  <2>2. 2 * l * r = 2 * p
    BY WidthAssumption DEF p
  <2> HIDE DEF carry
  <2>3. QED
    BY <2>1, <2>2 DEF NearestInteger
<1> HIDE DEF carry
<1>10. QED
  BY <1>2, <1>6, <1>7, <1>8, <1>9 DEF Ok

LEMMA OffsetBound ==
  ASSUME NEW slack \in Nat, NEW focus \in Int
  PROVE  FocalOffset(slack, focus) \in 0 .. slack
<1>1. CASE focus <= 0
  BY <1>1 DEF FocalOffset
<1>2. CASE focus > 0 /\ focus >= FocusOne
  BY <1>2, FocusAssumption DEF FocalOffset
<1>3. CASE focus > 0 /\ focus < FocusOne
  <2> DEFINE n == 2 * slack * focus + FocusOne
             r == 2 * FocusOne
             q == n \div r
  <2>1. focus \in Nat /\ focus <= FocusOne /\ FocusOne \in Nat
    BY <1>3, FocusAssumption
  <2>2. focus * slack <= FocusOne * slack
    BY <2>1, ProductMonotone
  <2>3. n \in Nat /\ r \in Nat /\ r > 0
    BY <2>1, <1>3
  <2>4. n < (slack + 1) * r
    BY <2>1, <2>2, <1>3
  <2>5. FocalOffset(slack, focus) = q
    BY <1>3, FocusAssumption DEF FocalOffset
  <2> HIDE DEF n, r
  <2>6. q \in Nat /\ n % r \in Nat /\ n = q * r + (n % r)
    BY <2>3, Quotient
  <2> HIDE DEF q
  <2>7. q * r <= n
    BY <2>3, <2>6
  <2>8. CASE q >= slack + 1
    <3>1. (slack + 1) * r <= q * r
      BY <2>8, <2>3, <2>6, ProductMonotone
    <3>2. (slack + 1) * r \in Nat /\ q * r \in Nat
      BY <2>3, <2>6
    <3>3. QED
      BY <3>1, <3>2, <2>3, <2>4, <2>7
  <2>9. QED
    BY <2>5, <2>6, <2>8
<1>4. QED
  BY <1>1, <1>2, <1>3, FocusAssumption

-----------------------------------------------------------------------------

(* A rectangle of an extent, and a plan of two such rectangles.            *)
Lies(rect, e) == rect \in Rectangle /\ Inside(rect, e)

Fits(outcome, source, destination) ==
  /\ outcome.ok
  /\ Lies(outcome.value.source, source)
  /\ Lies(outcome.value.destination, destination)

LEMMA PlanFits ==
  ASSUME NEW source, NEW destination, NEW s, NEW d,
         Lies(s, source), Lies(d, destination)
  PROVE  Fits(Plan(s, d), source, destination)
BY DEF Fits, Plan, Ok

LEMMA AxisTypes ==
  ASSUME NEW e \in Extent, NonEmpty(e)
  PROVE  /\ e.width \in 1 .. DimensionMax
         /\ e.height \in 1 .. DimensionMax
         /\ e.width \in Nat /\ e.height \in Nat
         /\ Lies(FullRect(e), e)
<1>1. /\ e.width \in 0 .. DimensionMax /\ e.width > 0
      /\ e.height \in 0 .. DimensionMax /\ e.height > 0
      /\ DimensionMax \in Nat
  BY WidthAssumption DEF Extent, NonEmpty
<1>2. QED
  BY <1>1 DEF Lies, Rectangle, Inside, FullRect, Rect

(* A rectangle with one full axis, or none, at its focal offset.           *)
LEMMA RectInside ==
  ASSUME NEW e \in Extent, NonEmpty(e), NEW w \in 1 .. e.width,
         NEW h \in 1 .. e.height, NEW x \in 0 .. e.width - w,
         NEW y \in 0 .. e.height - h
  PROVE  Lies(Rect(x, y, w, h), e)
BY AxisTypes DEF Lies, Rectangle, Inside, Rect

LEMMA WiderExact ==
  ASSUME NEW s \in Extent, NEW d \in Extent, NonEmpty(s), NonEmpty(d)
  PROVE  /\ SourceIsWider(s, d) <=> s.width * d.height > d.width * s.height
         /\ s.width * d.height \in Nat /\ d.width * s.height \in Nat
<1>1. /\ s.width \in 0 .. DimensionMax /\ s.height \in 0 .. DimensionMax
      /\ d.width \in 0 .. DimensionMax /\ d.height \in 0 .. DimensionMax
  BY DEF Extent
<1>2. QED
  BY <1>1, AxisProduct DEF SourceIsWider

(* Contain: the whole source, and one axis of the destination that is the  *)
(* integer nearest to the exact aspect and not longer than the other.      *)
LEMMA ContainForm ==
  ASSUME NEW s \in Extent, NEW d \in Extent, NonEmpty(s), NonEmpty(d),
         NEW focus \in FocalPoint
  PROVE  LET height == RoundedRatio(s.height, d.width, s.width).value
             width  == RoundedRatio(s.width, d.height, s.height).value
         IN  /\ SourceIsWider(s, d) =>
                  /\ height \in 1 .. d.height
                  /\ NearestInteger(height, s.height, d.width, s.width)
                  /\ Contain(s, d, focus)
                       = Plan(FullRect(s),
                              Rect(0, FocalOffset(d.height - height, focus.y),
                                   d.width, height))
             /\ ~SourceIsWider(s, d) =>
                  /\ width \in 1 .. d.width
                  /\ NearestInteger(width, s.width, d.height, s.height)
                  /\ Contain(s, d, focus)
                       = Plan(FullRect(s),
                              Rect(FocalOffset(d.width - width, focus.x), 0,
                                   width, d.height))
<1> DEFINE height == RoundedRatio(s.height, d.width, s.width)
           width  == RoundedRatio(s.width, d.height, s.height)
<1>1. /\ s.width \in 1 .. DimensionMax /\ s.height \in 1 .. DimensionMax
      /\ d.width \in 1 .. DimensionMax /\ d.height \in 1 .. DimensionMax
      /\ DimensionMax \in Nat
  BY AxisTypes, WidthAssumption
<1>2. CASE SourceIsWider(s, d)
  <2>1. s.height * d.width <= d.height * s.width
    BY <1>1, <1>2, WiderExact
  <2>2. /\ height.ok /\ height.value \in 1 .. d.height
        /\ NearestInteger(height.value, s.height, d.width, s.width)
    BY <1>1, <2>1, RatioBound
  <2> HIDE DEF height
  <2>3. Contain(s, d, focus)
          = Plan(FullRect(s),
                 Rect(0, FocalOffset(d.height - height.value, focus.y),
                      d.width, height.value))
    BY <1>1, <1>2, <2>2 DEF Contain, height
  <2>4. QED
    BY <1>2, <2>2, <2>3 DEF height
<1>3. CASE ~SourceIsWider(s, d)
  <2>1. s.width * d.height <= d.width * s.height
    BY <1>1, <1>3, WiderExact
  <2>2. /\ width.ok /\ width.value \in 1 .. d.width
        /\ NearestInteger(width.value, s.width, d.height, s.height)
    BY <1>1, <2>1, RatioBound
  <2> HIDE DEF width
  <2>3. Contain(s, d, focus)
          = Plan(FullRect(s),
                 Rect(FocalOffset(d.width - width.value, focus.x), 0,
                      width.value, d.height))
    BY <1>1, <1>3, <2>2 DEF Contain, width
  <2>4. QED
    BY <1>3, <2>2, <2>3 DEF width
<1>4. QED
  BY <1>2, <1>3

(* Cover: the whole destination, and one such axis of the source.          *)
LEMMA CoverForm ==
  ASSUME NEW s \in Extent, NEW d \in Extent, NonEmpty(s), NonEmpty(d),
         NEW focus \in FocalPoint
  PROVE  LET width  == RoundedRatio(s.height, d.width, d.height).value
             height == RoundedRatio(s.width, d.height, d.width).value
         IN  /\ SourceIsWider(s, d) =>
                  /\ width \in 1 .. s.width
                  /\ NearestInteger(width, s.height, d.width, d.height)
                  /\ Cover(s, d, focus)
                       = Plan(Rect(FocalOffset(s.width - width, focus.x), 0,
                                   width, s.height), FullRect(d))
             /\ ~SourceIsWider(s, d) =>
                  /\ height \in 1 .. s.height
                  /\ NearestInteger(height, s.width, d.height, d.width)
                  /\ Cover(s, d, focus)
                       = Plan(Rect(0, FocalOffset(s.height - height, focus.y),
                                   s.width, height), FullRect(d))
<1> DEFINE width  == RoundedRatio(s.height, d.width, d.height)
           height == RoundedRatio(s.width, d.height, d.width)
<1>1. /\ s.width \in 1 .. DimensionMax /\ s.height \in 1 .. DimensionMax
      /\ d.width \in 1 .. DimensionMax /\ d.height \in 1 .. DimensionMax
      /\ DimensionMax \in Nat
  BY AxisTypes, WidthAssumption
<1>2. CASE SourceIsWider(s, d)
  <2>1. s.height * d.width <= s.width * d.height
    BY <1>1, <1>2, WiderExact
  <2>2. /\ width.ok /\ width.value \in 1 .. s.width
        /\ NearestInteger(width.value, s.height, d.width, d.height)
    BY <1>1, <2>1, RatioBound
  <2> HIDE DEF width
  <2>3. Cover(s, d, focus)
          = Plan(Rect(FocalOffset(s.width - width.value, focus.x), 0,
                      width.value, s.height), FullRect(d))
    BY <1>1, <1>2, <2>2 DEF Cover, width
  <2>4. QED
    BY <1>2, <2>2, <2>3 DEF width
<1>3. CASE ~SourceIsWider(s, d)
  <2>1. s.width * d.height <= s.height * d.width
    BY <1>1, <1>3, WiderExact
  <2>2. /\ height.ok /\ height.value \in 1 .. s.height
        /\ NearestInteger(height.value, s.width, d.height, d.width)
    BY <1>1, <2>1, RatioBound
  <2> HIDE DEF height
  <2>3. Cover(s, d, focus)
          = Plan(Rect(0, FocalOffset(s.height - height.value, focus.y),
                      s.width, height.value), FullRect(d))
    BY <1>1, <1>3, <2>2 DEF Cover, height
  <2>4. QED
    BY <1>3, <2>2, <2>3 DEF height
<1>4. QED
  BY <1>2, <1>3

(* A rectangle placed along one axis, and full on the other, lies inside.  *)
LEMMA ColumnPlaced ==
  ASSUME NEW e \in Extent, NonEmpty(e), NEW w \in 1 .. e.width, NEW x \in Int
  PROVE  Lies(Rect(FocalOffset(e.width - w, x), 0, w, e.height), e)
<1>1. e.width - w \in Nat /\ e.height \in 1 .. e.height /\ 0 \in 0 .. e.height - e.height
  BY AxisTypes
<1>2. QED
  BY <1>1, OffsetBound, RectInside

LEMMA RowPlaced ==
  ASSUME NEW e \in Extent, NonEmpty(e), NEW h \in 1 .. e.height, NEW y \in Int
  PROVE  Lies(Rect(0, FocalOffset(e.height - h, y), e.width, h), e)
<1>1. e.height - h \in Nat /\ e.width \in 1 .. e.width /\ 0 \in 0 .. e.width - e.width
  BY AxisTypes
<1>2. QED
  BY <1>1, OffsetBound, RectInside

LEMMA ContainFits ==
  ASSUME NEW s \in Extent, NEW d \in Extent, NonEmpty(s), NonEmpty(d),
         NEW focus \in FocalPoint
  PROVE  Fits(Contain(s, d, focus), s, d)
<1>1. focus.x \in Int /\ focus.y \in Int /\ Lies(FullRect(s), s)
  BY AxisTypes DEF FocalPoint
<1>2. CASE SourceIsWider(s, d)
  BY <1>1, <1>2, ContainForm, RowPlaced, PlanFits
<1>3. CASE ~SourceIsWider(s, d)
  BY <1>1, <1>3, ContainForm, ColumnPlaced, PlanFits
<1>4. QED
  BY <1>2, <1>3

LEMMA CoverFits ==
  ASSUME NEW s \in Extent, NEW d \in Extent, NonEmpty(s), NonEmpty(d),
         NEW focus \in FocalPoint
  PROVE  Fits(Cover(s, d, focus), s, d)
<1>1. focus.x \in Int /\ focus.y \in Int /\ Lies(FullRect(d), d)
  BY AxisTypes DEF FocalPoint
<1>2. CASE SourceIsWider(s, d)
  BY <1>1, <1>2, CoverForm, ColumnPlaced, PlanFits
<1>3. CASE ~SourceIsWider(s, d)
  BY <1>1, <1>3, CoverForm, RowPlaced, PlanFits
<1>4. QED
  BY <1>2, <1>3

(* Wherever the focal point places it, a transfer fits an extent that is   *)
(* at least its size.                                                      *)
LEMMA PlacedInside ==
  ASSUME NEW e \in Extent, NonEmpty(e), NEW w \in 1 .. e.width,
         NEW h \in 1 .. e.height, NEW focus \in FocalPoint
  PROVE  Lies(Placed(e, w, h, focus), e)
<1>1. e.width - w \in Nat /\ e.height - h \in Nat
  BY AxisTypes
<1>2. focus.x \in Int /\ focus.y \in Int
  BY DEF FocalPoint
<1>3. /\ FocalOffset(e.width - w, focus.x) \in 0 .. e.width - w
      /\ FocalOffset(e.height - h, focus.y) \in 0 .. e.height - h
  BY <1>1, <1>2, OffsetBound
<1>4. QED
  BY <1>3, RectInside DEF Placed

LEMMA UnscaledFits ==
  ASSUME NEW s \in Extent, NEW d \in Extent, NonEmpty(s), NonEmpty(d),
         NEW focus \in FocalPoint
  PROVE  Fits(Unscaled(s, d, focus), s, d)
<1> DEFINE w == Lesser(s.width, d.width)
           h == Lesser(s.height, d.height)
<1>1. /\ w \in 1 .. s.width /\ w \in 1 .. d.width
      /\ h \in 1 .. s.height /\ h \in 1 .. d.height
  BY AxisTypes DEF Lesser
<1>2. Unscaled(s, d, focus) = Plan(Placed(s, w, h, focus),
                                   Placed(d, w, h, focus))
  BY DEF Unscaled
<1> HIDE DEF w, h
<1>3. /\ Lies(Placed(s, w, h, focus), s)
      /\ Lies(Placed(d, w, h, focus), d)
  BY <1>1, PlacedInside
<1>4. QED
  BY <1>2, <1>3, PlanFits

Valid(s, d, policy, focus) ==
  /\ NonEmpty(s) /\ NonEmpty(d)
  /\ focus.finite
  /\ policy # "unrecognized"

LEMMA PolicyPlan ==
  ASSUME NEW s \in Extent, NEW d \in Extent, NEW policy \in Policies,
         NEW f \in FocalPoint, Valid(s, d, policy, f)
  PROVE  /\ policy \in {"stretch", "contain", "cover", "none"}
         /\ policy = "stretch" =>
              PlanFit(s, d, policy, f) = Plan(FullRect(s), FullRect(d))
         /\ policy = "contain" => PlanFit(s, d, policy, f) = Contain(s, d, f)
         /\ policy = "cover" => PlanFit(s, d, policy, f) = Cover(s, d, f)
         /\ policy = "none" => PlanFit(s, d, policy, f) = Unscaled(s, d, f)
<1>1. NonEmpty(s) /\ NonEmpty(d) /\ f.finite /\ policy # "unrecognized"
  BY DEF Valid
<1>2. ~(s.width = 0 \/ s.height = 0 \/ d.width = 0 \/ d.height = 0)
  BY <1>1, AxisTypes
<1>3. policy \in {"stretch", "contain", "cover", "none"}
  BY <1>1 DEF Policies
<1>4. CASE policy = "stretch"
  BY <1>1, <1>2, <1>4 DEF PlanFit
<1>5. CASE policy = "contain"
  BY <1>1, <1>2, <1>5 DEF PlanFit
<1>6. CASE policy = "cover"
  BY <1>1, <1>2, <1>6 DEF PlanFit
<1>7. CASE policy = "none"
  BY <1>1, <1>2, <1>7 DEF PlanFit
<1>8. QED
  BY <1>3, <1>4, <1>5, <1>6, <1>7

LEMMA ValidFits ==
  ASSUME NEW s \in Extent, NEW d \in Extent, NEW policy \in Policies,
         NEW f \in FocalPoint, Valid(s, d, policy, f)
  PROVE  Fits(PlanFit(s, d, policy, f), s, d)
<1>1. NonEmpty(s) /\ NonEmpty(d)
  BY DEF Valid
<1>2. QED
  BY <1>1, PolicyPlan, AxisTypes, PlanFits, ContainFits, CoverFits,
     UnscaledFits

(* An invalid request is refused for what is wrong with it.                *)
LEMMA InvalidFails ==
  ASSUME NEW s \in Extent, NEW d \in Extent, NEW policy \in Policies,
         NEW f \in FocalPoint, ~Valid(s, d, policy, f)
  PROVE  /\ ~PlanFit(s, d, policy, f).ok
         /\ PlanFit(s, d, policy, f).error
              \in {"invalid_dimensions", "invalid_argument"}
         /\ PlanFit(s, d, policy, f).error = "invalid_argument" =>
              ~f.finite \/ policy = "unrecognized"
<1>1. CASE s.width = 0 \/ s.height = 0 \/ d.width = 0 \/ d.height = 0
  BY <1>1 DEF PlanFit, Err
<1>2. CASE ~(s.width = 0 \/ s.height = 0 \/ d.width = 0 \/ d.height = 0)
  <2>1. NonEmpty(s) /\ NonEmpty(d)
    BY <1>2, WidthAssumption DEF NonEmpty, Extent
  <2>2. f.finite \in BOOLEAN
    BY DEF FocalPoint
  <2>3. CASE ~f.finite
    BY <1>2, <2>3 DEF PlanFit, Err
  <2>4. CASE f.finite /\ policy = "unrecognized"
    BY <1>2, <2>4 DEF PlanFit, Err
  <2>5. QED
    BY <2>1, <2>2, <2>3, <2>4 DEF Valid
<1>3. QED
  BY <1>1, <1>2

(* A plan_fit call: not answered yet, or answered as the code computes it. *)
Called ==
  /\ query \in Query
  /\ \/ answer = Unplanned
     \/ answer = PlanFit(query.source, query.destination, query.policy,
                         query.focus)

LEMMA CalledInvariant == PlanSpec => []Called
<1>1. PlanInit => Called
  BY DEF PlanInit, Called
<1>2. Called /\ [PlanNext]_planVars => Called'
  BY DEF PlanNext, planVars, Called
<1>3. QED
  BY <1>1, <1>2, PTL DEF PlanSpec

(* An answer that is a plan answers a valid request.                       *)
LEMMA AnsweredValid ==
  ASSUME Called, answer.ok
  PROVE  /\ query.source \in Extent /\ query.destination \in Extent
         /\ query.policy \in Policies /\ query.focus \in FocalPoint
         /\ Valid(query.source, query.destination, query.policy, query.focus)
         /\ answer = PlanFit(query.source, query.destination, query.policy,
                             query.focus)
<1>1. /\ answer = PlanFit(query.source, query.destination, query.policy,
                          query.focus)
      /\ query.source \in Extent /\ query.destination \in Extent
      /\ query.policy \in Policies /\ query.focus \in FocalPoint
  BY PlanFocalPointsAssumption DEF Called, Query, Unplanned
<1>2. QED
  BY <1>1, InvalidFails

(* Plan_fit plans exactly the valid requests, and no planned rectangle is  *)
(* empty or leaves its extent, for every width of the axes and every focal *)
(* point: the geometry_overflow branches of contain and cover (fit_geometry*)
(* .cpp:98, 110, 132, 144) never run, and fit indexes no pixel outside.    *)
THEOREM PlanInside == PlanSpec => []PlanSound
<1>1. Called => PlanSound
  <2> SUFFICES ASSUME Called, Answered
               PROVE  PlanSound
    BY DEF PlanSound
  <2> DEFINE s == query.source
             d == query.destination
             p == query.policy
             f == query.focus
  <2>1. /\ answer = PlanFit(s, d, p, f)
        /\ s \in Extent /\ d \in Extent /\ p \in Policies /\ f \in FocalPoint
    BY PlanFocalPointsAssumption DEF Answered, Called, Query
  <2>2. CASE Valid(s, d, p, f)
    <3>1. Fits(answer, s, d)
      BY <2>1, <2>2, ValidFits
    <3>2. QED
      BY <2>2, <3>1 DEF PlanSound, Fits, Lies, Valid
  <2>3. CASE ~Valid(s, d, p, f)
    <3>1. ~answer.ok
      BY <2>1, <2>3, InvalidFails
    <3>2. QED
      BY <2>3, <3>1 DEF PlanSound, Valid
  <2>4. QED
    BY <2>2, <2>3
<1>2. QED
  BY <1>1, CalledInvariant, PTL

(* Contain keeps the source, cover fills the destination, and the computed *)
(* axis is the nearest integer, for every width of the axes.               *)
THEOREM AspectRounded == PlanSpec => []AspectKept
<1>1. Called => AspectKept
  <2> SUFFICES ASSUME Called, answer.ok PROVE AspectKept
    BY DEF AspectKept
  <2> DEFINE s == query.source
             d == query.destination
             f == query.focus
             from == answer.value.source
             to == answer.value.destination
  <2>1. /\ s \in Extent /\ d \in Extent /\ f \in FocalPoint
        /\ NonEmpty(s) /\ NonEmpty(d)
        /\ query.policy = "contain" => answer = Contain(s, d, f)
        /\ query.policy = "cover" => answer = Cover(s, d, f)
    BY AnsweredValid, PolicyPlan DEF Valid
  <2>2. query.policy = "contain" =>
          /\ from = FullRect(s)
          /\ \/ /\ to.width = d.width
                /\ NearestInteger(to.height, from.height, to.width, from.width)
             \/ /\ to.height = d.height
                /\ NearestInteger(to.width, from.width, to.height, from.height)
    <3> SUFFICES ASSUME query.policy = "contain"
                 PROVE  /\ from = FullRect(s)
                        /\ \/ /\ to.width = d.width
                              /\ NearestInteger(to.height, from.height,
                                                to.width, from.width)
                           \/ /\ to.height = d.height
                              /\ NearestInteger(to.width, from.width,
                                                to.height, from.height)
      OBVIOUS
    <3>1. CASE SourceIsWider(s, d)
      BY <2>1, <3>1, ContainForm DEF Plan, Ok, FullRect, Rect
    <3>2. CASE ~SourceIsWider(s, d)
      BY <2>1, <3>2, ContainForm DEF Plan, Ok, FullRect, Rect
    <3>3. QED
      BY <3>1, <3>2
  <2>3. query.policy = "cover" =>
          /\ to = FullRect(d)
          /\ \/ /\ from.height = s.height
                /\ NearestInteger(from.width, from.height, to.width, to.height)
             \/ /\ from.width = s.width
                /\ NearestInteger(from.height, from.width, to.height, to.width)
    <3> SUFFICES ASSUME query.policy = "cover"
                 PROVE  /\ to = FullRect(d)
                        /\ \/ /\ from.height = s.height
                              /\ NearestInteger(from.width, from.height,
                                                to.width, to.height)
                           \/ /\ from.width = s.width
                              /\ NearestInteger(from.height, from.width,
                                                to.height, to.width)
      OBVIOUS
    <3>1. CASE SourceIsWider(s, d)
      BY <2>1, <3>1, CoverForm DEF Plan, Ok, FullRect, Rect
    <3>2. CASE ~SourceIsWider(s, d)
      BY <2>1, <3>2, CoverForm DEF Plan, Ok, FullRect, Rect
    <3>3. QED
      BY <3>1, <3>2
  <2>4. QED
    BY <2>2, <2>3 DEF AspectKept
<1>2. QED
  BY <1>1, CalledInvariant, PTL

-----------------------------------------------------------------------------
(* Turning a request over.                                                 *)

(* An exact ratio is what it is.                                           *)
LEMMA RatioExact ==
  ASSUME NEW l \in 1 .. DimensionMax, NEW r \in 1 .. DimensionMax,
         NEW d \in 1 .. DimensionMax, NEW b \in 1 .. DimensionMax,
         l * r = b * d
  PROVE  RoundedRatio(l, r, d).value = b
<1> DEFINE n == RoundedRatio(l, r, d).value
<1>1. /\ l \in Nat /\ r \in Nat /\ d \in Nat /\ b \in Nat /\ d > 0 /\ b > 0
      /\ l \in 0 .. DimensionMax /\ r \in 0 .. DimensionMax
      /\ b * d \in Nat
  BY WidthAssumption
<1>2. l * r <= b * d
  BY <1>1
<1>3. n \in 1 .. b /\ NearestInteger(n, l, r, d)
  BY <1>1, <1>2, RatioBound
<1> HIDE DEF n
<1>4. 2 * l * r = 2 * (b * d)
  BY <1>1
<1>5. 2 * (b * d) < (2 * n + 1) * d
  <2>1. n = 1 => (2 * n + 1) * d = 3 * d
    BY <1>1
  <2>2. QED
    BY <1>1, <1>3, <1>4, <2>1 DEF NearestInteger
<1>6. ~(n + 1 <= b)
  <2>1. n + 1 <= b => (n + 1) * d <= b * d
    BY <1>1, <1>3, ProductMonotone
  <2>2. (n + 1) * d = n * d + d /\ (2 * n + 1) * d = 2 * (n * d) + d
        /\ n * d \in Nat
    BY <1>1, <1>3
  <2>3. QED
    BY <1>1, <1>5, <2>1, <2>2
<1>7. n = b
  BY <1>1, <1>3, <1>6
<1>8. QED
  BY <1>7 DEF n

LEMMA NoSlack ==
  ASSUME NEW focus \in Int
  PROVE  FocalOffset(0, focus) = 0
BY OffsetBound

TurnedPoint(f) == [f EXCEPT !.x = f.y, !.y = f.x]

LEMMA TurnedTypes ==
  ASSUME NEW s \in Extent, NEW d \in Extent, NonEmpty(s), NonEmpty(d),
         NEW f \in FocalPoint
  PROVE  /\ Transposed(s) \in Extent /\ NonEmpty(Transposed(s))
         /\ Transposed(s).width = s.height /\ Transposed(s).height = s.width
         /\ Transposed(d) \in Extent /\ NonEmpty(Transposed(d))
         /\ Transposed(d).width = d.height /\ Transposed(d).height = d.width
         /\ FullRect(Transposed(s)) = Turned(FullRect(s))
         /\ FullRect(Transposed(d)) = Turned(FullRect(d))
         /\ TurnedPoint(f) \in FocalPoint
         /\ TurnedPoint(f).x = f.y /\ TurnedPoint(f).y = f.x
         /\ TurnedPoint(f).finite = f.finite
<1>1. /\ Transposed(s) \in Extent /\ NonEmpty(Transposed(s))
      /\ Transposed(d) \in Extent /\ NonEmpty(Transposed(d))
  BY DEF Transposed, Extent, NonEmpty
<1>2. /\ TurnedPoint(f) \in FocalPoint
      /\ TurnedPoint(f).x = f.y /\ TurnedPoint(f).y = f.x
      /\ TurnedPoint(f).finite = f.finite
  BY DEF TurnedPoint, FocalPoint
<1>3. /\ FullRect(Transposed(s)) = Turned(FullRect(s))
      /\ FullRect(Transposed(d)) = Turned(FullRect(d))
  BY DEF FullRect, Turned, Rect, Transposed
<1>4. QED
  BY <1>1, <1>2, <1>3 DEF Transposed

LEMMA TurnedRect ==
  ASSUME NEW x, NEW y, NEW w, NEW h
  PROVE  Turned(Rect(x, y, w, h)) = Rect(y, x, h, w)
BY DEF Turned, Rect

(* Which is wider turns over, except that of equals neither is.            *)
LEMMA TurnedWider ==
  ASSUME NEW s \in Extent, NEW d \in Extent, NonEmpty(s), NonEmpty(d)
  PROVE  LET turned == SourceIsWider(Transposed(s), Transposed(d))
         IN  \/ SourceIsWider(s, d) /\ ~turned
             \/ ~SourceIsWider(s, d) /\ turned
             \/ /\ ~SourceIsWider(s, d) /\ ~turned
                /\ s.width * d.height = d.width * s.height
<1>1. /\ Transposed(s) \in Extent /\ NonEmpty(Transposed(s))
      /\ Transposed(d) \in Extent /\ NonEmpty(Transposed(d))
      /\ Transposed(s).width = s.height /\ Transposed(s).height = s.width
      /\ Transposed(d).width = d.height /\ Transposed(d).height = d.width
  BY DEF Transposed, Extent, NonEmpty
<1>2. /\ s.width \in Nat /\ s.height \in Nat /\ d.width \in Nat
      /\ d.height \in Nat
  BY AxisTypes
<1>3. SourceIsWider(Transposed(s), Transposed(d))
        <=> s.height * d.width > d.height * s.width
  BY <1>1, WiderExact
<1>4. /\ s.height * d.width = d.width * s.height
      /\ d.height * s.width = s.width * d.height
      /\ s.width * d.height \in Nat /\ d.width * s.height \in Nat
  BY <1>2
<1>5. SourceIsWider(s, d) <=> s.width * d.height > d.width * s.height
  BY WiderExact
<1>6. QED
  BY <1>3, <1>4, <1>5

(* Of equal aspects, all lengths are full and all offsets zero.            *)
LEMMA EqualAspects ==
  ASSUME NEW s \in Extent, NEW d \in Extent, NonEmpty(s), NonEmpty(d),
         NEW f \in FocalPoint, ~SourceIsWider(s, d),
         s.width * d.height = d.width * s.height
  PROVE  /\ Contain(s, d, f) = Plan(FullRect(s), FullRect(d))
         /\ Cover(s, d, f) = Plan(FullRect(s), FullRect(d))
<1>1. /\ s.width \in 1 .. DimensionMax /\ s.height \in 1 .. DimensionMax
      /\ d.width \in 1 .. DimensionMax /\ d.height \in 1 .. DimensionMax
      /\ s.width \in Nat /\ s.height \in Nat /\ d.width \in Nat
      /\ f.x \in Int /\ f.y \in Int
  BY AxisTypes DEF FocalPoint
<1>2. RoundedRatio(s.width, d.height, s.height).value = d.width
  BY <1>1, RatioExact
<1>3. RoundedRatio(s.width, d.height, d.width).value = s.height
  <2>1. s.width * d.height = s.height * d.width
    BY <1>1
  <2>2. QED
    BY <1>1, <2>1, RatioExact
<1>4. d.width - d.width = 0 /\ s.height - s.height = 0
  BY <1>1
<1>5. FocalOffset(0, f.x) = 0 /\ FocalOffset(0, f.y) = 0
  BY <1>1, NoSlack
<1>6. Contain(s, d, f) = Plan(FullRect(s), Rect(FocalOffset(0, f.x), 0,
                                                d.width, d.height))
  BY <1>2, <1>4, ContainForm
<1>7. Cover(s, d, f) = Plan(Rect(0, FocalOffset(0, f.y),
                                 s.width, s.height), FullRect(d))
  BY <1>3, <1>4, CoverForm
<1>8. QED
  BY <1>5, <1>6, <1>7 DEF FullRect

(* A plan and what it is when rows and columns change places.              *)
TurnedPlan(plan_) == Plan(Turned(plan_.source), Turned(plan_.destination))

LEMMA TurnedPlanOf ==
  ASSUME NEW a, NEW b
  PROVE  TurnedPlan(Plan(a, b).value) = Plan(Turned(a), Turned(b))
BY DEF TurnedPlan, Plan, Ok

(* Equal aspects stay equal.                                               *)
LEMMA TurnedEquals ==
  ASSUME NEW s \in Extent, NEW d \in Extent, NonEmpty(s), NonEmpty(d),
         NEW f \in FocalPoint,
         ~SourceIsWider(Transposed(s), Transposed(d)),
         s.width * d.height = d.width * s.height
  PROVE  /\ Contain(Transposed(s), Transposed(d), TurnedPoint(f))
              = Plan(Turned(FullRect(s)), Turned(FullRect(d)))
         /\ Cover(Transposed(s), Transposed(d), TurnedPoint(f))
              = Plan(Turned(FullRect(s)), Turned(FullRect(d)))
<1>1. /\ s.width \in Nat /\ s.height \in Nat
      /\ d.width \in Nat /\ d.height \in Nat
  BY AxisTypes
<1>2. s.height * d.width = d.height * s.width
  BY <1>1
<1>3. Transposed(s).width * Transposed(d).height
        = Transposed(d).width * Transposed(s).height
  BY <1>2 DEF Transposed
<1>4. QED
  BY <1>3, TurnedTypes, EqualAspects

LEMMA ContainTurns ==
  ASSUME NEW s \in Extent, NEW d \in Extent, NonEmpty(s), NonEmpty(d),
         NEW f \in FocalPoint
  PROVE  Contain(Transposed(s), Transposed(d), TurnedPoint(f))
           = TurnedPlan(Contain(s, d, f).value)
<1>1. CASE SourceIsWider(s, d) /\ ~SourceIsWider(Transposed(s), Transposed(d))
  <2> DEFINE n == RoundedRatio(s.height, d.width, s.width).value
             x == FocalOffset(d.height - n, f.y)
  <2>1. Contain(s, d, f) = Plan(FullRect(s), Rect(0, x, d.width, n))
    BY <1>1, ContainForm
  <2>2. Contain(Transposed(s), Transposed(d), TurnedPoint(f))
          = Plan(Turned(FullRect(s)), Rect(x, 0, n, d.width))
    BY <1>1, ContainForm, TurnedTypes
  <2> HIDE DEF n, x
  <2>3. QED
    BY <2>1, <2>2, TurnedPlanOf, TurnedRect
<1>2. CASE ~SourceIsWider(s, d) /\ SourceIsWider(Transposed(s), Transposed(d))
  <2> DEFINE n == RoundedRatio(s.width, d.height, s.height).value
             x == FocalOffset(d.width - n, f.x)
  <2>1. Contain(s, d, f) = Plan(FullRect(s), Rect(x, 0, n, d.height))
    BY <1>2, ContainForm
  <2>2. Contain(Transposed(s), Transposed(d), TurnedPoint(f))
          = Plan(Turned(FullRect(s)), Rect(0, x, d.height, n))
    BY <1>2, ContainForm, TurnedTypes
  <2> HIDE DEF n, x
  <2>3. QED
    BY <2>1, <2>2, TurnedPlanOf, TurnedRect
<1>3. CASE /\ ~SourceIsWider(s, d)
           /\ ~SourceIsWider(Transposed(s), Transposed(d))
           /\ s.width * d.height = d.width * s.height
  BY <1>3, TurnedEquals, EqualAspects, TurnedPlanOf
<1>4. QED
  BY <1>1, <1>2, <1>3, TurnedWider

LEMMA CoverTurns ==
  ASSUME NEW s \in Extent, NEW d \in Extent, NonEmpty(s), NonEmpty(d),
         NEW f \in FocalPoint
  PROVE  Cover(Transposed(s), Transposed(d), TurnedPoint(f))
           = TurnedPlan(Cover(s, d, f).value)
<1>1. CASE SourceIsWider(s, d) /\ ~SourceIsWider(Transposed(s), Transposed(d))
  <2> DEFINE n == RoundedRatio(s.height, d.width, d.height).value
             x == FocalOffset(s.width - n, f.x)
  <2>1. Cover(s, d, f) = Plan(Rect(x, 0, n, s.height), FullRect(d))
    BY <1>1, CoverForm
  <2>2. Cover(Transposed(s), Transposed(d), TurnedPoint(f))
          = Plan(Rect(0, x, s.height, n), Turned(FullRect(d)))
    BY <1>1, CoverForm, TurnedTypes
  <2> HIDE DEF n, x
  <2>3. QED
    BY <2>1, <2>2, TurnedPlanOf, TurnedRect
<1>2. CASE ~SourceIsWider(s, d) /\ SourceIsWider(Transposed(s), Transposed(d))
  <2> DEFINE n == RoundedRatio(s.width, d.height, d.width).value
             x == FocalOffset(s.height - n, f.y)
  <2>1. Cover(s, d, f) = Plan(Rect(0, x, s.width, n), FullRect(d))
    BY <1>2, CoverForm
  <2>2. Cover(Transposed(s), Transposed(d), TurnedPoint(f))
          = Plan(Rect(x, 0, n, s.width), Turned(FullRect(d)))
    BY <1>2, CoverForm, TurnedTypes
  <2> HIDE DEF n, x
  <2>3. QED
    BY <2>1, <2>2, TurnedPlanOf, TurnedRect
<1>3. CASE /\ ~SourceIsWider(s, d)
           /\ ~SourceIsWider(Transposed(s), Transposed(d))
           /\ s.width * d.height = d.width * s.height
  BY <1>3, TurnedEquals, EqualAspects, TurnedPlanOf
<1>4. QED
  BY <1>1, <1>2, <1>3, TurnedWider

LEMMA UnscaledTurns ==
  ASSUME NEW s \in Extent, NEW d \in Extent, NonEmpty(s), NonEmpty(d),
         NEW f \in FocalPoint
  PROVE  Unscaled(Transposed(s), Transposed(d), TurnedPoint(f))
           = TurnedPlan(Unscaled(s, d, f).value)
<1> DEFINE w == Lesser(s.width, d.width)
           h == Lesser(s.height, d.height)
<1>1. Unscaled(s, d, f) = Plan(Placed(s, w, h, f), Placed(d, w, h, f))
  BY DEF Unscaled
<1>2. Unscaled(Transposed(s), Transposed(d), TurnedPoint(f))
        = Plan(Placed(Transposed(s), h, w, TurnedPoint(f)),
               Placed(Transposed(d), h, w, TurnedPoint(f)))
  BY TurnedTypes DEF Unscaled
<1> HIDE DEF w, h
<1>3. /\ Placed(Transposed(s), h, w, TurnedPoint(f)) = Turned(Placed(s, w, h, f))
      /\ Placed(Transposed(d), h, w, TurnedPoint(f)) = Turned(Placed(d, w, h, f))
  BY TurnedTypes, TurnedRect DEF Placed
<1>4. QED
  BY <1>1, <1>2, <1>3, TurnedPlanOf

(* Turning source, destination and focal point over turns every plan over. *)
THEOREM AxesExchange == PlanSpec => []AxesAlike
<1>1. Called => AxesAlike
  <2> SUFFICES ASSUME Called, answer.ok PROVE AxesAlike
    BY DEF AxesAlike
  <2> DEFINE s == query.source
             d == query.destination
             f == query.focus
             p == query.policy
             S == Transposed(s)
             D == Transposed(d)
             F == TurnedPoint(f)
  <2>1. /\ s \in Extent /\ d \in Extent /\ f \in FocalPoint /\ p \in Policies
        /\ Valid(s, d, p, f) /\ answer = PlanFit(s, d, p, f)
        /\ NonEmpty(s) /\ NonEmpty(d)
    BY AnsweredValid DEF Valid
  <2>2. /\ S \in Extent /\ D \in Extent /\ F \in FocalPoint
        /\ Valid(S, D, p, F)
    BY <2>1, TurnedTypes DEF Valid
  <2>3. PlanFit(S, D, p, F) = TurnedPlan(answer.value)
    <3>1. CASE p = "stretch"
      <4>1. /\ answer = Plan(FullRect(s), FullRect(d))
            /\ PlanFit(S, D, p, F) = Plan(FullRect(S), FullRect(D))
        BY <2>1, <2>2, <3>1, PolicyPlan
      <4>2. QED
        BY <2>1, <4>1, TurnedTypes, TurnedPlanOf
    <3>2. CASE p = "contain"
      <4>1. /\ answer = Contain(s, d, f)
            /\ PlanFit(S, D, p, F) = Contain(S, D, F)
        BY <2>1, <2>2, <3>2, PolicyPlan
      <4>2. QED
        BY <2>1, <4>1, ContainTurns
    <3>3. CASE p = "cover"
      <4>1. /\ answer = Cover(s, d, f)
            /\ PlanFit(S, D, p, F) = Cover(S, D, F)
        BY <2>1, <2>2, <3>3, PolicyPlan
      <4>2. QED
        BY <2>1, <4>1, CoverTurns
    <3>4. CASE p = "none"
      <4>1. /\ answer = Unscaled(s, d, f)
            /\ PlanFit(S, D, p, F) = Unscaled(S, D, F)
        BY <2>1, <2>2, <3>4, PolicyPlan
      <4>2. QED
        BY <2>1, <4>1, UnscaledTurns
    <3>5. QED
      BY <2>1, <3>1, <3>2, <3>3, <3>4, PolicyPlan
  <2>4. QED
    BY <2>3 DEF AxesAlike, TurnedPlan, TurnedPoint
<1>2. QED
  BY <1>1, CalledInvariant, PTL

-----------------------------------------------------------------------------

(* The axes of an answered plan are lengths of pixels.                     *)
LEMMA AnsweredAxes ==
  ASSUME Called, answer.ok, NEW axis \in Axes
  PROVE  axis.from \in 1 .. DimensionMax /\ axis.to \in 1 .. DimensionMax
<1> DEFINE s == query.source
           d == query.destination
<1>1. s \in Extent /\ d \in Extent /\ Fits(answer, s, d)
  BY AnsweredValid, ValidFits
<1>2. /\ s.width <= DimensionMax /\ s.height <= DimensionMax
      /\ d.width <= DimensionMax /\ d.height <= DimensionMax
      /\ s.width \in Nat /\ s.height \in Nat
      /\ d.width \in Nat /\ d.height \in Nat /\ DimensionMax \in Nat
  BY <1>1, WidthAssumption DEF Extent
<1> HIDE DEF s, d
<1>3. /\ answer.value.source.width \in 1 .. DimensionMax
      /\ answer.value.source.height \in 1 .. DimensionMax
      /\ answer.value.destination.width \in 1 .. DimensionMax
      /\ answer.value.destination.height \in 1 .. DimensionMax
  BY <1>1, <1>2 DEF Fits, Lies, Rectangle, Inside
<1>4. QED
  BY <1>3 DEF Axes

(* The sample is the truncated quotient, one up from half of s below 1.    *)
LEMMA NearestExact ==
  ASSUME NEW s \in 1 .. DimensionMax, NEW d \in 1 .. DimensionMax,
         NEW i \in 0 .. d - 1
  PROVE  \E q \in Nat, r \in Nat :
           /\ i * s = q * d + r
           /\ r < d
           /\ NearestIndex(i, s, d)
                = q + (IF r * 2 + s >= d * 2 THEN 1 ELSE 0)
           /\ NearestIndex(i, s, d) \in 0 .. s - 1
<1> DEFINE p == i * s
           q == p \div d
           r == p % d
           carry == IF InWord(r * 2 + s) >= InWord(d * 2) THEN 1 ELSE 0
<1>1. /\ s \in Nat /\ d \in Nat /\ i \in Nat /\ DimensionMax \in Nat
      /\ s > 0 /\ d > 0 /\ i <= d - 1 /\ d <= DimensionMax
      /\ s <= DimensionMax
  BY WidthAssumption
<1>2. i \in 0 .. DimensionMax /\ s \in 0 .. DimensionMax
  BY <1>1
<1>3. p \in Nat /\ InWord(p) = p
  BY <1>2, AxisProduct
<1>4. p <= d * s - s
  <2>1. i * s <= (d - 1) * s
    BY <1>1, ProductMonotone
  <2>2. QED
    BY <2>1, <1>1
<1>5. q \in Nat /\ r \in Nat /\ r < d /\ p = q * d + r
  <2> HIDE DEF p
  <2>1. QED
    BY <1>1, <1>3, Quotient
<1>6. InWord(r * 2 + s) = r * 2 + s /\ InWord(d * 2) = d * 2
  <2> HIDE DEF r
  <2>1. /\ r * 2 + s \in Nat /\ r * 2 + s <= WordMax
        /\ d * 2 \in Nat /\ d * 2 <= WordMax
    BY <1>1, <1>5, AxisAssumption, WidthAssumption
  <2>2. QED
    BY <2>1, WordExact
<1>7. NearestIndex(i, s, d) = (q + carry) % (DimensionMax + 1)
  BY <1>3 DEF NearestIndex
<1> HIDE DEF p, q, r
<1>8. q + carry <= s - 1 /\ q + carry \in Nat
  <2>1. CASE q >= s
    <3>1. s * d <= q * d
      BY <2>1, <1>1, <1>5, ProductMonotone
    <3>2. s * d = d * s /\ s * d \in Nat /\ q * d \in Nat
      BY <1>1, <1>5
    <3>3. QED
      BY <3>1, <3>2, <1>1, <1>3, <1>4, <1>5
  <2>2. CASE q = s - 1
    <3>1. r <= d - s
      BY <2>2, <1>1, <1>3, <1>4, <1>5
    <3>2. carry = 0
      BY <3>1, <1>1, <1>5, <1>6
    <3>3. QED
      BY <3>2, <2>2, <1>1, <1>5
  <2>3. CASE q < s - 1
    BY <2>3, <1>1, <1>5
  <2>4. QED
    BY <2>1, <2>2, <2>3, <1>1, <1>5
<1>9. NearestIndex(i, s, d) = q + carry
  <2> HIDE DEF carry
  <2>1. QED
    BY <1>1, <1>7, <1>8
<1>10. q + carry = q + (IF r * 2 + s >= d * 2 THEN 1 ELSE 0)
  BY <1>6
<1> HIDE DEF carry
<1>11. NearestIndex(i, s, d) \in 0 .. s - 1
  BY <1>1, <1>8, <1>9
<1>12. i * s = q * d + r
  BY <1>5 DEF p
<1>13. QED
  BY <1>5, <1>9, <1>10, <1>11, <1>12

(* Nearest sampling stays inside a source axis of any length, reductions   *)
(* past one half included: the single carry of nearest_index (fit.cpp:30)  *)
(* can misplace a sample but cannot push the last one past the rectangle.  *)
THEOREM NearestInside ==
  ASSUME NEW s \in 1 .. DimensionMax, NEW d \in 1 .. DimensionMax,
         NEW i \in 0 .. d - 1
  PROVE  NearestIndex(i, s, d) \in 0 .. s - 1
BY NearestExact

(* The next destination pixel samples no earlier.                          *)
LEMMA NearestOrdered ==
  ASSUME NEW s \in 1 .. DimensionMax, NEW d \in 1 .. DimensionMax,
         NEW i \in 1 .. d - 1
  PROVE  NearestIndex(i - 1, s, d) <= NearestIndex(i, s, d)
<1>1. /\ s \in Nat /\ d \in Nat /\ i \in Nat /\ d > 0
      /\ i - 1 \in 0 .. d - 1 /\ i \in 0 .. d - 1
  BY WidthAssumption
<1>2. PICK q \in Nat, r \in Nat :
        /\ i * s = q * d + r /\ r < d
        /\ NearestIndex(i, s, d) = q + (IF r * 2 + s >= d * 2 THEN 1 ELSE 0)
  BY <1>1, NearestExact
<1>3. PICK k \in Nat, m \in Nat :
        /\ (i - 1) * s = k * d + m /\ m < d
        /\ NearestIndex(i - 1, s, d)
             = k + (IF m * 2 + s >= d * 2 THEN 1 ELSE 0)
  BY <1>1, NearestExact
<1>4. /\ (i - 1) * s = i * s - s /\ i * s \in Nat
      /\ q * d \in Nat /\ k * d \in Nat
  BY <1>1
<1>5. q * d + r = k * d + m + s
  BY <1>1, <1>2, <1>3, <1>4
<1>6. CASE q = k
  <2>1. r = m + s
    BY <1>4, <1>5, <1>6, <1>1
  <2>2. QED
    BY <1>1, <1>2, <1>3, <1>6, <2>1
<1>7. CASE q >= k + 1
  BY <1>2, <1>3, <1>7
<1>8. CASE q + 1 <= k
  <2>1. (q + 1) * d <= k * d
    BY <1>1, <1>8, ProductMonotone
  <2>2. (q + 1) * d = q * d + d
    BY <1>1
  <2>3. QED
    BY <1>1, <1>2, <1>3, <1>4, <1>5, <2>1, <2>2
<1>9. QED
  BY <1>6, <1>7, <1>8

(* Up to a reduction by two, the sample is the pixel under the center.     *)
LEMMA NearestCentered ==
  ASSUME NEW s \in 1 .. DimensionMax, NEW d \in 1 .. DimensionMax,
         NEW i \in 0 .. d - 1, s <= 2 * d
  PROVE  NearestIndex(i, s, d) = ((2 * i + 1) * s) \div (2 * d)
<1>1. s \in Nat /\ d \in Nat /\ i \in Nat /\ d > 0
  BY WidthAssumption
<1>2. PICK q \in Nat, r \in Nat :
        /\ i * s = q * d + r /\ r < d
        /\ NearestIndex(i, s, d) = q + (IF r * 2 + s >= d * 2 THEN 1 ELSE 0)
  BY NearestExact
<1> DEFINE n == (2 * i + 1) * s
           b == 2 * d
           c == n \div b
           k == NearestIndex(i, s, d)
<1>3. /\ n = 2 * (i * s) + s /\ i * s \in Nat /\ q * d \in Nat
      /\ k * b = 2 * (k * d) /\ k \in Nat
      /\ b \in Nat /\ b > 0 /\ n \in Nat
  BY <1>1, <1>2
<1>4. k * b <= n /\ n < k * b + b
  <2>1. CASE r * 2 + s >= d * 2
    <3>1. k = q + 1 /\ (q + 1) * d = q * d + d
      BY <1>1, <1>2, <2>1
    <3>2. k * d = q * d + d
      BY <3>1
    <3> HIDE DEF k, n
    <3>3. QED
      BY <1>1, <1>2, <1>3, <2>1, <3>2
  <2>2. CASE ~(r * 2 + s >= d * 2)
    <3>1. k = q
      BY <1>1, <1>2, <2>2
    <3>2. k * d = q * d
      BY <3>1
    <3> HIDE DEF k, n
    <3>3. QED
      BY <1>1, <1>2, <1>3, <2>2, <3>2
  <2>3. QED
    BY <2>1, <2>2
<1> HIDE DEF k, n, b
<1>5. c \in Nat /\ c * b <= n /\ n < c * b + b
  BY <1>3
<1> HIDE DEF c
<1>6. ~(k + 1 <= c) /\ ~(c + 1 <= k)
  <2>1. /\ k + 1 <= c => (k + 1) * b <= c * b
        /\ c + 1 <= k => (c + 1) * b <= k * b
    BY <1>3, <1>5, ProductMonotone
  <2>2. /\ (k + 1) * b = k * b + b /\ (c + 1) * b = c * b + b
        /\ k * b \in Nat /\ c * b \in Nat
    BY <1>3, <1>5
  <2>3. QED
    BY <1>3, <1>4, <1>5, <2>1, <2>2
<1>7. k = c
  BY <1>3, <1>5, <1>6
<1>8. QED
  BY <1>7 DEF c, k, n, b

(* Nearest samples stay inside, keep their order and, up to a reduction by *)
(* two, lie under the centers, for every plan of every width of the axes.  *)
THEOREM SamplesInOrder == PlanSpec => []SamplesSound
<1>1. Called => SamplesSound
  <2> SUFFICES ASSUME Called, answer.ok, NEW axis \in Axes,
                      NEW i \in 0 .. axis.to - 1
               PROVE  LET index == NearestIndex(i, axis.from, axis.to)
                      IN  /\ index < axis.from
                          /\ i > 0 =>
                               NearestIndex(i - 1, axis.from, axis.to) <= index
                          /\ axis.from <= 2 * axis.to => index = Center(i, axis)
    BY DEF SamplesSound
  <2>1. axis.from \in 1 .. DimensionMax /\ axis.to \in 1 .. DimensionMax
    BY AnsweredAxes
  <2>2. NearestIndex(i, axis.from, axis.to) \in 0 .. axis.from - 1
    BY <2>1, NearestInside
  <2>3. NearestIndex(i, axis.from, axis.to) < axis.from
    BY <2>1, <2>2, WidthAssumption
  <2>4. i > 0 => NearestIndex(i - 1, axis.from, axis.to)
                   <= NearestIndex(i, axis.from, axis.to)
    <3>1. i > 0 => i \in 1 .. axis.to - 1
      BY <2>1, WidthAssumption
    <3>2. QED
      BY <2>1, <3>1, NearestOrdered
  <2>5. axis.from <= 2 * axis.to =>
          NearestIndex(i, axis.from, axis.to) = Center(i, axis)
    BY <2>1, NearestCentered DEF Center
  <2>6. QED
    BY <2>3, <2>4, <2>5
<1>2. QED
  BY <1>1, CalledInvariant, PTL

-----------------------------------------------------------------------------
(* A call of fit: what its arguments and its plan are.                     *)

(* What is populated is the spans.                                         *)
LEMMA PopulateSpans ==
  ASSUME NEW from, NEW to
  PROVE  /\ PopulateAxis(from, to).ok =>
              Spans(PopulateAxis(from, to).value, from, to)
         /\ ~PopulateAxis(from, to).ok =>
              PopulateAxis(from, to).error = "resource_limit"
BY DEF PopulateAxis, Spans, Ok, Err

LEMMA RequestTypes ==
  ASSUME request \in Requests
  PROVE  /\ request.source \in Extent /\ request.destination \in Extent
         /\ request.policy \in Policies /\ request.focus \in FocalPoint
         /\ request.limits \in Limits /\ request.filter \in Filters
         /\ request.limits.max_temporary_bytes \in Nat
<1>1. /\ request.source \in Extent /\ request.destination \in Extent
      /\ request.policy \in Policies /\ request.focus \in FocalPoint
      /\ request.limits \in Limits /\ request.filter \in Filters
  BY FitAssumption DEF Requests
<1>2. QED
  BY <1>1, LimitTypes

(* The rectangle test of resize_quality_rgba is that of the plan.          *)
LEMMA LiesFits ==
  ASSUME NEW e \in Extent, NEW rect, Lies(rect, e)
  PROVE  rect \in Rectangle /\ RectFits(rect, e)
<1>1. e.width \in Nat /\ e.height \in Nat
  BY WidthAssumption DEF Extent
<1>2. QED
  BY <1>1 DEF Lies, Rectangle, Inside, RectFits

LEMMA FitsFacts ==
  ASSUME NEW e \in Extent, NEW rect \in Rectangle, RectFits(rect, e)
  PROVE  /\ rect.x \in Nat /\ rect.y \in Nat
         /\ rect.width \in Nat \ {0} /\ rect.height \in Nat \ {0}
         /\ rect.width \in 1 .. DimensionMax /\ rect.height \in 1 .. DimensionMax
         /\ e.width \in Nat /\ e.height \in Nat
         /\ rect.x + rect.width <= e.width
         /\ rect.y + rect.height <= e.height
<1>1. /\ e.width \in Nat /\ e.height \in Nat
      /\ e.width <= DimensionMax /\ e.height <= DimensionMax
      /\ DimensionMax \in Nat
  BY WidthAssumption DEF Extent
<1>2. QED
  BY <1>1 DEF Rectangle, RectFits

LEMMA PlannedFacts ==
  ASSUME request \in Requests, Planned
  PROVE  LET s == plan.source
             d == plan.destination
         IN  /\ s.x \in Nat /\ s.y \in Nat
             /\ s.width \in 1 .. DimensionMax /\ s.height \in 1 .. DimensionMax
             /\ s.x + s.width <= request.source.width
             /\ s.y + s.height <= request.source.height
             /\ d.x \in Nat /\ d.y \in Nat
             /\ d.width \in 1 .. DimensionMax /\ d.height \in 1 .. DimensionMax
             /\ d.x + d.width <= request.destination.width
             /\ d.y + d.height <= request.destination.height
             /\ s.width \in Nat \ {0} /\ s.height \in Nat \ {0}
             /\ d.width \in Nat \ {0} /\ d.height \in Nat \ {0}
             /\ request.source.width \in Nat /\ request.source.height \in Nat
             /\ request.destination.width \in Nat
             /\ request.destination.height \in Nat
BY RequestTypes, FitsFacts DEF Planned

(* A planned row is in the source: for any row of the destination.         *)
LEMMA NearestPixel ==
  ASSUME request \in Requests, Planned,
         NEW x \in 0 .. plan.destination.width - 1,
         NEW y \in 0 .. plan.destination.height - 1
  PROVE  LET column == plan.source.x + NearestIndex(x, plan.source.width,
                                                    plan.destination.width)
             line   == plan.source.y + NearestIndex(y, plan.source.height,
                                                    plan.destination.height)
         IN  /\ <<column, line>> \in Covered(plan.source)
             /\ ~(line >= request.source.height)
<1>1. /\ NearestIndex(x, plan.source.width, plan.destination.width)
           \in 0 .. plan.source.width - 1
      /\ NearestIndex(y, plan.source.height, plan.destination.height)
           \in 0 .. plan.source.height - 1
  BY PlannedFacts, NearestInside
<1>2. QED
  BY <1>1, PlannedFacts DEF Covered, Columns

LEMMA FootprintInside ==
  ASSUME request \in Requests, Planned, NEW p \in Covered(plan.destination)
  PROVE  /\ Footprint(p) # {}
         /\ Footprint(p) \subseteq Covered(plan.source)
<1> DEFINE columns == TapIndices(p[1] - plan.destination.x, plan.source.width,
                                 plan.destination.width)
           rows    == TapIndices(p[2] - plan.destination.y, plan.source.height,
                                 plan.destination.height)
<1>1. /\ p[1] - plan.destination.x \in 0 .. plan.destination.width - 1
      /\ p[2] - plan.destination.y \in 0 .. plan.destination.height - 1
  BY PlannedFacts DEF Covered, Columns
<1>2. /\ columns \subseteq 0 .. plan.source.width - 1 /\ columns # {}
      /\ rows \subseteq 0 .. plan.source.height - 1 /\ rows # {}
  BY <1>1, PlannedFacts, TapsInside
<1>3. Footprint(p) = {plan.source.x + k : k \in columns}
                       \X {plan.source.y + k : k \in rows}
  BY DEF Footprint
<1> HIDE DEF columns, rows
<1>4. /\ {plan.source.x + k : k \in columns} # {}
      /\ {plan.source.y + k : k \in rows} # {}
  BY <1>2
<1>5. /\ {plan.source.x + k : k \in columns} \subseteq Columns(plan.source)
      /\ {plan.source.y + k : k \in rows} \subseteq
           plan.source.y .. plan.source.y + plan.source.height - 1
  BY <1>2, PlannedFacts DEF Columns
<1>6. ASSUME NEW A, NEW B, NEW C, NEW D, A # {}, B # {},
             A \subseteq C, B \subseteq D
      PROVE  A \X B # {} /\ A \X B \subseteq C \X D
  <2>1. PICK a \in A, b \in B : TRUE
    BY <1>6
  <2>2. <<a, b>> \in A \X B
    OBVIOUS
  <2>3. QED
    BY <1>6, <2>2
<1>7. QED
  BY <1>3, <1>4, <1>5, <1>6 DEF Covered

(* The pixels of the crop are all under some footprint.                    *)
LEMMA FootprintsCover ==
  ASSUME request \in Requests, Planned, NEW q \in Covered(plan.source)
  PROVE  \E p \in Covered(plan.destination) :
           q \in Footprint(p) /\ p \in Pixels(request.destination)
<1>1. /\ q = <<q[1], q[2]>> /\ q[1] \in Int /\ q[2] \in Int
      /\ q[1] - plan.source.x \in 0 .. plan.source.width - 1
      /\ q[2] - plan.source.y \in 0 .. plan.source.height - 1
  BY PlannedFacts DEF Covered, Columns
<1>2. PICK i \in 0 .. plan.destination.width - 1 :
        q[1] - plan.source.x
          \in TapIndices(i, plan.source.width, plan.destination.width)
  BY <1>1, PlannedFacts, TapsCover
<1>3. PICK j \in 0 .. plan.destination.height - 1 :
        q[2] - plan.source.y
          \in TapIndices(j, plan.source.height, plan.destination.height)
  BY <1>1, PlannedFacts, TapsCover
<1> DEFINE p == <<plan.destination.x + i, plan.destination.y + j>>
<1>4. /\ p \in Covered(plan.destination) /\ p \in Pixels(request.destination)
      /\ p[1] - plan.destination.x = i /\ p[2] - plan.destination.y = j
  BY PlannedFacts DEF Covered, Columns, Pixels
<1>5. /\ q[1] = plan.source.x + (q[1] - plan.source.x)
      /\ q[2] = plan.source.y + (q[2] - plan.source.y)
  BY <1>1, PlannedFacts
<1> HIDE DEF p
<1>6. /\ q[1] \in {plan.source.x + k :
                     k \in TapIndices(i, plan.source.width,
                                      plan.destination.width)}
      /\ q[2] \in {plan.source.y + k :
                     k \in TapIndices(j, plan.source.height,
                                      plan.destination.height)}
  BY <1>2, <1>3, <1>5
<1>7. q \in Footprint(p)
  BY <1>1, <1>4, <1>6 DEF Footprint
<1>8. QED
  BY <1>4, <1>7

-----------------------------------------------------------------------------
(* The steps of a call.                                                    *)

(* A code a failing call may return.                                       *)
Reportable(code) ==
  /\ code \notin {"ok", "row_out_of_range"}
  /\ code = "invalid_argument" =>
       \/ ~request.focus.finite
       \/ request.policy = "unrecognized"
       \/ request.filter = "unrecognized"

LEMMA ReturnStep ==
  ASSUME IInv, NEW code, Reportable(code), Return(code)
  PROVE  IInv'
<1>1. /\ pc' = "done" /\ result' = [code |-> code] /\ output' = NoOutput
      /\ coefficients' = 0 /\ request' = request /\ row' = row
  BY DEF Return
<1>2. /\ request \in Requests /\ row \in Nat
      /\ request.limits.max_temporary_bytes \in Nat
  BY RequestTypes DEF IInv, CallTypes
<1>3. CallTypes'
  BY <1>1, <1>2 DEF CallTypes
<1>4. OutcomeSound' /\ ~Succeeded'
  BY <1>1 DEF OutcomeSound, ErrorsAreTheCallers, Succeeded, Reportable
<1>5. QED
  BY <1>1, <1>3, <1>4 DEF IInv

LEMMA PlanStepKeeps ==
  ASSUME IInv, PlanStep
  PROVE  IInv'
<1> DEFINE planned == PlanFit(request.source, request.destination,
                              request.policy, request.focus)
           layout  == CheckedDecodeLayout(request.destination, FALSE,
                                          request.limits)
<1>1. /\ request.source \in Extent /\ request.destination \in Extent
      /\ request.policy \in Policies /\ request.focus \in FocalPoint
      /\ request.limits \in Limits /\ request.filter \in Filters
      /\ request \in Requests
  BY RequestTypes DEF IInv, CallTypes
<1>2. /\ planned.ok => /\ Lies(planned.value.source, request.source)
                       /\ Lies(planned.value.destination, request.destination)
      /\ ~planned.ok => Reportable(planned.error)
  <2>1. CASE Valid(request.source, request.destination, request.policy,
                   request.focus)
    BY <1>1, <2>1, ValidFits DEF Fits
  <2>2. CASE ~Valid(request.source, request.destination, request.policy,
                    request.focus)
    BY <1>1, <2>2, InvalidFails DEF Reportable
  <2>3. QED
    BY <2>1, <2>2
<1>3. /\ layout.ok => FitsLimits(request.destination, request.limits)
      /\ ~layout.ok => Reportable(layout.error)
  <2>1. layout.ok => FitsLimits(request.destination, request.limits)
    BY <1>1, LayoutExact
  <2>2. ~layout.ok => layout.error \in {"invalid_dimensions", "resource_limit"}
    BY DEF CheckedDecodeLayout, Err, Ok
  <2>3. QED
    BY <2>1, <2>2 DEF Reportable
<1> HIDE DEF planned, layout
<1>4. pc = "plan" /\ row = 0 /\ output = NoOutput /\ result = Pending
  BY DEF PlanStep, IInv, OutcomeSound
<1>5. CASE ~planned.ok
  <2>1. Return(planned.error)
    BY <1>5 DEF PlanStep, planned
  <2>2. QED
    BY <1>2, <1>5, <2>1, ReturnStep
<1>6. CASE planned.ok /\ ~layout.ok
  <2>1. Return(layout.error)
    BY <1>6 DEF PlanStep, planned, layout
  <2>2. QED
    BY <1>3, <1>6, <2>1, ReturnStep
<1>7. CASE planned.ok /\ layout.ok /\ request.filter = "unrecognized"
  <2>1. Return("invalid_argument")
    BY <1>7 DEF PlanStep, planned, layout
  <2>2. Reportable("invalid_argument")
    BY <1>7 DEF Reportable
  <2>3. QED
    BY <2>1, <2>2, ReturnStep
<1>8. CASE planned.ok /\ layout.ok /\ request.filter # "unrecognized"
  <2>1. /\ pc' = IF request.filter = "triangle" THEN "coefficients"
                 ELSE "create"
        /\ plan' = planned.value
        /\ request' = request /\ coefficients' = coefficients
        /\ taps' = taps /\ output' = output /\ row' = row /\ result' = result
    BY <1>8 DEF PlanStep, planned, layout
  <2>2. request.filter \in {"nearest", "triangle"}
    BY <1>1, <1>8 DEF Filters
  <2>3. Planned'
    <3>1. /\ planned.value.source \in Rectangle
          /\ RectFits(planned.value.source, request.source)
          /\ planned.value.destination \in Rectangle
          /\ RectFits(planned.value.destination, request.destination)
      BY <1>1, <1>2, <1>8, LiesFits
    <3>2. QED
      BY <1>3, <1>8, <2>1, <2>2, <3>1 DEF Planned
  <2>4. CallTypes'
    BY <2>1 DEF IInv, CallTypes
  <2>5. OutcomeSound' /\ ~Succeeded'
    BY <1>4, <2>1 DEF OutcomeSound, ErrorsAreTheCallers, Succeeded
  <2>6. QED
    BY <1>4, <2>1, <2>2, <2>3, <2>4, <2>5 DEF IInv
<1>9. QED
  BY <1>5, <1>6, <1>7, <1>8

LEMMA PlanCoefficientsKeeps ==
  ASSUME IInv, PlanCoefficients
  PROVE  IInv'
<1> DEFINE measured   == MeasurePlan(plan.source, plan.destination,
                                     request.limits.max_temporary_bytes)
           horizontal == PopulateAxis(plan.source.width, plan.destination.width)
           vertical   == PopulateAxis(plan.source.height,
                                      plan.destination.height)
<1>1. /\ pc = "coefficients" /\ request \in Requests /\ Planned
      /\ row = 0 /\ output = NoOutput /\ result = Pending
      /\ request.filter = "triangle"
  BY DEF PlanCoefficients, IInv, CallTypes, OutcomeSound
<1>2. /\ measured.ok => /\ measured.value \in Nat
                        /\ measured.value <= request.limits.max_temporary_bytes
      /\ ~measured.ok => measured.error = "resource_limit"
  BY <1>1, RequestTypes, PlannedFacts, MeasurePlanBound
<1>3. /\ horizontal.ok => Spans(horizontal.value, plan.source.width,
                                plan.destination.width)
      /\ ~horizontal.ok => horizontal.error = "resource_limit"
      /\ vertical.ok => Spans(vertical.value, plan.source.height,
                              plan.destination.height)
      /\ ~vertical.ok => vertical.error = "resource_limit"
  BY PopulateSpans
<1>4. Reportable("resource_limit") /\ Reportable("allocation_failure")
  BY DEF Reportable
<1> HIDE DEF measured, horizontal, vertical
<1>5. CASE Return("resource_limit") \/ Return("allocation_failure")
  BY <1>4, <1>5, ReturnStep
<1>6. CASE ~(Return("resource_limit") \/ Return("allocation_failure"))
  <2>1. /\ measured.ok /\ horizontal.ok /\ vertical.ok
        /\ pc' = "create"
        /\ coefficients' = measured.value
        /\ taps' = [horizontal |-> horizontal.value,
                    vertical   |-> vertical.value]
        /\ request' = request /\ plan' = plan /\ output' = output
        /\ row' = row /\ result' = result
    BY <1>2, <1>3, <1>6 DEF PlanCoefficients, measured, horizontal, vertical
  <2>2. CallTypes'
    BY <1>1, <1>2, <2>1 DEF CallTypes
  <2>3. OutcomeSound' /\ ~Succeeded'
    BY <1>1, <2>1 DEF OutcomeSound, ErrorsAreTheCallers, Succeeded
  <2>4. Planned' /\ Tapped'
    BY <1>1, <1>3, <2>1 DEF Planned, Tapped
  <2>5. QED
    BY <1>1, <2>1, <2>2, <2>3, <2>4 DEF IInv
<1>7. QED
  BY <1>5, <1>6

LEMMA CreateOutputKeeps ==
  ASSUME IInv, CreateOutput
  PROVE  IInv'
<1> DEFINE layout == CheckedDecodeLayout(request.destination, FALSE,
                                         request.limits)
<1>1. /\ pc = "create" /\ request \in Requests /\ Planned
      /\ row = 0 /\ result = Pending
      /\ request.filter = "triangle" => Tapped
  BY DEF CreateOutput, IInv, CallTypes, OutcomeSound
<1>2. ~layout.ok => layout.error \in {"invalid_dimensions", "resource_limit"}
  BY DEF CheckedDecodeLayout, Err, Ok
<1> HIDE DEF layout
<1>3. CASE ~layout.ok
  <2>1. Return(layout.error) /\ Reportable(layout.error)
    BY <1>2, <1>3 DEF CreateOutput, layout, Reportable
  <2>2. QED
    BY <2>1, ReturnStep
<1>4. CASE Return("allocation_failure")
  BY <1>4, ReturnStep DEF Reportable
<1>5. CASE layout.ok /\ ~Return("allocation_failure")
  <2>1. /\ pc' = "matte"
        /\ output' = [p \in Pixels(request.destination) |-> Black]
        /\ request' = request /\ plan' = plan /\ coefficients' = coefficients
        /\ taps' = taps /\ row' = row /\ result' = result
    BY <1>5 DEF CreateOutput, layout
  <2>2. CallTypes'
    BY <2>1 DEF IInv, CallTypes
  <2>3. OutcomeSound' /\ ~Succeeded'
    BY <1>1, <2>1 DEF OutcomeSound, ErrorsAreTheCallers, Succeeded
  <2>4. Planned' /\ (request'.filter = "triangle" => Tapped')
    BY <1>1, <2>1 DEF Planned, Tapped
  <2>5. MattePart'
    <3>1. DOMAIN output' = Pixels(request.destination)
      BY <2>1
    <3>2. \A p \in Pixels(request.destination) : ~(p[2] < 0)
      BY <1>1, PlannedFacts DEF Pixels
    <3>3. 0 <= request.destination.height
      BY <1>1, PlannedFacts
    <3>4. QED
      BY <1>1, <2>1, <3>1, <3>2, <3>3 DEF MattePart
  <2>6. QED
    BY <1>1, <2>1, <2>2, <2>3, <2>4, <2>5 DEF IInv
<1>6. QED
  BY <1>3, <1>4, <1>5

(* A written row: the pixels it holds are pixel's, the others stay.        *)
LEMMA MatteRowKeeps ==
  ASSUME IInv, MatteRow
  PROVE  IInv'
<1>1. /\ pc = "matte" /\ request \in Requests /\ Planned /\ row \in Nat
      /\ result = Pending /\ row < request.destination.height /\ MattePart
      /\ request.filter = "triangle" => Tapped
  BY DEF MatteRow, IInv, CallTypes, OutcomeSound
<1>2. /\ output' = [p \in DOMAIN output |->
                      IF p[2] = row
                           /\ p[1] \in 0 .. request.destination.width - 1
                        THEN Matte ELSE output[p]]
      /\ row' = row + 1
      /\ pc' = pc /\ request' = request /\ plan' = plan
      /\ coefficients' = coefficients /\ taps' = taps /\ result' = result
  BY DEF MatteRow, WriteRow
<1>3. CallTypes'
  BY <1>1, <1>2 DEF IInv, CallTypes
<1>4. OutcomeSound' /\ ~Succeeded'
  BY <1>1, <1>2 DEF OutcomeSound, ErrorsAreTheCallers, Succeeded
<1>5. Planned' /\ (request'.filter = "triangle" => Tapped')
  BY <1>1, <1>2 DEF Planned, Tapped
<1>6. MattePart'
  <2>1. /\ DOMAIN output' = DOMAIN output
        /\ row + 1 <= request.destination.height
    BY <1>1, <1>2, PlannedFacts
  <2>2. ASSUME NEW p \in DOMAIN output, p[2] < row + 1
        PROVE  output'[p] = Matte
    <3>1. p[1] \in 0 .. request.destination.width - 1 /\ p[2] \in Int
      BY <1>1 DEF MattePart, Pixels
    <3>2. CASE p[2] = row
      BY <1>2, <3>1, <3>2
    <3>3. CASE p[2] < row
      BY <1>1, <1>2, <3>3 DEF MattePart
    <3>4. QED
      BY <1>1, <2>2, <3>1, <3>2, <3>3
  <2>3. QED
    BY <1>1, <1>2, <2>1, <2>2 DEF MattePart
<1>7. QED
  BY <1>1, <1>2, <1>3, <1>4, <1>5, <1>6 DEF IInv

LEMMA MatteDoneKeeps ==
  ASSUME IInv, MatteDone
  PROVE  IInv'
<1>1. /\ pc = "matte" /\ request \in Requests /\ Planned /\ row \in Nat
      /\ result = Pending /\ row = request.destination.height /\ MattePart
      /\ request.filter = "triangle" => Tapped
      /\ request.filter \in {"nearest", "triangle"}
  BY DEF MatteDone, IInv, CallTypes, OutcomeSound, Planned
<1>2. /\ pc' = request.filter /\ row' = 0 /\ output' = output
      /\ request' = request /\ plan' = plan
      /\ coefficients' = coefficients /\ taps' = taps /\ result' = result
  BY DEF MatteDone
<1>3. CallTypes'
  BY <1>1, <1>2 DEF IInv, CallTypes
<1>4. OutcomeSound' /\ ~Succeeded'
  BY <1>1, <1>2 DEF OutcomeSound, ErrorsAreTheCallers, Succeeded
<1>5. Planned' /\ (request'.filter = "triangle" => Tapped')
  BY <1>1, <1>2 DEF Planned, Tapped
<1>6. SamplePart'
  <2>1. ASSUME NEW p \in DOMAIN output
        PROVE  /\ output[p] = Matte
               /\ ~(/\ p \in Covered(plan.destination)
                    /\ p[2] < plan.destination.y + 0)
    <3>1. p[2] \in 0 .. request.destination.height - 1
      BY <1>1 DEF MattePart, Pixels
    <3>2. output[p] = Matte
      BY <1>1, <3>1, PlannedFacts DEF MattePart
    <3>3. p \in Covered(plan.destination) =>
            p[2] \in plan.destination.y ..
                       plan.destination.y + plan.destination.height - 1
      BY DEF Covered
    <3>4. QED
      BY <1>1, <3>1, <3>2, <3>3, PlannedFacts
  <2>2. 0 <= plan.destination.height
    BY <1>1, PlannedFacts
  <2>3. QED
    BY <1>1, <1>2, <2>1, <2>2 DEF SamplePart, MattePart
<1>7. QED
  BY <1>1, <1>2, <1>3, <1>4, <1>5, <1>6 DEF IInv

(* One more row of the rectangle is sampled: what both filters have in     *)
(* common.                                                                 *)
SampledRow(pixel) ==
  /\ output' = [p \in DOMAIN output |->
                  IF p[2] = plan.destination.y + row
                       /\ p[1] \in Columns(plan.destination)
                    THEN pixel[p[1]] ELSE output[p]]
  /\ row' = row + 1
  /\ pc' = pc /\ request' = request /\ plan' = plan
  /\ coefficients' = coefficients /\ taps' = taps /\ result' = result

SoundPixel(p, value) ==
  IF request.filter = "triangle" THEN value = Footprint(p)
  ELSE value # {} /\ value \subseteq Covered(plan.source)

LEMMA SampledRowKeeps ==
  ASSUME IInv, pc \in {"nearest", "triangle"}, row < plan.destination.height,
         NEW pixel, SampledRow(pixel),
         \A p \in Pixels(request.destination) :
           /\ p[2] = plan.destination.y + row
           /\ p[1] \in Columns(plan.destination)
           => SoundPixel(p, pixel[p[1]])
  PROVE  IInv'
<1>1. /\ request \in Requests /\ Planned /\ row \in Nat
      /\ result = Pending /\ SamplePart
      /\ pc = "triangle" => Tapped
      /\ pc = "triangle" <=> request.filter = "triangle"
      /\ pc = "nearest" <=> request.filter = "nearest"
  BY DEF IInv, CallTypes, OutcomeSound, Planned
<1>2. /\ output' = [p \in DOMAIN output |->
                      IF p[2] = plan.destination.y + row
                           /\ p[1] \in Columns(plan.destination)
                        THEN pixel[p[1]] ELSE output[p]]
      /\ row' = row + 1
      /\ pc' = pc /\ request' = request /\ plan' = plan
      /\ coefficients' = coefficients /\ taps' = taps /\ result' = result
  BY DEF SampledRow
<1>3. CallTypes'
  BY <1>1, <1>2 DEF IInv, CallTypes
<1>4. OutcomeSound' /\ ~Succeeded'
  BY <1>1, <1>2 DEF OutcomeSound, ErrorsAreTheCallers, Succeeded
<1>5. Planned' /\ (request'.filter = "triangle" => Tapped')
  BY <1>1, <1>2 DEF Planned, Tapped
<1>6. SamplePart'
  <2>1. /\ DOMAIN output' = Pixels(request.destination)
        /\ DOMAIN output = Pixels(request.destination)
        /\ row + 1 <= plan.destination.height
    BY <1>1, <1>2, PlannedFacts DEF SamplePart
  <2>2. ASSUME NEW p \in Pixels(request.destination)
        PROVE  IF p \in Covered(plan.destination)
                    /\ p[2] < plan.destination.y + (row + 1)
                 THEN SoundPixel(p, output'[p]) ELSE output'[p] = Matte
    <3>1. /\ p[1] \in Int /\ p[2] \in Int /\ p = <<p[1], p[2]>>
      BY DEF Pixels
    <3>2. IF p \in Covered(plan.destination) /\ p[2] < plan.destination.y + row
            THEN SoundPixel(p, output[p]) ELSE output[p] = Matte
      BY <1>1, <2>1 DEF SamplePart, Sampled, SoundPixel
    <3>3. p \in Covered(plan.destination) <=>
            /\ p[1] \in Columns(plan.destination)
            /\ p[2] >= plan.destination.y
            /\ p[2] < plan.destination.y + plan.destination.height
      BY <1>1, <3>1, PlannedFacts DEF Covered
    <3>4. CASE /\ p[2] = plan.destination.y + row
               /\ p[1] \in Columns(plan.destination)
      <4>1. output'[p] = pixel[p[1]] /\ SoundPixel(p, pixel[p[1]])
        BY <1>2, <2>1, <3>4
      <4>2. /\ p \in Covered(plan.destination)
            /\ p[2] < plan.destination.y + (row + 1)
        BY <1>1, <2>1, <3>3, <3>4, PlannedFacts
      <4>3. QED
        BY <4>1, <4>2
    <3>5. CASE ~(/\ p[2] = plan.destination.y + row
                 /\ p[1] \in Columns(plan.destination))
      <4>1. output'[p] = output[p]
        BY <1>2, <2>1, <3>5
      <4>2. /\ p \in Covered(plan.destination)
            /\ p[2] < plan.destination.y + (row + 1)
            <=> /\ p \in Covered(plan.destination)
                /\ p[2] < plan.destination.y + row
        BY <1>1, <3>1, <3>3, <3>5, PlannedFacts
      <4>3. QED
        BY <3>2, <4>1, <4>2
    <3>6. QED
      BY <3>4, <3>5
  <2>3. \A p \in DOMAIN output' : Sampled(p)' <=> SoundPixel(p, output'[p])
    BY <1>2 DEF Sampled, SoundPixel, Footprint, Covered, Columns
  <2>4. Covered(plan.destination)' = Covered(plan.destination)
    BY <1>2
  <2>5. QED
    BY <1>2, <2>1, <2>2, <2>3, <2>4 DEF SamplePart
<1>7. QED
  BY <1>1, <1>2, <1>3, <1>4, <1>5, <1>6 DEF IInv

LEMMA NearestRowKeeps ==
  ASSUME IInv, NearestRow
  PROVE  IInv'
<1> DEFINE y == plan.source.y + NearestIndex(row, plan.source.height,
                                             plan.destination.height)
           column(x) == plan.source.x
                          + NearestIndex(x - plan.destination.x,
                                         plan.source.width,
                                         plan.destination.width)
           pixel == [x \in Columns(plan.destination) |-> {<<column(x), y>>}]
<1>1. /\ pc = "nearest" /\ request \in Requests /\ Planned /\ row \in Nat
      /\ row < plan.destination.height /\ request.filter = "nearest"
  BY DEF NearestRow, IInv, CallTypes
<1>2. row \in 0 .. plan.destination.height - 1
  BY <1>1, PlannedFacts
<1>3. ASSUME NEW x \in Columns(plan.destination)
      PROVE  <<column(x), y>> \in Covered(plan.source)
  <2>1. x - plan.destination.x \in 0 .. plan.destination.width - 1
    BY <1>1, PlannedFacts DEF Columns
  <2>2. QED
    BY <1>1, <1>2, <2>1, NearestPixel
<1>4. /\ ~(y >= request.source.height)
      /\ ~(plan.destination.y + row >= request.destination.height)
  <2>1. 0 \in 0 .. plan.destination.width - 1
    BY <1>1, PlannedFacts
  <2>2. ~(y >= request.source.height)
    BY <1>1, <1>2, <2>1, NearestPixel
  <2>3. ~(plan.destination.y + row >= request.destination.height)
    BY <1>1, PlannedFacts
  <2>4. QED
    BY <2>2, <2>3
<1>5. SampledRow(pixel)
  <2>1. /\ output' = [p \in DOMAIN output |->
                        IF p[2] = plan.destination.y + row
                             /\ p[1] \in Columns(plan.destination)
                          THEN {<<column(p[1]), y>>} ELSE output[p]]
        /\ row' = row + 1
        /\ UNCHANGED <<pc, request, plan, coefficients, taps, result>>
    BY <1>4 DEF NearestRow, WriteRow
  <2>2. QED
    BY <2>1 DEF SampledRow
<1>6. ASSUME NEW x \in Columns(plan.destination), NEW p
      PROVE  SoundPixel(p, pixel[x])
  <2>1. pixel[x] = {<<column(x), y>>}
    OBVIOUS
  <2> HIDE DEF pixel, column, y
  <2>2. QED
    BY <1>1, <1>3, <2>1 DEF SoundPixel
<1> HIDE DEF pixel
<1>7. QED
  BY <1>1, <1>5, <1>6, SampledRowKeeps

LEMMA TriangleRowKeeps ==
  ASSUME IInv, TriangleRow
  PROVE  IInv'
<1> DEFINE rows == {plan.source.y + k : k \in DOMAIN taps.vertical[row]}
           columns(x) ==
             {plan.source.x + k :
                k \in DOMAIN taps.horizontal[x - plan.destination.x]}
           pixel == [x \in Columns(plan.destination) |-> columns(x) \X rows]
<1>1. /\ pc = "triangle" /\ request \in Requests /\ Planned /\ row \in Nat
      /\ row < plan.destination.height /\ request.filter = "triangle"
      /\ Tapped
  BY DEF TriangleRow, IInv, CallTypes
<1>2. row \in 0 .. plan.destination.height - 1
  BY <1>1, PlannedFacts
<1>3. DOMAIN taps.vertical[row] = TapIndices(row, plan.source.height,
                                             plan.destination.height)
  BY <1>1, <1>2 DEF Tapped, Spans
<1>4. ~\E y \in rows : y >= request.source.height
  <2>1. TapIndices(row, plan.source.height, plan.destination.height)
          \subseteq 0 .. plan.source.height - 1
    BY <1>1, <1>2, PlannedFacts, TapsInside
  <2>2. QED
    BY <1>1, <1>3, <2>1, PlannedFacts
<1>5. RectFits(plan.source, request.source)
      /\ RectFits(plan.destination, request.destination)
      /\ DOMAIN taps.horizontal = 0 .. plan.destination.width - 1
      /\ DOMAIN taps.vertical = 0 .. plan.destination.height - 1
      /\ ~(plan.destination.y + row >= request.destination.height)
  BY <1>1, PlannedFacts DEF Planned, Tapped, Spans
<1>6. SampledRow(pixel)
  <2>1. /\ output' = [p \in DOMAIN output |->
                        IF p[2] = plan.destination.y + row
                             /\ p[1] \in Columns(plan.destination)
                          THEN columns(p[1]) \X rows ELSE output[p]]
        /\ row' = row + 1
        /\ UNCHANGED <<pc, request, plan, coefficients, taps, result>>
    BY <1>4, <1>5 DEF TriangleRow, WriteRow
  <2>2. QED
    BY <2>1 DEF SampledRow
<1>7. ASSUME NEW p, p[2] = plan.destination.y + row,
             p[1] \in Columns(plan.destination)
      PROVE  SoundPixel(p, pixel[p[1]])
  <2>1. p[2] - plan.destination.y = row
    BY <1>1, <1>7, PlannedFacts
  <2>2. p[1] - plan.destination.x \in 0 .. plan.destination.width - 1
    BY <1>1, <1>7, PlannedFacts DEF Columns
  <2>3. DOMAIN taps.horizontal[p[1] - plan.destination.x]
          = TapIndices(p[1] - plan.destination.x, plan.source.width,
                       plan.destination.width)
    BY <1>1, <2>2 DEF Tapped, Spans
  <2>4. pixel[p[1]] = columns(p[1]) \X rows
    BY <1>7
  <2>5. columns(p[1]) \X rows = Footprint(p)
    BY <1>3, <2>1, <2>3 DEF Footprint
  <2> HIDE DEF pixel, columns, rows
  <2>6. QED
    BY <1>1, <2>4, <2>5 DEF SoundPixel
<1> HIDE DEF pixel
<1>8. QED
  BY <1>1, <1>6, <1>7, SampledRowKeeps

LEMMA SampleDoneKeeps ==
  ASSUME IInv, SampleDone
  PROVE  IInv'
<1>1. /\ request \in Requests /\ Planned /\ row \in Nat
      /\ row = plan.destination.height /\ SamplePart
      /\ request.limits.max_temporary_bytes \in Nat
  BY RequestTypes DEF SampleDone, IInv, CallTypes
<1>2. /\ pc' = "done" /\ result' = [code |-> "ok"] /\ coefficients' = 0
      /\ request' = request /\ plan' = plan /\ taps' = taps
      /\ output' = output /\ row' = row
  BY DEF SampleDone
<1>3. CallTypes'
  BY <1>1, <1>2 DEF CallTypes
<1>4. OutcomeSound'
  BY <1>2 DEF OutcomeSound, ErrorsAreTheCallers
<1>5. Planned'
  BY <1>1, <1>2 DEF Planned
<1>6. SamplePart'
  BY <1>1, <1>2 DEF SamplePart, Sampled, Footprint, Covered, Columns
<1>7. row' = plan'.destination.height
  BY <1>1, <1>2
<1>8. QED
  BY <1>2, <1>3, <1>4, <1>5, <1>6, <1>7 DEF IInv

LEMMA StutterKeeps ==
  ASSUME IInv, UNCHANGED vars
  PROVE  IInv'
BY DEF vars, IInv, CallTypes, OutcomeSound, ErrorsAreTheCallers, Succeeded,
       Planned, Tapped, MattePart, SamplePart, Sampled, Footprint, Covered,
       Columns

LEMMA InitIInv == Init => IInv
<1> SUFFICES ASSUME Init PROVE IInv
  OBVIOUS
<1>1. /\ pc = "plan" /\ request \in Requests /\ coefficients = 0
      /\ output = NoOutput /\ row = 0 /\ result = Pending
  BY DEF Init
<1>2. 0 <= request.limits.max_temporary_bytes
  BY <1>1, RequestTypes
<1>3. QED
  BY <1>1, <1>2 DEF IInv, CallTypes, OutcomeSound, ErrorsAreTheCallers,
                    Succeeded

(* The inductive invariant of a call of fit.                               *)
THEOREM FitInvariant == Spec => []IInv
<1>1. IInv /\ [Next]_vars => IInv'
  BY PlanStepKeeps, PlanCoefficientsKeeps, CreateOutputKeeps, MatteRowKeeps,
     MatteDoneKeeps, NearestRowKeeps, TriangleRowKeeps, SampleDoneKeeps,
     StutterKeeps DEF Next
<1>2. QED
  BY InitIInv, <1>1, PTL DEF Spec

(* A finished image is made of the planned crop inside the planned         *)
(* rectangle and of matte outside it, for either filter.                   *)
THEOREM PixelsDecided == Spec => []FitComplete
<1>1. IInv => FitComplete
  <2> SUFFICES ASSUME IInv, Succeeded PROVE FitComplete
    BY DEF FitComplete
  <2>1. /\ request \in Requests /\ Planned /\ SamplePart
        /\ row = plan.destination.height
    BY DEF IInv, CallTypes
  <2>2. DOMAIN output = Pixels(request.destination)
    BY <2>1 DEF SamplePart
  <2>3. ASSUME NEW p \in DOMAIN output
        PROVE  IF p \in Covered(plan.destination)
                 THEN output[p] # {} /\ output[p] \subseteq Covered(plan.source)
                 ELSE output[p] = Matte
    <3>1. CASE p \in Covered(plan.destination)
      <4>1. p[2] < plan.destination.y + row
        BY <2>1, <3>1, PlannedFacts DEF Covered
      <4>2. Sampled(p)
        BY <2>1, <3>1, <4>1 DEF SamplePart
      <4>3. QED
        BY <2>1, <3>1, <4>2, FootprintInside DEF Sampled
    <3>2. CASE p \notin Covered(plan.destination)
      BY <2>1, <3>2 DEF SamplePart
    <3>3. QED
      BY <3>1, <3>2
  <2>4. QED
    BY <2>2, <2>3 DEF FitComplete
<1>2. QED
  BY <1>1, FitInvariant, PTL

(* The triangle filter skips no pixel of the crop at any reduction.        *)
THEOREM CropUsedUp == Spec => []NothingSkipped
<1>1. IInv => NothingSkipped
  <2> SUFFICES ASSUME IInv, Succeeded, request.filter = "triangle",
                      NEW q \in Covered(plan.source)
               PROVE  q \in UNION {output[p] : p \in DOMAIN output}
    BY DEF NothingSkipped
  <2>1. /\ request \in Requests /\ Planned /\ SamplePart
        /\ row = plan.destination.height
    BY DEF IInv, CallTypes
  <2>2. PICK p \in Covered(plan.destination) :
          q \in Footprint(p) /\ p \in Pixels(request.destination)
    BY <2>1, FootprintsCover
  <2>3. p[2] < plan.destination.y + row
    BY <2>1, PlannedFacts DEF Covered
  <2>4. p \in DOMAIN output /\ output[p] = Footprint(p)
    BY <2>1, <2>2, <2>3 DEF SamplePart, Sampled
  <2>5. QED
    BY <2>2, <2>4
<1>2. QED
  BY <1>1, FitInvariant, PTL

(* Coefficients and output stay within the caller's limits, and a failing  *)
(* call leaves neither.                                                    *)
THEOREM FitStorageBounded == Spec => []StorageAdmitted
<1>1. IInv => StorageAdmitted
  BY DEF IInv, CallTypes, OutcomeSound, Succeeded, Planned, FitsLimits,
         StorageAdmitted
<1>2. QED
  BY <1>1, FitInvariant, PTL

(* The branches of fit and resize_quality_rgba that report an error of     *)
(* their own making never run.                                             *)
THEOREM HelpersNeverFail == Spec => []ErrorsAreTheCallers
<1>1. IInv => ErrorsAreTheCallers
  BY DEF IInv, OutcomeSound
<1>2. QED
  BY <1>1, FitInvariant, PTL
=============================================================================
