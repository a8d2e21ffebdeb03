---------------------------- MODULE QualityFilter ----------------------------
(***************************************************************************)
(* The coefficient plan of quality_filter.cpp: for each destination index  *)
(* of an axis, the source indices it mixes and their integer weights.  A   *)
(* triangle as wide as the scale is centered on the destination pixel; the *)
(* part of it outside the source is folded into the edge taps.  Its storage*)
(* is measured before it is allocated and populated.                       *)
(***************************************************************************)
EXTENDS DecodeLimits

CONSTANTS
  SpanBytes,  \* sizeof(QualityFilterSpan)
  TapBytes    \* sizeof(QualityFilterTap)

ASSUME CoefficientAssumption == SpanBytes \in Nat \ {0} /\ TapBytes \in Nat \ {0}

Denominator(to) == 2 * to

(* Mutant: the triangle stays one destination pixel wide.                  *)
SupportFixed(from, to) == 2 * to

(* Half the width of the triangle, in units of 1 / Denominator.            *)
Support(from, to) == 2 * (IF from > to THEN from ELSE to)

CenterNumerator(i, from, to) == (2 * i + 1) * from - to

ToEdge(k, from) == IF k < 0 THEN 0 ELSE IF k > from - 1 THEN from - 1 ELSE k

(* axis_bounds: the indices strictly inside the triangle, and clamped.     *)
AxisBounds(i, from, to) ==
  LET center == CenterNumerator(i, from, to)
      first  == (center - Support(from, to)) \div Denominator(to) + 1
      last   == (center + Support(from, to) - 1) \div Denominator(to)
  IN  [ first |-> first, last |-> last,
        first_clamped |-> ToEdge(first, from),
        last_clamped  |-> ToEdge(last, from) ]

(* The source indices of a span.                                           *)
TapIndices(i, from, to) ==
  LET bounds == AxisBounds(i, from, to)
  IN  bounds.first_clamped .. bounds.last_clamped

-----------------------------------------------------------------------------
(* Weights.                                                                *)

RawWeight(k, i, from, to) ==
  LET distance == Denominator(to) * k - CenterNumerator(i, from, to)
  IN  Support(from, to) - (IF distance >= 0 THEN distance ELSE -distance)

(* first + ... + last, an even factor halved first.                        *)
ArithmeticSum(first, last) ==
  LET count == last - first + 1
  IN  IF count % 2 = 0 THEN (count \div 2) * (first + last)
      ELSE count * ((first + last) \div 2)

LeftOutsideWeight(first, last, i, from, to) ==
  IF first > last THEN 0
  ELSE (last - first + 1) * (Support(from, to) - CenterNumerator(i, from, to))
         + Denominator(to) * ArithmeticSum(first, last)

RightOutsideWeight(first, last, i, from, to) ==
  IF first > last THEN 0
  ELSE (last - first + 1) * (Support(from, to) + CenterNumerator(i, from, to))
         - Denominator(to) * ArithmeticSum(first, last)

(* Mutant: the left fold runs one index too far.                           *)
TapWeightLeftTwice(k, i, from, to) ==
  LET bounds == AxisBounds(i, from, to)
      inside == IF k \in bounds.first .. bounds.last
                  THEN RawWeight(k, i, from, to) ELSE 0
      left   == IF k = 0 /\ bounds.first < 0
                  THEN LeftOutsideWeight(bounds.first, 0, i, from, to) ELSE 0
      right  == IF k = from - 1 /\ bounds.last >= from
                  THEN RightOutsideWeight(from, bounds.last, i, from, to)
                  ELSE 0
  IN  inside + left + right

(* The weight of source index k in span i: its own, and at an edge that of *)
(* every index beyond it.                                                  *)
TapWeight(k, i, from, to) ==
  LET bounds == AxisBounds(i, from, to)
      inside == IF k \in bounds.first .. bounds.last
                  THEN RawWeight(k, i, from, to) ELSE 0
      left   == IF k = 0 /\ bounds.first < 0
                  THEN LeftOutsideWeight(
                         bounds.first,
                         IF bounds.last < -1 THEN bounds.last ELSE -1,
                         i, from, to)
                  ELSE 0
      right  == IF k = from - 1 /\ bounds.last >= from
                  THEN RightOutsideWeight(
                         IF bounds.first > from THEN bounds.first ELSE from,
                         bounds.last, i, from, to)
                  ELSE 0
  IN  inside + left + right

-----------------------------------------------------------------------------

(* f[from] + ... + f[to - 1].                                              *)
SumBetween(f, from, to) ==
  LET sum[n \in from .. to] == IF n = from THEN 0 ELSE sum[n - 1] + f[n - 1]
  IN  sum[to]

(* measure_axis.  Its loop compares every prefix with the limit; the sums  *)
(* only grow, so the whole axis decides.  A vector's max_size is SizeMax,  *)
(* in bytes.                                                               *)
MeasureAxis(from, to, limit) ==
  LET counts == [i \in 0 .. to - 1 |->
                   LET bounds == AxisBounds(i, from, to)
                   IN  bounds.last_clamped - bounds.first_clamped + 1]
      spans  == CheckedMultiply(to, SpanBytes)
      taps   == CheckedMultiply(SumBetween(counts, 0, to), TapBytes)
  IN  IF \/ ~spans.ok \/ spans.value > SizeMax
         \/ ~taps.ok \/ taps.value > SizeMax
      THEN Err("resource_limit")
      ELSE IF spans.value + taps.value > limit THEN Err("resource_limit")
      ELSE Ok(spans.value + taps.value)

(* populate_axis: spans as functions from source index to weight, unless a *)
(* weight or a sum of a span is not a positive word.                       *)
PopulateAxis(from, to) ==
  LET axis == [i \in 0 .. to - 1 |->
                 [k \in TapIndices(i, from, to) |-> TapWeight(k, i, from, to)]]
      total(i) ==
        LET bounds == AxisBounds(i, from, to)
        IN  SumBetween(axis[i], bounds.first_clamped, bounds.last_clamped + 1)
  IN  IF \E i \in 0 .. to - 1 :
           \/ total(i) \notin 1 .. WordMax
           \/ \E k \in DOMAIN axis[i] : axis[i][k] \notin 1 .. WordMax
        THEN Err("resource_limit")
        ELSE Ok(axis)

IsEmpty(e) == e.width = 0 \/ e.height = 0

(* Mutant: each axis is compared with the whole limit.                     *)
MeasurePlanByAxis(source, destination, limit) ==
  LET horizontal == MeasureAxis(source.width, destination.width, limit)
      vertical   == MeasureAxis(source.height, destination.height, limit)
  IN  IF IsEmpty(source) \/ IsEmpty(destination)
      THEN Err("invalid_dimensions")
      ELSE IF ~horizontal.ok THEN horizontal
      ELSE IF ~vertical.ok THEN vertical
      ELSE Ok(horizontal.value + vertical.value)

(* make_quality_filter_plan up to its allocations: the vertical axis gets  *)
(* what the horizontal one leaves of the limit.                            *)
MeasurePlan(source, destination, limit) ==
  LET horizontal == MeasureAxis(source.width, destination.width, limit)
      vertical   == MeasureAxis(source.height, destination.height,
                                limit - horizontal.value)
  IN  IF IsEmpty(source) \/ IsEmpty(destination)
      THEN Err("invalid_dimensions")
      ELSE IF ~horizontal.ok THEN horizontal
      ELSE IF ~vertical.ok THEN vertical
      ELSE Ok(horizontal.value + vertical.value)
=============================================================================
