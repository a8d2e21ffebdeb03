--------------------------- MODULE MCFitGeometry ---------------------------
(***************************************************************************)
(* One plan_fit per behavior, for every pair of extents, policy and a set  *)
(* of focal points, and the sampling of the rectangles it plans.           *)
(***************************************************************************)
EXTENDS FitGeometry

CONSTANT PlanFocalPoints

ASSUME PlanFocalPointsAssumption == PlanFocalPoints \subseteq FocalPoint

VARIABLES query, answer

planVars == <<query, answer>>

Unplanned == [ok |-> FALSE, error |-> "pending"]

Query == [ source : Extent, destination : Extent, policy : Policies,
           focus : PlanFocalPoints ]

PlanInit ==
  /\ query \in Query
  /\ answer = Unplanned

PlanNext ==
  /\ answer = Unplanned
  /\ answer' = PlanFit(query.source, query.destination, query.policy,
                       query.focus)
  /\ UNCHANGED query

PlanSpec == PlanInit /\ [][PlanNext]_planVars

Answered == answer # Unplanned

-----------------------------------------------------------------------------

NonEmpty(e) == e.width > 0 /\ e.height > 0

Inside(rect, e) ==
  /\ rect.x >= 0 /\ rect.y >= 0
  /\ rect.width > 0 /\ rect.height > 0
  /\ rect.x + rect.width <= e.width
  /\ rect.y + rect.height <= e.height

(* Every valid request has a plan, and both of its rectangles are          *)
(* non-empty and inside their extents: rounding an axis up never passes    *)
(* the extent, so geometry_overflow is unreachable and no later row or     *)
(* index leaves an image (fit_geometry.cpp plan_fit, fit.cpp).             *)
PlanSound ==
  Answered =>
    /\ answer.ok <=>
         /\ NonEmpty(query.source) /\ NonEmpty(query.destination)
         /\ query.focus.finite
         /\ query.policy # "unrecognized"
    /\ answer.ok => /\ Inside(answer.value.source, query.source)
                    /\ Inside(answer.value.destination, query.destination)

(* The two axes are treated alike: turning source, destination and focal   *)
(* point over turns the plan over.  The branches of contain and cover are  *)
(* each other's image only if the case of equal aspects agrees from both   *)
(* sides (ADR 0005 "the same integral plan").                              *)
Turned(rect) == Rect(rect.y, rect.x, rect.height, rect.width)

AxesAlike ==
  answer.ok =>
    PlanFit(Transposed(query.source), Transposed(query.destination),
            query.policy,
            [query.focus EXCEPT !.x = query.focus.y, !.y = query.focus.x])
      = Plan(Turned(answer.value.source), Turned(answer.value.destination))

(* Contain keeps the whole source, cover fills the whole destination, and  *)
(* the one axis that is computed is the integer nearest to the exact       *)
(* aspect, the greater of two (ADR 0005 "Derived dimensions ... round to   *)
(* the nearest integer. Exact halves select the greater"), or one pixel.   *)
NearestInteger(n, left, right, divisor) ==
  \/ /\ (2 * n - 1) * divisor <= 2 * left * right
     /\ 2 * left * right < (2 * n + 1) * divisor
  \/ n = 1 /\ 2 * left * right < divisor

AspectKept ==
  answer.ok =>
    LET s == answer.value.source
        d == answer.value.destination
    IN  /\ query.policy = "contain" =>
             /\ s = FullRect(query.source)
             /\ \/ /\ d.width = query.destination.width
                   /\ NearestInteger(d.height, s.height, d.width, s.width)
                \/ /\ d.height = query.destination.height
                   /\ NearestInteger(d.width, s.width, d.height, s.height)
        /\ query.policy = "cover" =>
             /\ d = FullRect(query.destination)
             /\ \/ /\ s.height = query.source.height
                   /\ NearestInteger(s.width, s.height, d.width, d.height)
                \/ /\ s.width = query.source.width
                   /\ NearestInteger(s.height, s.width, d.height, d.width)

-----------------------------------------------------------------------------
(* The axes of a plan: [from, to], lengths of a source and a destination.  *)
Axes ==
  LET s == answer.value.source
      d == answer.value.destination
  IN  { [from |-> s.width, to |-> d.width], [from |-> s.height, to |-> d.height] }

Center(i, axis) == ((2 * i + 1) * axis.from) \div (2 * axis.to)

(* Every sample of a planned axis lies inside the source rectangle, samples*)
(* keep their order, and as long as the source is not more than twice as   *)
(* long, each is the pixel under the center, the greater on a tie.         *)
SamplesSound ==
  answer.ok =>
    \A axis \in Axes : \A i \in 0 .. axis.to - 1 :
      LET index == NearestIndex(i, axis.from, axis.to)
      IN  /\ index < axis.from
          /\ i > 0 => NearestIndex(i - 1, axis.from, axis.to) <= index
          /\ axis.from <= 2 * axis.to => index = Center(i, axis)

(* Each sample is the pixel under the center of its destination pixel, for *)
(* every ratio (fit.cpp "equivalent to floor((destination_index + 0.5) *   *)
(* source_length / destination_length)"; ADR 0006).                        *)
SamplesAtCenters ==
  answer.ok =>
    \A axis \in Axes : \A i \in 0 .. axis.to - 1 :
      NearestIndex(i, axis.from, axis.to) = Center(i, axis)

-----------------------------------------------------------------------------

FocusAt(x, y) == [x |-> x, y |-> y, finite |-> TRUE]

MCFocalPoints ==
  {FocusAt(-1, 5), FocusAt(0, 4), FocusAt(1, 2), FocusAt(2, 3),
   [FocusAt(2, 2) EXCEPT !.finite = FALSE]}
=============================================================================
