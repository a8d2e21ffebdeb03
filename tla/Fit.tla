-------------------------------- MODULE Fit --------------------------------
(***************************************************************************)
(* fit (fit.cpp) and resize_quality_rgba (quality_filter.cpp): one call    *)
(* plans, admits the output, plans and allocates the coefficients of the   *)
(* triangle filter, creates the output, fills it with matte and samples    *)
(* the planned rectangle, a row at a time.  An output pixel is the set of  *)
(* source pixels it is made from; mixing their channels is left out.       *)
(***************************************************************************)
EXTENDS FitGeometry, QualityFilter

CONSTANTS
  Sources,       \* extents of the source view
  Destinations,  \* extents asked for
  FocalPoints,
  LimitSet

Filters == {"nearest", "triangle", "unrecognized"}

ASSUME FitAssumption ==
  /\ Sources \subseteq Extent /\ Destinations \subseteq Extent
  /\ FocalPoints \subseteq FocalPoint
  /\ LimitSet \subseteq Limits

VARIABLES
  pc,            \* the next step of the call
  request,       \* the arguments of the call
  plan,          \* the FitPlan
  coefficients,  \* bytes of the QualityFilterPlan that exists (0: none)
  taps,          \* its axes
  output,        \* the Image being made: a function on its pixels
  row,           \* the next row of the running loop
  result

vars == <<pc, request, plan, coefficients, taps, output, row, result>>

Requests ==
  [ source : Sources, destination : Destinations, policy : Policies,
    focus : FocalPoints, filter : Filters, limits : LimitSet ]

Pending == [code |-> "pending"]

NoPlan == [source |-> Rect(0, 0, 0, 0), destination |-> Rect(0, 0, 0, 0)]

NoTaps == [horizontal |-> << >>, vertical |-> << >>]

(* No Image exists.                                                        *)
NoOutput == << >>

(* What std::vector<Rgba8>(n) holds, and the caller's matte.               *)
Black == {<<-1, -1>>}

Matte == {}

Init ==
  /\ pc = "plan"
  /\ request \in Requests
  /\ plan = NoPlan
  /\ coefficients = 0
  /\ taps = NoTaps
  /\ output = NoOutput
  /\ row = 0
  /\ result = Pending

(* Return an error: plan and output are local objects of the call.         *)
Return(code) ==
  /\ pc' = "done"
  /\ result' = [code |-> code]
  /\ output' = NoOutput
  /\ coefficients' = 0
  /\ UNCHANGED <<request, plan, taps, row>>

-----------------------------------------------------------------------------

PlanStep ==
  /\ pc = "plan"
  /\ LET planned == PlanFit(request.source, request.destination,
                            request.policy, request.focus)
         layout  == CheckedDecodeLayout(request.destination, FALSE,
                                        request.limits)
     IN  IF ~planned.ok THEN Return(planned.error)
         ELSE IF ~layout.ok THEN Return(layout.error)
         ELSE IF request.filter = "unrecognized" THEN Return("invalid_argument")
         ELSE /\ pc' = IF request.filter = "triangle" THEN "coefficients"
                       ELSE "create"
              /\ plan' = planned.value
              /\ UNCHANGED <<request, coefficients, taps, output, row, result>>

(* make_quality_filter_plan: measured, allocated, populated.               *)
PlanCoefficients ==
  /\ pc = "coefficients"
  /\ LET measured   == MeasurePlan(plan.source, plan.destination,
                                   request.limits.max_temporary_bytes)
         horizontal == PopulateAxis(plan.source.width, plan.destination.width)
         vertical   == PopulateAxis(plan.source.height,
                                    plan.destination.height)
     IN  IF ~measured.ok THEN Return(measured.error)
         ELSE \/ Return("allocation_failure")
              \/ IF ~horizontal.ok THEN Return(horizontal.error)
                 ELSE IF ~vertical.ok THEN Return(vertical.error)
                 ELSE /\ pc' = "create"
                      /\ coefficients' = measured.value
                      /\ taps' = [horizontal |-> horizontal.value,
                                  vertical   |-> vertical.value]
                      /\ UNCHANGED <<request, plan, output, row, result>>

Pixels(e) == (0 .. e.width - 1) \X (0 .. e.height - 1)

(* Image::create                                                           *)
CreateOutput ==
  /\ pc = "create"
  /\ LET layout == CheckedDecodeLayout(request.destination, FALSE,
                                       request.limits)
     IN  IF ~layout.ok THEN Return(layout.error)
         ELSE \/ Return("allocation_failure")
              \/ /\ pc' = "matte"
                 /\ output' = [p \in Pixels(request.destination) |-> Black]
                 /\ UNCHANGED <<request, plan, coefficients, taps, row, result>>

(* Write pixels to a row, as a function of the column, and go to the next. *)
WriteRow(y, columns, pixel(_)) ==
  /\ output' = [p \in DOMAIN output |->
                  IF p[2] = y /\ p[1] \in columns THEN pixel(p[1])
                  ELSE output[p]]
  /\ row' = row + 1
  /\ UNCHANGED <<pc, request, plan, coefficients, taps, result>>

MatteRow ==
  /\ pc = "matte"
  /\ row < request.destination.height
  /\ WriteRow(row, 0 .. request.destination.width - 1, LAMBDA x : Matte)

MatteDone ==
  /\ pc = "matte"
  /\ row = request.destination.height
  /\ pc' = request.filter
  /\ row' = 0
  /\ UNCHANGED <<request, plan, coefficients, taps, output, result>>

-----------------------------------------------------------------------------

Columns(rect) == rect.x .. rect.x + rect.width - 1

NearestRow ==
  /\ pc = "nearest"
  /\ row < plan.destination.height
  /\ LET y == plan.source.y + NearestIndex(row, plan.source.height,
                                           plan.destination.height)
     IN  IF \/ y >= request.source.height
            \/ plan.destination.y + row >= request.destination.height
         THEN Return("row_out_of_range")
         ELSE WriteRow(
                plan.destination.y + row, Columns(plan.destination),
                LAMBDA x :
                  { <<plan.source.x + NearestIndex(x - plan.destination.x,
                                                   plan.source.width,
                                                   plan.destination.width),
                      y>> })

(* The check resize_quality_rgba makes before its first row.               *)
RectFits(rect, e) ==
  /\ rect.width # 0 /\ rect.height # 0
  /\ rect.x <= e.width /\ rect.y <= e.height
  /\ rect.width <= e.width - rect.x
  /\ rect.height <= e.height - rect.y

(* Mutant: the support is read from the view, not from the crop.           *)
TriangleRowOfView ==
  /\ pc = "triangle"
  /\ row < plan.destination.height
  /\ WriteRow(plan.destination.y + row, Columns(plan.destination),
              LAMBDA x :
                (DOMAIN taps.horizontal[x - plan.destination.x])
                  \X (DOMAIN taps.vertical[row]))

TriangleRow ==
  /\ pc = "triangle"
  /\ row < plan.destination.height
  /\ LET rows == {plan.source.y + k : k \in DOMAIN taps.vertical[row]}
     IN  IF \/ ~RectFits(plan.source, request.source)
            \/ ~RectFits(plan.destination, request.destination)
            \/ DOMAIN taps.horizontal # 0 .. plan.destination.width - 1
            \/ DOMAIN taps.vertical # 0 .. plan.destination.height - 1
         THEN Return("invalid_argument")
         ELSE IF \/ plan.destination.y + row >= request.destination.height
                 \/ \E y \in rows : y >= request.source.height
         THEN Return("row_out_of_range")
         ELSE WriteRow(
                plan.destination.y + row, Columns(plan.destination),
                LAMBDA x :
                  {plan.source.x + k :
                     k \in DOMAIN taps.horizontal[x - plan.destination.x]}
                  \X rows)

(* The output is returned, the coefficients are destroyed.                 *)
SampleDone ==
  /\ pc \in {"nearest", "triangle"}
  /\ row = plan.destination.height
  /\ pc' = "done"
  /\ result' = [code |-> "ok"]
  /\ coefficients' = 0
  /\ UNCHANGED <<request, plan, taps, output, row>>

Next ==
  \/ PlanStep \/ PlanCoefficients \/ CreateOutput
  \/ MatteRow \/ MatteDone \/ NearestRow \/ TriangleRow \/ SampleDone

Spec == Init /\ [][Next]_vars

-----------------------------------------------------------------------------

Succeeded == pc = "done" /\ result.code = "ok"

Covered(rect) ==
  Columns(rect) \X (rect.y .. rect.y + rect.height - 1)

(* A finished image is decided pixel by pixel: inside the planned          *)
(* rectangle each is made from source pixels of the planned crop and from  *)
(* no other, outside it each is the caller's matte, and none is what the   *)
(* allocation left there (ADR 0006 "Every destination pixel is             *)
(* initialized", ADR 0007 "The selected source crop is filtered directly   *)
(* into the planned destination rectangle; matte outside ... is exact and  *)
(* is not part of the filter support").                                    *)
FitComplete ==
  Succeeded =>
    /\ DOMAIN output = Pixels(request.destination)
    /\ \A p \in DOMAIN output :
         IF p \in Covered(plan.destination)
           THEN output[p] # {} /\ output[p] \subseteq Covered(plan.source)
           ELSE output[p] = Matte

(* The triangle filter leaves out no pixel of the crop, however strong the *)
(* reduction (ADR 0007 "minification integrates a broader footprint").     *)
NothingSkipped ==
  Succeeded /\ request.filter = "triangle" =>
    Covered(plan.source) \subseteq UNION {output[p] : p \in DOMAIN output}

(* Both axes of the coefficients together stay within max_temporary_bytes  *)
(* from their allocation to the end of the call, the output within         *)
(* max_output_bytes; a failing call leaves neither (ADR 0007 "compared     *)
(* with max_temporary_bytes before any vector allocation").                *)
StorageAdmitted ==
  /\ coefficients <= request.limits.max_temporary_bytes
  /\ output # NoOutput =>
       PixelBytes(request.destination) <= request.limits.max_output_bytes
  /\ pc = "done" =>
       /\ coefficients = 0
       /\ result.code # "ok" => output = NoOutput

(* The errors of the helpers that fit calls never reach its caller: a row  *)
(* is never out of range, and an argument is only called invalid when the  *)
(* caller's own is (fit.cpp, quality_filter.cpp invalid_storage).          *)
ErrorsAreTheCallers ==
  pc = "done" =>
    /\ result.code # "row_out_of_range"
    /\ result.code = "invalid_argument" =>
         \/ ~request.focus.finite
         \/ request.policy = "unrecognized"
         \/ request.filter = "unrecognized"

-----------------------------------------------------------------------------
(* Why these hold, row by row: the inductive invariant.                    *)

Rectangle == [x : Nat, y : Nat, width : Nat, height : Nat]

(* The planned rectangles lie in their extents, and the output is admitted.*)
Planned ==
  /\ plan.source \in Rectangle /\ plan.destination \in Rectangle
  /\ RectFits(plan.source, request.source)
  /\ RectFits(plan.destination, request.destination)
  /\ FitsLimits(request.destination, request.limits)
  /\ request.filter \in {"nearest", "triangle"}

(* Every span of an axis holds the indices of its triangle.                *)
Spans(axis, from, to) ==
  /\ DOMAIN axis = 0 .. to - 1
  /\ \A i \in 0 .. to - 1 : DOMAIN axis[i] = TapIndices(i, from, to)

Tapped ==
  /\ Spans(taps.horizontal, plan.source.width, plan.destination.width)
  /\ Spans(taps.vertical, plan.source.height, plan.destination.height)

(* The source pixels under the triangles of pixel p.                       *)
Footprint(p) ==
  {plan.source.x + k : k \in TapIndices(p[1] - plan.destination.x,
                                        plan.source.width,
                                        plan.destination.width)}
  \X {plan.source.y + k : k \in TapIndices(p[2] - plan.destination.y,
                                           plan.source.height,
                                           plan.destination.height)}

Sampled(p) ==
  IF request.filter = "triangle" THEN output[p] = Footprint(p)
  ELSE output[p] # {} /\ output[p] \subseteq Covered(plan.source)

MattePart ==
  /\ DOMAIN output = Pixels(request.destination)
  /\ row <= request.destination.height
  /\ \A p \in DOMAIN output : p[2] < row => output[p] = Matte

SamplePart ==
  /\ DOMAIN output = Pixels(request.destination)
  /\ row <= plan.destination.height
  /\ \A p \in DOMAIN output :
       IF p \in Covered(plan.destination) /\ p[2] < plan.destination.y + row
         THEN Sampled(p)
         ELSE output[p] = Matte

(* What the caller is told.                                                *)
OutcomeSound ==
  /\ pc # "done" => result = Pending
  /\ pc = "done" /\ result.code # "ok" => output = NoOutput
  /\ ErrorsAreTheCallers

CallTypes ==
  /\ request \in Requests
  /\ pc \in {"plan", "coefficients", "create", "matte", "nearest", "triangle",
             "done"}
  /\ row \in Nat
  /\ coefficients \in Nat
  /\ coefficients <= request.limits.max_temporary_bytes

IInv ==
  /\ CallTypes
  /\ OutcomeSound
  /\ pc \notin {"plan", "done"} \/ Succeeded => Planned
  /\ pc \in {"coefficients", "triangle"} => request.filter = "triangle"
  /\ pc = "nearest" => request.filter = "nearest"
  /\ pc \in {"create", "matte", "triangle"} /\ request.filter = "triangle"
       => Tapped
  /\ pc \in {"plan", "coefficients", "create"} => row = 0 /\ output = NoOutput
  /\ pc = "matte" => MattePart
  /\ pc \in {"nearest", "triangle"} => SamplePart
  /\ Succeeded => SamplePart /\ row = plan.destination.height
  /\ pc = "done" => coefficients = 0
=============================================================================
