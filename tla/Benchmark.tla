------------------------------ MODULE Benchmark ------------------------------
(***************************************************************************)
(* One case of the benchmark after another (measure in benchmark/main.cpp):*)
(* the search for the smallest temporary budget, a warmup, and one         *)
(* operation under the allocation tracker; the timed loops that follow     *)
(* leave no trace in this state.  What an operation does is external: it   *)
(* allocates and frees at will and succeeds with budgets from least on.    *)
(***************************************************************************)
EXTENDS AllocationTracker

CONSTANT DefaultTemporary   \* Limits{}.max_temporary_bytes

ASSUME DefaultAssumption == DefaultTemporary \in Nat

VARIABLES
  pc,
  floors,      \* measure_temporary_floor of the case
  least,       \* smallest budget its operation succeeds with
  low, high,   \* of temporary_floor
  sample       \* allocations of the result

caseVars == <<floors, least>>
searchVars == <<low, high>>
benchmarkVars == <<trackerVars, pc, caseVars, searchVars, sample>>

BenchmarkInit ==
  /\ TrackerInit
  /\ pc = "next"
  /\ floors = FALSE /\ least = 0
  /\ low = 0 /\ high = 0
  /\ sample = Snapshot

Succeeds(temporary) == least <= temporary

(* A failed operation throws; main reports it and ends.                    *)
Proceed(succeeds, to) == pc' = IF succeeds THEN to ELSE "stopped"

(* temporary_floor: 0 if not asked for; otherwise the operation has to     *)
(* succeed with the default budget before the search begins.               *)
StartCase ==
  /\ pc = "next"
  /\ floors' \in BOOLEAN
  /\ least' \in 0 .. DefaultTemporary + 1
  /\ low' = 0
  /\ high' = IF floors' THEN DefaultTemporary ELSE 0
  /\ Proceed(floors' => least' <= DefaultTemporary, "search")
  /\ UNCHANGED <<trackerVars, sample>>

(* Mutant: the search stops while two budgets are left.                    *)
SearchNearlyOver == low + 1 >= high

SearchOver == low >= high

(* One turn of the loop: an operation that fails for another reason than   *)
(* the budget throws.                                                      *)
Probe ==
  LET midpoint == low + ((high - low) \div 2)
  IN  /\ pc = "search" /\ ~SearchOver
      /\ IF Succeeds(midpoint)
         THEN high' = midpoint /\ UNCHANGED <<low, pc>>
         ELSE \/ low' = midpoint + 1 /\ UNCHANGED <<high, pc>>
              \/ pc' = "stopped" /\ UNCHANGED searchVars
      /\ UNCHANGED <<trackerVars, caseVars, sample>>

(* The floor is low.  The warmup runs with the default budget.             *)
Warmup ==
  /\ pc = "search" /\ SearchOver
  /\ Proceed(Succeeds(DefaultTemporary), "begin")
  /\ UNCHANGED <<trackerVars, caseVars, searchVars, sample>>

StartMeasurement ==
  /\ pc = "begin"
  /\ Begin
  /\ pc' = "operation"
  /\ UNCHANGED <<caseVars, searchVars, sample>>

(* The operation returned: snapshot, end, and only then is its outcome     *)
(* looked at.                                                              *)
FinishMeasurement ==
  /\ pc = "operation"
  /\ sample' = Snapshot
  /\ End
  /\ Proceed(Succeeds(DefaultTemporary), "timed")
  /\ UNCHANGED <<caseVars, searchVars>>

FinishCase ==
  /\ pc = "timed"
  /\ pc' = "next"
  /\ UNCHANGED <<trackerVars, caseVars, searchVars, sample>>

(* Operations, and the program around them, allocate and free at any time. *)
UseMemory ==
  /\ pc # "stopped"
  /\ Allocate \/ Deallocate
  /\ UNCHANGED <<pc, caseVars, searchVars, sample>>

BenchmarkNext ==
  \/ StartCase \/ Probe \/ Warmup
  \/ StartMeasurement \/ FinishMeasurement \/ FinishCase
  \/ UseMemory

BenchmarkSpec == BenchmarkInit /\ [][BenchmarkNext]_benchmarkVars

-----------------------------------------------------------------------------

(* While a measurement runs its counters are those of the blocks it        *)
(* allocated itself: blocks of an earlier measurement or of none, freed    *)
(* now, take nothing off, so the outstanding bytes never wrap and the peak *)
(* is the most its own blocks ever held at once; and the result keeps what *)
(* one operation did (benchmark/README "observe ordinary C++ new/new[]     *)
(* calls made by one operation").                                          *)
Totals == [calls |-> measured.calls, bytes |-> measured.bytes, peak |-> measured.peak]

SampleExact ==
  /\ active_generation # 0 =>
       /\ Snapshot = Totals
       /\ outstanding_bytes = HeldBy(measured.own, header)
  /\ pc = "timed" => sample = Totals

(* The search closes in on the least budget from both sides and ends on it *)
(* (benchmark/README "temporary_floor_bytes is the smallest inclusive      *)
(* max_temporary_bytes value that lets the operation succeed").            *)
FloorExact ==
  floors =>
    /\ pc = "search" => low <= least /\ least <= high
    /\ pc \in {"begin", "operation", "timed"} => low = least
=============================================================================
