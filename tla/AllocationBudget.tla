-------------------------- MODULE AllocationBudget --------------------------
(***************************************************************************)
(* CodecAllocationBudget (decode_limits.cpp): the allocator the PNG        *)
(* decoder hands to libpng.  A request is charged to a budget fixed when   *)
(* the object is built; the first refusal is remembered and refuses every  *)
(* later request; a release gives the memory back to the system and        *)
(* nothing back to the budget.                                             *)
(*                                                                         *)
(* The codec that calls it and the system allocator below it are the       *)
(* environment: which sizes are asked for, when memory is released and     *)
(* whether malloc returns null are free choices.                           *)
(***************************************************************************)
EXTENDS Integers

CONSTANTS
  CountMax,     \* largest std::uint64_t
  RequestSizes  \* the byte counts the codec may ask for

ASSUME BudgetAssumption ==
  /\ CountMax \in Nat
  /\ RequestSizes \subseteq 0 .. CountMax

VARIABLES
  limit,     \* limit_
  consumed,  \* consumed_bytes_
  failure,   \* failure_
  live       \* bytes the codec holds: granted and not yet released

budgetVars == <<limit, consumed, failure, live>>

BudgetFailure == {"none", "resource_limit", "allocation_failure"}

Init ==
  /\ limit \in 0 .. CountMax
  /\ consumed = 0
  /\ failure = "none"
  /\ live = 0

(* Mutant: an empty block costs nothing.                                   *)
AccountedAsAsked(n) == n

(* std::max(byte_count, 1): an empty block costs a byte.                   *)
Accounted(n) == IF n = 0 THEN 1 ELSE n

(* limit_ - consumed_bytes_ in unsigned arithmetic.                        *)
Remaining == (limit - consumed) % (CountMax + 1)

-----------------------------------------------------------------------------
(* request(n): the four ways it returns.                                   *)

(* A recorded failure refuses every request.                               *)
RefuseSticky(n) ==
  /\ failure # "none"
  /\ UNCHANGED budgetVars

(* The request does not fit what is left of the budget.                    *)
RefuseOverLimit(n) ==
  /\ failure = "none"
  /\ Accounted(n) > Remaining
  /\ failure' = "resource_limit"
  /\ UNCHANGED <<limit, consumed, live>>

(* The request fits and the system allocator returns null.                 *)
RefuseNoMemory(n) ==
  /\ failure = "none"
  /\ Accounted(n) <= Remaining
  /\ failure' = "allocation_failure"
  /\ UNCHANGED <<limit, consumed, live>>

(* Mutant: the block is charged as asked, not as allocated.                *)
GrantChargedAsAsked(n) ==
  /\ failure = "none"
  /\ Accounted(n) <= Remaining
  /\ consumed' = (consumed + n) % (CountMax + 1)
  /\ live' = live + Accounted(n)
  /\ UNCHANGED <<limit, failure>>

(* Mutant: a recorded failure does not refuse the next request.            *)
GrantAfterRefusal(n) ==
  /\ Accounted(n) <= Remaining
  /\ consumed' = (consumed + Accounted(n)) % (CountMax + 1)
  /\ live' = live + Accounted(n)
  /\ UNCHANGED <<limit, failure>>

Grant(n) ==
  /\ failure = "none"
  /\ Accounted(n) <= Remaining
  /\ consumed' = (consumed + Accounted(n)) % (CountMax + 1)
  /\ live' = live + Accounted(n)
  /\ UNCHANGED <<limit, failure>>

Refuse(n) == RefuseSticky(n) \/ RefuseOverLimit(n) \/ RefuseNoMemory(n)

(* Mutant: what is released may be spent again.                            *)
ReleaseReplenishing(n) ==
  /\ n \in 1 .. live
  /\ live' = live - n
  /\ consumed' = consumed - n
  /\ UNCHANGED <<limit, failure>>

(* release: the codec frees n of the bytes it holds.                       *)
Release(n) ==
  /\ n \in 1 .. live
  /\ live' = live - n
  /\ UNCHANGED <<limit, consumed, failure>>
=============================================================================
