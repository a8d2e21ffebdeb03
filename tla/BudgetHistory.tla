--------------------------- MODULE BudgetHistory ---------------------------
(***************************************************************************)
(* The life of one CodecAllocationBudget, with what its caller can observe *)
(* written down beside it.  The observation variables change nothing in    *)
(* the budget: they record what request returned and what it has handed    *)
(* out over the whole life, which the object itself does not keep.         *)
(***************************************************************************)
EXTENDS AllocationBudget

VARIABLES
  reply,     \* what the last request returned
  handedOut, \* bytes of every block ever returned, released or not
  blocks,    \* number of blocks ever returned
  first      \* the reason of the first refusal

historyVars == <<reply, handedOut, blocks, first>>

vars == <<budgetVars, historyVars>>

HistoryInit ==
  /\ Init
  /\ reply = "none"
  /\ handedOut = 0
  /\ blocks = 0
  /\ first = "none"

RequestGranted(n) ==
  /\ Grant(n)
  /\ reply' = "memory"
  /\ handedOut' = handedOut + Accounted(n)
  /\ blocks' = blocks + 1
  /\ UNCHANGED first

RequestRefused(n) ==
  /\ Refuse(n)
  /\ reply' = "null"
  /\ first' = IF first = "none" THEN failure' ELSE first
  /\ UNCHANGED <<handedOut, blocks>>

Freed(n) ==
  /\ Release(n)
  /\ UNCHANGED historyVars

Next ==
  \/ \E n \in RequestSizes : RequestGranted(n)
  \/ \E n \in RequestSizes : RequestRefused(n)
  \/ \E n \in 1 .. live : Freed(n)

Spec == HistoryInit /\ [][Next]_vars

-----------------------------------------------------------------------------

TypeOK ==
  /\ limit \in 0 .. CountMax
  /\ consumed \in 0 .. CountMax
  /\ failure \in BudgetFailure
  /\ live \in Nat
  /\ reply \in {"none", "memory", "null"}
  /\ handedOut \in Nat
  /\ blocks \in Nat
  /\ first \in BudgetFailure

(* The budget is cumulative (ADR 0004: releasing allocations "do not       *)
(* replenish the budget, so repeated allocation churn cannot" pass it):    *)
(* everything handed out over the whole life of the object, whatever was   *)
(* released in between, fits the limit.  It also is what keeps             *)
(* limit_ - consumed_bytes_ from wrapping around.                          *)
CumulativeWithinLimit ==
  /\ live <= handedOut
  /\ handedOut <= limit

(* A zero-byte request still costs a byte, so a codec cannot obtain an     *)
(* unbounded number of blocks from a bounded budget.                       *)
BlocksBounded == blocks <= limit

(* The reason of the first refusal is the one error_for reports: nothing   *)
(* the codec does after it, further refusals and releases included,        *)
(* replaces it, and none of it obtains memory.                             *)
FirstRefusalStands ==
  [][ first # "none" =>
        /\ failure' = first
        /\ reply' = "memory" => reply = "memory"
        /\ handedOut' = handedOut ]_vars

(* The inductive invariant: the object's own counter is the history's.     *)
IInv ==
  /\ TypeOK
  /\ consumed = handedOut
  /\ CumulativeWithinLimit
  /\ blocks <= handedOut
  /\ first = failure
=============================================================================
