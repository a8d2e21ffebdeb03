-------------------------- MODULE AllocationProofs --------------------------
(***************************************************************************)
(* What the codec allocation budget guarantees, for every word width,      *)
(* every limit and every set of request sizes; and what the benchmark's    *)
(* tracker and search report, for all blocks, sizes, generations and       *)
(* budgets.                                                                *)
(***************************************************************************)
EXTENDS BudgetHistory, Benchmark, FilterProofs

(* Unsigned arithmetic on values that are in range does not wrap: this is  *)
(* all the modulus of Remaining and Grant comes to under the invariant.    *)
LEMMA NoWrap ==
  ASSUME NEW x \in 0 .. CountMax
  PROVE  x % (CountMax + 1) = x
<1>1. CountMax \in Nat
  BY BudgetAssumption
<1>2. x \in Int /\ CountMax + 1 \in Int /\ 0 <= x /\ x < CountMax + 1
  BY <1>1
<1>3. QED
  BY <1>2

LEMMA AccountedPositive ==
  ASSUME NEW n \in RequestSizes
  PROVE  Accounted(n) \in Nat /\ Accounted(n) >= 1
BY BudgetAssumption DEF Accounted

(* Under the invariant the remaining budget is the true difference.        *)
LEMMA RemainingExact ==
  ASSUME IInv
  PROVE  Remaining = limit - consumed /\ Remaining \in Nat
<1>1. /\ limit \in 0 .. CountMax
      /\ consumed \in 0 .. CountMax
      /\ consumed <= limit
      /\ CountMax \in Nat
  BY BudgetAssumption DEF IInv, TypeOK, CumulativeWithinLimit
<1>2. limit - consumed \in 0 .. CountMax
  BY <1>1
<1>3. QED
  BY <1>2, NoWrap DEF Remaining

LEMMA InitIInv == HistoryInit => IInv
BY BudgetAssumption
   DEF HistoryInit, Init, IInv, TypeOK, BudgetFailure, CumulativeWithinLimit

LEMMA GrantedIInv ==
  ASSUME IInv, NEW n \in RequestSizes, RequestGranted(n)
  PROVE  IInv'
<1> DEFINE size == Accounted(n)
<1>1. size \in Nat /\ size >= 1
  BY AccountedPositive
<1>2. /\ limit \in 0 .. CountMax /\ consumed \in 0 .. CountMax
      /\ live \in Nat /\ handedOut \in Nat /\ blocks \in Nat
      /\ CountMax \in Nat
  BY BudgetAssumption DEF IInv, TypeOK
<1>3. /\ consumed = handedOut /\ live <= handedOut
      /\ blocks <= handedOut /\ first = failure
  BY DEF IInv, CumulativeWithinLimit
<1>4. consumed + size \in 0 .. CountMax /\ consumed + size <= limit
  <2>1. size <= limit - consumed
    BY RemainingExact DEF RequestGranted, Grant
  <2>2. QED
    BY <2>1, <1>1, <1>2
<1>5. consumed' = consumed + size
  BY <1>4, NoWrap DEF RequestGranted, Grant
<1>6. /\ live' = live + size /\ handedOut' = handedOut + size
      /\ blocks' = blocks + 1 /\ limit' = limit /\ failure' = failure
      /\ first' = first /\ reply' = "memory"
  BY DEF RequestGranted, Grant
<1> HIDE DEF size
<1>7. TypeOK'
  BY <1>1, <1>2, <1>4, <1>5, <1>6 DEF IInv, TypeOK
<1>8. CumulativeWithinLimit'
  BY <1>1, <1>2, <1>3, <1>4, <1>6 DEF CumulativeWithinLimit
<1>9. QED
  BY <1>1, <1>2, <1>3, <1>5, <1>6, <1>7, <1>8 DEF IInv

LEMMA RefusedIInv ==
  ASSUME IInv, NEW n \in RequestSizes, RequestRefused(n)
  PROVE  IInv'
<1>1. CASE RefuseSticky(n)
  BY <1>1 DEF IInv, TypeOK, RequestRefused, RefuseSticky, budgetVars,
              BudgetFailure, CumulativeWithinLimit
<1>2. CASE RefuseOverLimit(n)
  BY <1>2 DEF IInv, TypeOK, RequestRefused, RefuseOverLimit,
              BudgetFailure, CumulativeWithinLimit
<1>3. CASE RefuseNoMemory(n)
  BY <1>3 DEF IInv, TypeOK, RequestRefused, RefuseNoMemory,
              BudgetFailure, CumulativeWithinLimit
<1>4. QED
  BY <1>1, <1>2, <1>3 DEF RequestRefused, Refuse

LEMMA FreedIInv ==
  ASSUME IInv, NEW n \in 1 .. live, Freed(n)
  PROVE  IInv'
BY DEF IInv, TypeOK, Freed, Release, historyVars, CumulativeWithinLimit

LEMMA NextIInv == IInv /\ [Next]_vars => IInv'
<1> SUFFICES ASSUME IInv, [Next]_vars PROVE IInv'
  OBVIOUS
<1>1. CASE UNCHANGED vars
  BY <1>1 DEF vars, budgetVars, historyVars, IInv, TypeOK,
              CumulativeWithinLimit
<1>2. ASSUME NEW n \in RequestSizes, RequestGranted(n) PROVE IInv'
  BY <1>2, GrantedIInv
<1>3. ASSUME NEW n \in RequestSizes, RequestRefused(n) PROVE IInv'
  BY <1>3, RefusedIInv
<1>4. ASSUME NEW n \in 1 .. live, Freed(n) PROVE IInv'
  BY <1>4, FreedIInv
<1>5. QED
  BY <1>1, <1>2, <1>3, <1>4 DEF Next

(* The history invariant holds of every life of the budget.                *)
THEOREM BudgetInvariant == Spec => []IInv
BY InitIInv, NextIInv, PTL DEF Spec

(* Everything ever handed out fits the limit, whatever was released in     *)
(* between: churn cannot evade the budget (ADR 0004), and the unsigned     *)
(* subtraction in request never wraps.                                     *)
THEOREM CumulativeBudget == Spec => []CumulativeWithinLimit
<1>1. IInv => CumulativeWithinLimit
  BY DEF IInv
<1>2. QED
  BY <1>1, BudgetInvariant, PTL

(* A budget of limit bytes yields at most limit blocks, zero-byte requests *)
(* included.                                                               *)
THEOREM FiniteBlocks == Spec => []BlocksBounded
<1>1. IInv => BlocksBounded
  BY DEF IInv, TypeOK, CumulativeWithinLimit, BlocksBounded
<1>2. QED
  BY <1>1, BudgetInvariant, PTL

(* After the first refusal no request succeeds and the reason reported     *)
(* stays the first one.                                                    *)
THEOREM RefusalIsFinal == Spec => FirstRefusalStands
<1> DEFINE Stands == first # "none" =>
             /\ failure' = first
             /\ reply' = "memory" => reply = "memory"
             /\ handedOut' = handedOut
<1>1. IInv /\ [Next]_vars => [Stands]_vars
  <2> SUFFICES ASSUME IInv, [Next]_vars, first # "none"
               PROVE  Stands \/ UNCHANGED vars
    OBVIOUS
  <2>1. failure = first /\ failure # "none"
    BY DEF IInv
  <2>2. ASSUME NEW n \in RequestSizes, RequestGranted(n) PROVE FALSE
    BY <2>1, <2>2 DEF RequestGranted, Grant
  <2>3. ASSUME NEW n \in RequestSizes, RequestRefused(n) PROVE Stands
    BY <2>1, <2>3 DEF RequestRefused, Refuse, RefuseSticky, RefuseOverLimit,
                      RefuseNoMemory, budgetVars
  <2>4. ASSUME NEW n \in 1 .. live, Freed(n) PROVE Stands
    BY <2>1, <2>4 DEF Freed, Release, historyVars
  <2>5. QED
    BY <2>2, <2>3, <2>4 DEF Next
<1>2. QED
  BY <1>1, BudgetInvariant, PTL DEF Spec, FirstRefusalStands
-----------------------------------------------------------------------------
(* The benchmark's allocation tracker and its search.                      *)

SizesOf(header_) == [b \in DOMAIN header_ |-> header_[b].size]

(* What a set of blocks holds is a sum over it.                            *)
LEMMA HeldIsSum ==
  ASSUME NEW S, IsFiniteSet(S), NEW f, S \subseteq DOMAIN f
  PROVE  HeldBy(S, f) = SetSum(SizesOf(f), S)
<1> DEFINE T == SizesOf(f)
           P(k) == k = [s \in SUBSET S |->
                     IF s = {} THEN 0
                     ELSE f[Chosen(s)].size + k[s \ {Chosen(s)}]]
           g == CHOOSE k : P(k)
<1>1. HeldBy(S, f) = g[S]
  BY DEF HeldBy, MapThenSumSet, MapThenFoldSet, Chosen
<1>2. ASSUME NEW k PROVE P(k) <=> SetSums(T, S, k)
  <2>1. ASSUME NEW s \in SUBSET S, s # {}
        PROVE  T[Chosen(s)] = f[Chosen(s)].size
    <3>1. Chosen(s) \in DOMAIN f
      BY <2>1 DEF Chosen
    <3>2. QED
      BY <3>1 DEF SizesOf
  <2> HIDE DEF T
  <2>2. [s \in SUBSET S |->
           IF s = {} THEN 0 ELSE f[Chosen(s)].size + k[s \ {Chosen(s)}]] =
        [s \in SUBSET S |->
           IF s = {} THEN 0 ELSE T[Chosen(s)] + k[s \ {Chosen(s)}]]
    BY <2>1
  <2>3. QED
    BY <2>2 DEF SetSums
<1>3. \E k : SetSums(T, S, k)
  <2> HIDE DEF T
  <2>1. QED
    BY SetSumsExist
<1> HIDE DEF P, T
<1>4. SetSums(T, S, g)
  BY <1>2, <1>3
<1> HIDE DEF g
<1>5. g[S] = SetSum(T, S)
  BY <1>4, SetSumUnique
<1>6. QED
  BY <1>1, <1>5 DEF T

(* Every block was asked for at least a byte.                              *)
Sized(header_) == \A b \in DOMAIN header_ : header_[b].size \in Nat \ {0}

(* Two states of the headers that agree on a set of blocks.                *)
Agree(S, f, g) ==
  /\ S \subseteq DOMAIN f /\ S \subseteq DOMAIN g
  /\ \A b \in S : f[b].size = g[b].size

LEMMA HeldNatural ==
  ASSUME NEW S, IsFiniteSet(S), NEW f, S \subseteq DOMAIN f, Sized(f)
  PROVE  HeldBy(S, f) \in Nat
<1>1. \A b \in S : SizesOf(f)[b] \in Nat
  BY DEF Sized, SizesOf
<1>2. QED
  BY <1>1, HeldIsSum, SetSumNatural

LEMMA HeldAlike ==
  ASSUME NEW S, IsFiniteSet(S), NEW f, NEW g, Agree(S, f, g)
  PROVE  HeldBy(S, f) = HeldBy(S, g)
<1>1. \A b \in S : SizesOf(f)[b] = SizesOf(g)[b]
  BY DEF Agree, SizesOf
<1>2. HeldBy(S, f) = SetSum(SizesOf(f), S)
  BY HeldIsSum DEF Agree
<1>3. HeldBy(S, g) = SetSum(SizesOf(g), S)
  BY HeldIsSum DEF Agree
<1>4. QED
  BY <1>1, <1>2, <1>3, SetSumCongruent

(* A block among others holds its part.                                    *)
LEMMA HeldWith ==
  ASSUME NEW S, IsFiniteSet(S), NEW f, S \subseteq DOMAIN f, Sized(f),
         NEW b \in S
  PROVE  /\ HeldBy(S, f) = f[b].size + HeldBy(S \ {b}, f)
         /\ IsFiniteSet(S \ {b})
<1>1. \A a \in S : SizesOf(f)[a] \in Nat
  BY DEF Sized, SizesOf
<1>2. SetSum(SizesOf(f), S) = SizesOf(f)[b] + SetSum(SizesOf(f), S \ {b})
  BY <1>1, SetSumInsert
<1>3. SizesOf(f)[b] = f[b].size
  BY DEF SizesOf
<1>4. IsFiniteSet(S \ {b}) /\ S \ {b} \subseteq DOMAIN f
  BY FS_RemoveElement
<1>5. HeldBy(S, f) = SetSum(SizesOf(f), S)
  BY HeldIsSum
<1>6. HeldBy(S \ {b}, f) = SetSum(SizesOf(f), S \ {b})
  BY <1>4, HeldIsSum
<1>7. QED
  BY <1>2, <1>3, <1>4, <1>5, <1>6

-----------------------------------------------------------------------------
(* The invariant of a measurement.  Its own blocks are those whose header  *)
(* bears its generation; that calls times the largest size fit the counter *)
(* is what keeps both sums from wrapping, and that the peak is at least    *)
(* what is held now is what lets a deallocation leave it alone.            *)
Own == {b \in DOMAIN header : header[b].generation = active_generation}

Measuring ==
  /\ measured.own = Own
  /\ IsFiniteSet(Own)
  /\ Snapshot = Totals
  /\ outstanding_bytes = HeldBy(Own, header)
  /\ outstanding_bytes <= peak_outstanding_bytes
  /\ outstanding_bytes <= allocated_bytes
  /\ allocation_calls \in 0 .. MaxCalls
  /\ allocated_bytes \in 0 .. CounterMax
  /\ peak_outstanding_bytes \in Nat
  /\ MaxCalls * allocated_bytes <= allocation_calls * CounterMax

TrackerInv ==
  /\ Sized(header)
  /\ active_generation # 0 => Measuring

CaseInv ==
  /\ pc \in {"next", "search", "begin", "operation", "timed", "stopped"}
  /\ active_generation # 0 <=> pc = "operation"
  /\ pc = "timed" => sample = Totals

SearchInv ==
  /\ floors \in BOOLEAN /\ least \in Nat /\ low \in Nat /\ high \in Nat
  /\ FloorExact

BenchmarkInv == TrackerInv /\ CaseInv /\ SearchInv

(* Before a measurement has allocated anything its sums are zero; no block *)
(* bears the generation it takes.                                          *)
LEMMA BeginKeeps ==
  ASSUME TrackerInv, Begin
  PROVE  TrackerInv'
<1>1. /\ header' = header /\ active_generation' = Generation
      /\ allocation_calls' = 0 /\ allocated_bytes' = 0
      /\ outstanding_bytes' = 0 /\ peak_outstanding_bytes' = 0
      /\ measured' = Nothing
  BY DEF Begin
<1>2. Own' = {}
  BY <1>1 DEF Begin, Own
<1>3. HeldBy({}, header) = 0 /\ IsFiniteSet({})
  <2>1. IsFiniteSet({})
    BY FS_EmptySet
  <2>2. SetSum(SizesOf(header), {}) = 0
    BY <2>1, SetSumChosen
  <2>3. QED
    BY <2>1, <2>2, HeldIsSum
<1>4. Snapshot' = Totals'
  BY <1>1 DEF Snapshot, Totals, Nothing
<1>5. MaxCalls \in Nat /\ CounterMax \in Nat
  BY TrackerAssumption
<1>6. (HeldBy(Own, header))' = 0
  <2>1. (HeldBy(Own, header))' = HeldBy(Own', header')
    OBVIOUS
  <2>2. QED
    BY <1>1, <1>2, <1>3, <2>1
<1>7. Measuring'
  BY <1>1, <1>2, <1>3, <1>4, <1>5, <1>6 DEF Measuring, Nothing
<1>8. Sized(header')
  BY <1>1 DEF TrackerInv
<1>9. QED
  BY <1>7, <1>8 DEF TrackerInv

(* An allocation of a measurement is one more block of its own.            *)
LEMMA AllocateKeeps ==
  ASSUME TrackerInv, Allocate
  PROVE  /\ TrackerInv' /\ active_generation' = active_generation
         /\ active_generation = 0 => measured' = measured
<1>1. CASE UNCHANGED trackerVars
  BY <1>1
     DEF trackerVars, counters, TrackerInv, Measuring, Own, Snapshot, Totals
<1>2. ASSUME NEW size \in Sizes, NEW b \in Blocks \ DOMAIN header,
             NEW requested, requested = IF size = 0 THEN 1 ELSE size,
             active_generation # 0 => allocation_calls < MaxCalls,
             header' = [a \in (DOMAIN header) \cup {b} |->
                          IF a = b
                          THEN [ size       |-> requested,
                                 generation |-> active_generation ]
                          ELSE header[a]],
             IF active_generation = 0 THEN UNCHANGED <<counters, measured>>
             ELSE /\ Count(requested)
                  /\ Observe(measured.own \cup {b}, 1, requested),
             UNCHANGED <<active_generation, next_generation>>
      PROVE  /\ TrackerInv' /\ active_generation' = active_generation
             /\ active_generation = 0 => measured' = measured
  <2>1. /\ requested \in Nat \ {0} /\ MaxCalls * requested <= CounterMax
        /\ MaxCalls \in Nat /\ CounterMax \in Nat
    <3>1. size \in Nat /\ MaxCalls * Larger(size, 1) <= CounterMax
      BY TrackerAssumption
    <3>2. requested = Larger(size, 1)
      BY <1>2, <3>1 DEF Larger
    <3>3. QED
      BY <1>2, <3>1, <3>2, TrackerAssumption
  <2>2. /\ DOMAIN header' = (DOMAIN header) \cup {b} /\ b \notin DOMAIN header
        /\ header'[b].size = requested
        /\ header'[b].generation = active_generation
        /\ \A a \in DOMAIN header : header'[a] = header[a]
    BY <1>2
  <2>3. Sized(header')
    <3>1. ASSUME NEW a \in DOMAIN header' PROVE header'[a].size \in Nat \ {0}
      BY <2>1, <2>2 DEF TrackerInv, Sized
    <3>2. QED
      BY <3>1 DEF Sized
  <2>4. CASE active_generation = 0
    BY <1>2, <2>3, <2>4 DEF TrackerInv
  <2>5. CASE active_generation # 0
    <3> DEFINE held == HeldBy(Own, header)
               next == HeldBy(Own \cup {b}, header')
    <3>1. Measuring
      BY <2>5 DEF TrackerInv
    <3>2. Own' = Own \cup {b} /\ b \notin Own /\ Own \subseteq DOMAIN header
      BY <1>2, <2>2 DEF Own
    <3>3. IsFiniteSet(Own \cup {b}) /\ IsFiniteSet(Own)
      BY <3>1, FS_AddElement DEF Measuring
    <3>4. next = requested + held
      <4>1. Own \cup {b} \subseteq DOMAIN header' /\ (Own \cup {b}) \ {b} = Own
        BY <2>2, <3>2
      <4>2. next = header'[b].size + HeldBy(Own, header')
        BY <2>3, <3>3, <4>1, HeldWith
      <4>3. Agree(Own, header, header')
        BY <2>2, <3>2 DEF Agree
      <4>4. HeldBy(Own, header) = HeldBy(Own, header')
        BY <3>3, <4>3, HeldAlike
      <4>5. QED
        BY <2>2, <4>2, <4>4
    <3>5. held \in Nat
      BY <3>2, <3>3, HeldNatural DEF TrackerInv
    <3> HIDE DEF held, next
    <3>6. /\ outstanding_bytes = held /\ held <= allocated_bytes
          /\ held <= peak_outstanding_bytes /\ peak_outstanding_bytes \in Nat
          /\ allocated_bytes \in 0 .. CounterMax
          /\ allocation_calls \in Nat /\ allocation_calls < MaxCalls
          /\ MaxCalls * allocated_bytes <= allocation_calls * CounterMax
          /\ measured.own = Own
          /\ allocation_calls = measured.calls
          /\ allocated_bytes = measured.bytes
          /\ peak_outstanding_bytes = measured.peak
      BY <1>2, <2>5, <3>1 DEF Measuring, Snapshot, Totals, held
    <3>7. /\ allocated_bytes + requested <= CounterMax
          /\ MaxCalls * (allocated_bytes + requested) <=
               (allocation_calls + 1) * CounterMax
      <4> DEFINE total == allocated_bytes + requested
      <4>1. total \in Nat
        BY <2>1, <3>6
      <4>2. MaxCalls * total <= (allocation_calls + 1) * CounterMax
        <5>1. MaxCalls * total = MaxCalls * allocated_bytes + MaxCalls * requested
          BY <2>1, <3>6
        <5>2. (allocation_calls + 1) * CounterMax =
                allocation_calls * CounterMax + CounterMax
          BY <2>1, <3>6
        <5>3. /\ MaxCalls * allocated_bytes \in Nat
              /\ MaxCalls * requested \in Nat
              /\ allocation_calls * CounterMax \in Nat
          BY <2>1, <3>6
        <5> HIDE DEF total
        <5>4. QED
          BY <2>1, <3>6, <5>1, <5>2, <5>3
      <4>3. (allocation_calls + 1) * CounterMax <= MaxCalls * CounterMax
        <5>1. allocation_calls + 1 \in Nat /\ allocation_calls + 1 <= MaxCalls
          BY <2>1, <3>6
        <5>2. QED
          BY <2>1, <5>1, ProductMonotone
      <4> HIDE DEF total
      <4>4. total <= CounterMax
        <5>1. SUFFICES ASSUME total - CounterMax - 1 \in Nat PROVE FALSE
          BY <2>1, <4>1
        <5>2. MaxCalls * (total - CounterMax - 1) \in Nat
          BY <2>1, <5>1
        <5>3. MaxCalls * (total - CounterMax - 1) =
                MaxCalls * total - MaxCalls * CounterMax - MaxCalls
          BY <2>1, <4>1
        <5>4. /\ MaxCalls * total \in Nat /\ MaxCalls * CounterMax \in Nat
              /\ (allocation_calls + 1) * CounterMax \in Nat
          BY <2>1, <3>6, <4>1
        <5>5. MaxCalls > 0
          BY <2>1, <3>6
        <5>6. QED
          BY <2>1, <4>2, <4>3, <5>2, <5>3, <5>4, <5>5
      <4>5. QED
        BY <4>2, <4>4 DEF total
    <3>8. /\ (outstanding_bytes + requested) % (CounterMax + 1) = next
          /\ (allocated_bytes + requested) % (CounterMax + 1) =
               allocated_bytes + requested
          /\ next \in Nat /\ next <= allocated_bytes + requested
      <4>1. /\ next = outstanding_bytes + requested
            /\ next \in Nat /\ next <= CounterMax
            /\ next <= allocated_bytes + requested
            /\ allocated_bytes + requested \in Nat
        BY <2>1, <3>4, <3>5, <3>6, <3>7
      <4>2. \A n \in Nat : n <= CounterMax => n % (CounterMax + 1) = n
        BY <2>1
      <4>3. QED
        BY <3>7, <4>1, <4>2
    <3>9. /\ allocation_calls' = allocation_calls + 1
          /\ allocated_bytes' = allocated_bytes + requested
          /\ outstanding_bytes' = next
          /\ peak_outstanding_bytes' = Larger(peak_outstanding_bytes, next)
          /\ measured' = [ calls |-> measured.calls + 1,
                           bytes |-> measured.bytes + requested,
                           peak  |-> Larger(measured.peak, next),
                           own   |-> Own \cup {b} ]
      BY <1>2, <2>5, <3>6, <3>8 DEF Count, Observe, next
    <3>10. (HeldBy(Own, header))' = next
      <4>1. (HeldBy(Own, header))' = HeldBy(Own', header')
        OBVIOUS
      <4>2. QED
        BY <3>2, <4>1 DEF next
    <3>11. Snapshot' = Totals'
      BY <3>6, <3>9 DEF Snapshot, Totals
    <3>12. /\ Larger(peak_outstanding_bytes, next) \in Nat
           /\ next <= Larger(peak_outstanding_bytes, next)
      BY <3>6, <3>8 DEF Larger
    <3>13. /\ allocation_calls' \in 0 .. MaxCalls
           /\ allocated_bytes' \in 0 .. CounterMax
      BY <2>1, <3>6, <3>7, <3>9
    <3>14. Measuring'
      BY <3>2, <3>3, <3>7, <3>8, <3>9, <3>10, <3>11, <3>12, <3>13 DEF Measuring
    <3>15. QED
      BY <1>2, <2>3, <2>5, <3>14 DEF TrackerInv
  <2>6. QED
    BY <2>4, <2>5
<1>3. CASE ~(UNCHANGED trackerVars)
  <2>1. PICK size \in Sizes, b \in Blocks \ DOMAIN header :
          LET requested == IF size = 0 THEN 1 ELSE size
          IN  /\ active_generation # 0 => allocation_calls < MaxCalls
              /\ header' = [a \in (DOMAIN header) \cup {b} |->
                              IF a = b
                              THEN [ size       |-> requested,
                                     generation |-> active_generation ]
                              ELSE header[a]]
              /\ IF active_generation = 0 THEN UNCHANGED <<counters, measured>>
                 ELSE /\ Count(requested)
                      /\ Observe(measured.own \cup {b}, 1, requested)
              /\ UNCHANGED <<active_generation, next_generation>>
    BY <1>3 DEF Allocate, AllocateThrows
  <2>2. QED
    BY <2>1, <1>2
<1>4. QED
  BY <1>1, <1>3

(* A block that is freed takes its size off the bytes of the measurement   *)
(* it was allocated in, and off no other.                                  *)
LEMMA DeallocateKeeps ==
  ASSUME TrackerInv, Deallocate
  PROVE  /\ TrackerInv' /\ active_generation' = active_generation
         /\ active_generation = 0 => measured' = measured
<1>1. PICK b \in DOMAIN header :
        /\ outstanding_bytes' =
             IF Counted(b)
             THEN (outstanding_bytes + CounterMax + 1 - header[b].size)
                    % (CounterMax + 1)
             ELSE outstanding_bytes
        /\ header' = [a \in (DOMAIN header) \ {b} |-> header[a]]
        /\ IF active_generation = 0 THEN UNCHANGED measured
           ELSE Observe(measured.own \ {b}, 0, 0)
        /\ UNCHANGED <<active_generation, next_generation, allocation_calls,
                       allocated_bytes, peak_outstanding_bytes>>
  BY DEF Deallocate
<1>2. /\ DOMAIN header' = (DOMAIN header) \ {b}
      /\ \A a \in (DOMAIN header) \ {b} : header'[a] = header[a]
  BY <1>1
<1>3. Sized(header')
  BY <1>2 DEF TrackerInv, Sized
<1>4. CASE active_generation = 0
  BY <1>1, <1>3, <1>4 DEF TrackerInv
<1>5. CASE active_generation # 0
  <2> DEFINE held == HeldBy(Own, header)
             rest == HeldBy(Own \ {b}, header')
             part == header[b].size
  <2>1. Measuring
    BY <1>5 DEF TrackerInv
  <2>2. /\ Own' = Own \ {b} /\ Own \subseteq DOMAIN header
        /\ Counted(b) <=> b \in Own
    BY <1>1, <1>2, <1>5 DEF Own, Counted
  <2>3. IsFiniteSet(Own) /\ IsFiniteSet(Own \ {b})
    BY <2>1, FS_RemoveElement DEF Measuring
  <2>4. rest = HeldBy(Own \ {b}, header)
    <3>1. Agree(Own \ {b}, header', header)
      BY <1>2, <2>2 DEF Agree
    <3>2. QED
      BY <2>3, <3>1, HeldAlike
  <2>5. rest \in Nat /\ held \in Nat /\ part \in Nat
    <3>1. Own \ {b} \subseteq DOMAIN header
      BY <2>2
    <3>2. Sized(header)
      BY DEF TrackerInv
    <3>3. HeldBy(Own \ {b}, header) \in Nat /\ held \in Nat
      BY <2>2, <2>3, <3>1, <3>2, HeldNatural
    <3>4. part \in Nat
      BY <3>2 DEF Sized
    <3>5. QED
      BY <2>4, <3>3, <3>4
  <2>6. b \in Own => held = part + rest
    BY <2>2, <2>3, <2>4, HeldWith DEF TrackerInv
  <2>7. b \notin Own => held = rest
    <3>1. b \notin Own => Own \ {b} = Own
      OBVIOUS
    <3>2. QED
      BY <2>4, <3>1
  <2> HIDE DEF held, rest, part
  <2>8. /\ outstanding_bytes = held /\ held <= allocated_bytes
        /\ held <= peak_outstanding_bytes /\ peak_outstanding_bytes \in Nat
        /\ allocated_bytes \in 0 .. CounterMax
        /\ measured.own = Own
        /\ allocation_calls = measured.calls /\ allocation_calls \in Nat
        /\ allocated_bytes = measured.bytes
        /\ peak_outstanding_bytes = measured.peak
    BY <2>1, TrackerAssumption DEF Measuring, Snapshot, Totals, held
  <2>9. CounterMax \in Nat
    BY TrackerAssumption
  <2>10. outstanding_bytes' = rest
    <3>1. CASE b \in Own
      <4>1. outstanding_bytes' =
              (outstanding_bytes + CounterMax + 1 - part) % (CounterMax + 1)
        BY <1>1, <2>2, <3>1 DEF part
      <4>2. outstanding_bytes + CounterMax + 1 - part = rest + (CounterMax + 1)
        BY <2>5, <2>6, <2>8, <2>9, <3>1
      <4>3. rest \in Nat /\ rest < CounterMax + 1
        BY <2>5, <2>6, <2>8, <2>9, <3>1
      <4>4. (rest + (CounterMax + 1)) % (CounterMax + 1) = rest
        BY <2>9, <4>3
      <4>5. QED
        BY <4>1, <4>2, <4>4
    <3>2. CASE b \notin Own
      BY <1>1, <2>2, <2>7, <2>8, <3>2
    <3>3. QED
      BY <3>1, <3>2
  <2>11. rest <= held
    BY <2>5, <2>6, <2>7
  <2>12. measured' = [ calls |-> measured.calls + 0,
                       bytes |-> measured.bytes + 0,
                       peak  |-> Larger(measured.peak, rest),
                       own   |-> Own \ {b} ]
    BY <1>1, <1>5, <2>8 DEF Observe, rest
  <2>13. Larger(measured.peak, rest) = measured.peak
    BY <2>5, <2>8, <2>11 DEF Larger
  <2>14. (HeldBy(Own, header))' = rest
    <3>1. (HeldBy(Own, header))' = HeldBy(Own', header')
      OBVIOUS
    <3>2. QED
      BY <2>2, <3>1 DEF rest
  <2>15. /\ allocation_calls' = allocation_calls
         /\ allocated_bytes' = allocated_bytes
         /\ peak_outstanding_bytes' = peak_outstanding_bytes
    BY <1>1
  <2>16. Snapshot' = Totals'
    BY <2>8, <2>12, <2>13, <2>15 DEF Snapshot, Totals
  <2>17. /\ rest <= peak_outstanding_bytes' /\ rest <= allocated_bytes'
    BY <2>5, <2>8, <2>11, <2>15
  <2>18. Measuring'
    BY <2>1, <2>2, <2>3, <2>10, <2>12, <2>14, <2>15, <2>16, <2>17 DEF Measuring
  <2>19. QED
    BY <1>1, <1>3, <1>5, <2>18 DEF TrackerInv
<1>6. QED
  BY <1>4, <1>5

(* Between measurements nothing is counted, and the search closes in on    *)
(* the least budget.                                                       *)
THEOREM BenchmarkInvariant == BenchmarkSpec => []BenchmarkInv
<1>1. BenchmarkInit => BenchmarkInv
  <2>1. SUFFICES ASSUME BenchmarkInit PROVE BenchmarkInv
    OBVIOUS
  <2>2. /\ active_generation = 0 /\ pc = "next" /\ floors = FALSE
        /\ least = 0 /\ low = 0 /\ high = 0
        /\ DOMAIN header = {}
    BY <2>1 DEF BenchmarkInit, TrackerInit
  <2>3. TrackerInv
    BY <2>2 DEF TrackerInv, Sized
  <2>4. CaseInv /\ SearchInv
    BY <2>2 DEF CaseInv, SearchInv, FloorExact
  <2>5. QED
    BY <2>3, <2>4 DEF BenchmarkInv
<1>2. BenchmarkInv /\ [BenchmarkNext]_benchmarkVars => BenchmarkInv'
  <2>1. SUFFICES ASSUME BenchmarkInv, [BenchmarkNext]_benchmarkVars
                 PROVE  BenchmarkInv'
    OBVIOUS
  <2>2. TrackerInv /\ CaseInv /\ SearchInv
    BY <2>1 DEF BenchmarkInv
  <2>3. ASSUME UNCHANGED trackerVars
        PROVE  /\ TrackerInv' /\ active_generation' = active_generation
               /\ Totals' = Totals
    BY <2>2, <2>3
       DEF trackerVars, counters, TrackerInv, Measuring, Own, Snapshot, Totals
  <2>4. CASE UNCHANGED benchmarkVars
    <3>1. UNCHANGED <<trackerVars, pc, floors, least, low, high, sample>>
      BY <2>4 DEF benchmarkVars, caseVars, searchVars
    <3>2. TrackerInv' /\ CaseInv'
      BY <2>2, <2>3, <3>1 DEF CaseInv
    <3>3. SearchInv'
      BY <2>2, <3>1 DEF SearchInv, FloorExact
    <3>4. QED
      BY <3>2, <3>3 DEF BenchmarkInv
  <2>5. CASE StartCase
    <3>1. TrackerInv' /\ active_generation' = active_generation
      BY <2>3, <2>5 DEF StartCase
    <3>2. CaseInv'
      BY <2>2, <2>5, <3>1 DEF StartCase, Proceed, CaseInv
    <3>3. /\ floors' \in BOOLEAN /\ least' \in Nat /\ low' = 0 /\ high' \in Nat
      BY <2>5, DefaultAssumption DEF StartCase
    <3>4. FloorExact'
      BY <2>5, <3>3 DEF StartCase, Proceed, FloorExact
    <3>5. QED
      BY <3>1, <3>2, <3>3, <3>4 DEF BenchmarkInv, SearchInv
  <2>6. CASE Probe
    <3> DEFINE midpoint == low + ((high - low) \div 2)
    <3>1. TrackerInv' /\ active_generation' = active_generation
      BY <2>3, <2>6 DEF Probe
    <3>2. CaseInv'
      BY <2>2, <2>6, <3>1 DEF Probe, CaseInv
    <3>3. /\ low \in Nat /\ high \in Nat /\ least \in Nat /\ low < high
          /\ pc = "search"
      BY <2>2, <2>6 DEF Probe, SearchInv, SearchOver
    <3>4. midpoint \in Nat /\ low <= midpoint /\ midpoint < high
      BY <3>3
    <3>5. /\ UNCHANGED <<floors, least>>
          /\ IF least <= midpoint
             THEN high' = midpoint /\ UNCHANGED <<low, pc>>
             ELSE \/ low' = midpoint + 1 /\ UNCHANGED <<high, pc>>
                  \/ pc' = "stopped" /\ UNCHANGED <<low, high>>
      BY <2>6 DEF Probe, Succeeds, caseVars, searchVars
    <3> HIDE DEF midpoint
    <3>6. SearchInv'
      BY <2>2, <3>3, <3>4, <3>5 DEF SearchInv, FloorExact
    <3>7. QED
      BY <3>1, <3>2, <3>6 DEF BenchmarkInv
  <2>7. CASE Warmup
    <3>1. TrackerInv' /\ active_generation' = active_generation
      BY <2>3, <2>7 DEF Warmup
    <3>2. CaseInv'
      BY <2>2, <2>7, <3>1 DEF Warmup, Proceed, CaseInv
    <3>3. /\ UNCHANGED <<floors, least, low, high>>
          /\ pc = "search" /\ low >= high /\ pc' \in {"begin", "stopped"}
      BY <2>7 DEF Warmup, Proceed, SearchOver, caseVars, searchVars
    <3>4. SearchInv'
      BY <2>2, <3>3 DEF SearchInv, FloorExact
    <3>5. QED
      BY <3>1, <3>2, <3>4 DEF BenchmarkInv
  <2>8. CASE StartMeasurement
    <3>1. TrackerInv'
      BY <2>2, <2>8, BeginKeeps DEF StartMeasurement
    <3>2. active_generation' # 0 /\ pc' = "operation" /\ pc = "begin"
      BY <2>8, TrackerAssumption DEF StartMeasurement, Begin, Generation
    <3>3. UNCHANGED <<floors, least, low, high>>
      BY <2>8 DEF StartMeasurement, caseVars, searchVars
    <3>4. CaseInv' /\ SearchInv'
      BY <2>2, <3>2, <3>3 DEF CaseInv, SearchInv, FloorExact
    <3>5. QED
      BY <3>1, <3>4 DEF BenchmarkInv
  <2>9. CASE FinishMeasurement
    <3>1. /\ pc = "operation" /\ pc' \in {"timed", "stopped"}
          /\ sample' = Snapshot /\ active_generation' = 0
          /\ UNCHANGED <<header, measured, floors, least, low, high>>
      BY <2>9 DEF FinishMeasurement, End, Proceed, caseVars, searchVars
    <3>2. TrackerInv'
      BY <2>2, <3>1 DEF TrackerInv
    <3>3. Snapshot = Totals /\ Totals' = Totals
      BY <2>2, <3>1 DEF CaseInv, TrackerInv, Measuring, Totals
    <3>4. CaseInv'
      BY <3>1, <3>3 DEF CaseInv
    <3>5. SearchInv'
      BY <2>2, <3>1 DEF SearchInv, FloorExact
    <3>6. QED
      BY <3>2, <3>4, <3>5 DEF BenchmarkInv
  <2>10. CASE FinishCase
    <3>1. /\ pc = "timed" /\ pc' = "next"
          /\ UNCHANGED <<trackerVars, floors, least, low, high>>
      BY <2>10 DEF FinishCase, caseVars, searchVars
    <3>2. TrackerInv' /\ active_generation' = active_generation
      BY <2>3, <3>1
    <3>3. CaseInv' /\ SearchInv'
      BY <2>2, <3>1, <3>2 DEF CaseInv, SearchInv, FloorExact
    <3>4. QED
      BY <3>2, <3>3 DEF BenchmarkInv
  <2>11. CASE UseMemory
    <3>1. UNCHANGED <<pc, floors, least, low, high, sample>>
      BY <2>11 DEF UseMemory, caseVars, searchVars
    <3>2. /\ TrackerInv' /\ active_generation' = active_generation
          /\ active_generation = 0 => measured' = measured
      <4>1. CASE Allocate
        BY <2>2, <4>1, AllocateKeeps
      <4>2. CASE Deallocate
        BY <2>2, <4>2, DeallocateKeeps
      <4>3. QED
        BY <2>11, <4>1, <4>2 DEF UseMemory
    <3>3. CaseInv'
      BY <2>2, <3>1, <3>2 DEF CaseInv, Totals
    <3>4. SearchInv'
      BY <2>2, <3>1 DEF SearchInv, FloorExact
    <3>5. QED
      BY <3>2, <3>3, <3>4 DEF BenchmarkInv
  <2>12. QED
    BY <2>1, <2>4, <2>5, <2>6, <2>7, <2>8, <2>9, <2>10, <2>11 DEF BenchmarkNext
<1>3. QED
  BY <1>1, <1>2, PTL DEF BenchmarkSpec

(* Whatever was allocated before a measurement and freed during it, or the *)
(* other way around: the counters of a measurement are those of the blocks *)
(* it allocated itself, for any number of blocks, sizes and generations,   *)
(* and the result keeps them.                                              *)
THEOREM SamplesCount == BenchmarkSpec => []SampleExact
<1>1. BenchmarkInv => SampleExact
  BY DEF BenchmarkInv, TrackerInv, Measuring, CaseInv, SampleExact
<1>2. QED
  BY <1>1, BenchmarkInvariant, PTL

(* The search keeps the least budget between its ends and ends on it, for  *)
(* every default.                                                          *)
THEOREM FloorFound == BenchmarkSpec => []FloorExact
<1>1. BenchmarkInv => FloorExact
  BY DEF BenchmarkInv, SearchInv
<1>2. QED
  BY <1>1, BenchmarkInvariant, PTL
=============================================================================
