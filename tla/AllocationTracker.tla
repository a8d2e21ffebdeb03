-------------------------- MODULE AllocationTracker --------------------------
(***************************************************************************)
(* The benchmark's replacement of operator new and delete                  *)
(* (benchmark/allocation_tracker.cpp): every block remembers in its header *)
(* which measurement it was allocated in, and a measurement counts its own *)
(* blocks.  The benchmark has one thread.                                  *)
(***************************************************************************)
EXTENDS Naturals, FiniteSetsExt

CONSTANTS
  CounterMax,     \* largest value of a byte counter
  GenerationMax,  \* largest value of a generation
  SizeLimit,      \* largest std::size_t
  HeaderBytes,    \* sizeof(AllocationHeader)
  Sizes,          \* sizes asked for
  Blocks,         \* addresses
  MaxCalls        \* bound on the allocations of one measurement

Larger(a, b) == IF a < b THEN b ELSE a

(* As many allocations of any size fit a byte counter: no measurement      *)
(* allocates 2^64 bytes.                                                   *)
ASSUME TrackerAssumption ==
  /\ CounterMax \in Nat /\ GenerationMax \in Nat \ {0} /\ MaxCalls \in Nat
  /\ Sizes \subseteq Nat
  /\ \A size \in Sizes : MaxCalls * Larger(size, 1) <= CounterMax

VARIABLES
  active_generation, next_generation,
  allocation_calls, allocated_bytes,
  outstanding_bytes, peak_outstanding_bytes,
  header,         \* AllocationHeader of every live block
  measured        \* observed: the measurement's own blocks, and their totals

counters ==
  <<allocation_calls, allocated_bytes, outstanding_bytes, peak_outstanding_bytes>>

trackerVars == <<active_generation, next_generation, counters, header, measured>>

Nothing == [calls |-> 0, bytes |-> 0, peak |-> 0, own |-> {}]

TrackerInit ==
  /\ active_generation = 0
  /\ next_generation = 1
  /\ allocation_calls = 0 /\ allocated_bytes = 0
  /\ outstanding_bytes = 0 /\ peak_outstanding_bytes = 0
  /\ header = [b \in {} |-> b]
  /\ measured = Nothing

-----------------------------------------------------------------------------

(* Generation 0 means "not measuring": a counter that wraps skips it.      *)
Generation == IF next_generation = 0 THEN 1 ELSE next_generation

(* begin.  No block lives through a whole round of generations: the real   *)
(* counter has 64 bits.                                                    *)
Begin ==
  /\ \A b \in DOMAIN header : header[b].generation # Generation
  /\ allocation_calls' = 0 /\ allocated_bytes' = 0
  /\ outstanding_bytes' = 0 /\ peak_outstanding_bytes' = 0
  /\ active_generation' = Generation
  /\ next_generation' = (Generation + 1) % (GenerationMax + 1)
  /\ measured' = Nothing
  /\ UNCHANGED header

Snapshot ==
  [ calls |-> allocation_calls,
    bytes |-> allocated_bytes,
    peak  |-> peak_outstanding_bytes ]

End ==
  /\ active_generation' = 0
  /\ UNCHANGED <<next_generation, counters, header, measured>>

-----------------------------------------------------------------------------

(* std::bad_alloc: the size leaves no room for a header, or malloc fails.  *)
AllocateThrows == UNCHANGED trackerVars

HeldBy(own, header_) == MapThenSumSet(LAMBDA b : header_[b].size, own)

(* Observed with every allocation and deallocation of a measurement: which *)
(* blocks are its own and the most they ever held.                         *)
Observe(own, calls, bytes) ==
  measured' = [ calls |-> measured.calls + calls,
                bytes |-> measured.bytes + bytes,
                peak  |-> Larger(measured.peak, HeldBy(own, header')),
                own   |-> own ]

Count(requested) ==
  LET outstanding == (outstanding_bytes + requested) % (CounterMax + 1)
  IN  /\ allocation_calls' = allocation_calls + 1
      /\ allocated_bytes' = (allocated_bytes + requested) % (CounterMax + 1)
      /\ outstanding_bytes' = outstanding
      /\ peak_outstanding_bytes' = Larger(peak_outstanding_bytes, outstanding)

(* operator new.                                                           *)
Allocate ==
  \E size \in Sizes :
    LET requested == IF size = 0 THEN 1 ELSE size
    IN  \/ AllocateThrows
        \/ /\ size <= SizeLimit - HeaderBytes
           /\ active_generation # 0 => allocation_calls < MaxCalls
           /\ \E b \in Blocks \ DOMAIN header :
                /\ header' = [a \in (DOMAIN header) \cup {b} |->
                                IF a = b
                                THEN [ size       |-> requested,
                                       generation |-> active_generation ]
                                ELSE header[a]]
                /\ IF active_generation = 0 THEN UNCHANGED <<counters, measured>>
                   ELSE /\ Count(requested)
                        /\ Observe(measured.own \cup {b}, 1, requested)
           /\ UNCHANGED <<active_generation, next_generation>>

(* Mutant: any block freed during a measurement is taken off its bytes.    *)
CountedWhileActive(b) == active_generation # 0

(* A block freed during the measurement it was allocated in is counted.    *)
Counted(b) ==
  active_generation # 0 /\ header[b].generation = active_generation

(* operator delete.                                                        *)
Deallocate ==
  \E b \in DOMAIN header :
    /\ outstanding_bytes' =
         IF Counted(b)
         THEN (outstanding_bytes + CounterMax + 1 - header[b].size) % (CounterMax + 1)
         ELSE outstanding_bytes
    /\ header' = [a \in (DOMAIN header) \ {b} |-> header[a]]
    /\ IF active_generation = 0 THEN UNCHANGED measured
       ELSE Observe(measured.own \ {b}, 0, 0)
    /\ UNCHANGED <<active_generation, next_generation, allocation_calls,
                   allocated_bytes, peak_outstanding_bytes>>
=============================================================================
