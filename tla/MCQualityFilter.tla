-------------------------- MODULE MCQualityFilter --------------------------
(***************************************************************************)
(* One axis per behavior, for every pair of lengths: its coefficients      *)
(* against the triangle they stand for.                                    *)
(***************************************************************************)
EXTENDS QualityFilter, FiniteSetsExt

VARIABLES from, to, axis

vars == <<from, to, axis>>

Pending == [ok |-> FALSE, error |-> "pending"]

Init ==
  /\ from \in 1 .. DimensionMax
  /\ to \in 1 .. DimensionMax
  /\ axis = Pending

Next ==
  /\ axis = Pending
  /\ axis' = PopulateAxis(from, to)
  /\ UNCHANGED <<from, to>>

Spec == Init /\ [][Next]_vars

Indices == 0 .. to - 1

-----------------------------------------------------------------------------
(* Reference: the triangle as a function on all integers, and what clamps  *)
(* to each index of the source.                                            *)
Reach == -(2 * DimensionMax) .. 3 * DimensionMax

Triangle(j, i) ==
  LET offset == 2 * to * j - ((2 * i + 1) * from - to)
      height == 2 * Max({from, to})
  IN  Max({0, Min({height - offset, height + offset})})

ClampedTo(k) == {j \in Reach : Max({0, Min({from - 1, j})}) = k}

FoldedWeight(k, i) == MapThenSumSet(LAMBDA j : Triangle(j, i), ClampedTo(k))

(* Every span holds exactly the source indices the clamped triangle        *)
(* touches, each with the whole weight that folds onto it, so the closed   *)
(* forms of the edges neither lose nor repeat an index; and a plan is      *)
(* refused only when such a weight, or the sum of a span, is no word       *)
(* (ADR 0007 "Support outside the selected source rectangle clamps to its  *)
(* nearest edge. Duplicate clamped samples are coalesced, every stored     *)
(* weight is positive").                                                   *)
Total(i) == MapThenSumSet(LAMBDA j : Triangle(j, i), Reach)

WeightsExact ==
  axis # Pending =>
    /\ axis.ok <=> \A i \in Indices : Total(i) <= WordMax
    /\ axis.ok =>
         /\ DOMAIN axis.value = Indices
         /\ \A i \in Indices, k \in 0 .. from - 1 :
              IF k \in DOMAIN axis.value[i]
                THEN /\ axis.value[i][k] = FoldedWeight(k, i)
                     /\ axis.value[i][k] > 0
                ELSE FoldedWeight(k, i) = 0
=============================================================================
