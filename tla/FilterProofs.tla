---------------------------- MODULE FilterProofs ----------------------------
(***************************************************************************)
(* Sums, over sets and over axes, and the coefficients of an axis, for all *)
(* lengths.  A sum is a recursive function; what is said of it is proved   *)
(* for the least length, or the least set, for which it could fail.        *)
(***************************************************************************)
EXTENDS QualityFilter, LayoutProofs, FiniteSetsExt, FiniteSetTheorems

LEMMA Quotient ==
  ASSUME NEW p \in Nat, NEW r \in Nat, r > 0
  PROVE  /\ p \div r \in Nat
         /\ p % r \in Nat
         /\ p % r < r
         /\ p = (p \div r) * r + (p % r)
OBVIOUS

-----------------------------------------------------------------------------
(* Sums, and the coefficients they measure.                                *)

(* Numbers within bounds have a least and a largest.                       *)
LEMMA Extremes ==
  ASSUME NEW n \in Nat, NEW T, T \subseteq 0 .. n, T # {}
  PROVE  /\ Min(T) \in T /\ \A x \in T : Min(T) <= x
         /\ Max(T) \in T /\ \A x \in T : x <= Max(T)
<1>1. T \subseteq Nat
  OBVIOUS
<1>2. \E m \in T : \A x \in T : m <= x
  BY <1>1, LeastNatural
<1>3. \E m \in T : \A x \in T : m >= x
  <2> DEFINE Gaps == {n - x : x \in T}
  <2>1. Gaps \subseteq Nat /\ Gaps # {}
    <3>1. \A x \in T : n - x \in Nat
      OBVIOUS
    <3>2. PICK x \in T : TRUE
      OBVIOUS
    <3>3. n - x \in Gaps
      BY <3>2
    <3>4. QED
      BY <3>1, <3>3
  <2>2. PICK gap \in Gaps : \A g \in Gaps : gap <= g
    <3> HIDE DEF Gaps
    <3>1. QED
      BY <2>1, LeastNatural
  <2>3. PICK m \in T : gap = n - m
    BY <2>2
  <2>4. ASSUME NEW x \in T PROVE m >= x
    <3>1. n - x \in Gaps
      OBVIOUS
    <3>2. n - m <= n - x
      BY <2>2, <2>3, <3>1
    <3>3. m \in Nat /\ x \in Nat
      BY <1>1
    <3>4. QED
      BY <3>2, <3>3
  <2>5. QED
    BY <2>4
<1>4. QED
  BY <1>2, <1>3 DEF Min, Max

(* g holds the sums of the first elements of f, up to the first to.        *)
Sums(f, to, g) ==
  g = [n \in 0 .. to |-> IF n = 0 THEN 0 ELSE g[n - 1] + f[n - 1]]

(* There is such a g: the shortest without one would extend the next       *)
(* shorter.                                                                *)
LEMMA SumsExist ==
  ASSUME NEW to \in Nat, NEW f
  PROVE  \E g : Sums(f, to, g)
<1> DEFINE Missing == {n \in Nat : ~\E g : Sums(f, n, g)}
<1>1. SUFFICES ASSUME Missing # {} PROVE FALSE
  OBVIOUS
<1>2. PICK n \in Missing : \A m \in Missing : n <= m
  BY <1>1, LeastNatural
<1>3. CASE n = 0
  <2> DEFINE g == [k \in 0 .. 0 |-> 0]
  <2>1. g = [k \in 0 .. n |-> IF k = 0 THEN 0 ELSE g[k - 1] + f[k - 1]]
    BY <1>3
  <2>2. QED
    BY <2>1 DEF Sums
<1>4. CASE n # 0
  <2>1. n - 1 \in Nat /\ n \in Nat
    BY <1>4
  <2>2. PICK g : Sums(f, n - 1, g)
    BY <1>2, <2>1
  <2> DEFINE h == [k \in 0 .. n |-> IF k = n THEN g[n - 1] + f[n - 1] ELSE g[k]]
  <2>3. h = [k \in 0 .. n |-> IF k = 0 THEN 0 ELSE h[k - 1] + f[k - 1]]
    <3>1. ASSUME NEW k \in 0 .. n
          PROVE  h[k] = IF k = 0 THEN 0 ELSE h[k - 1] + f[k - 1]
      <4>1. g = [j \in 0 .. n - 1 |-> IF j = 0 THEN 0 ELSE g[j - 1] + f[j - 1]]
        BY <2>2 DEF Sums
      <4>2. CASE k = n
        <5>1. h[k] = g[n - 1] + f[n - 1] /\ h[k - 1] = g[n - 1]
          BY <2>1, <4>2
        <5>2. QED
          BY <5>1, <4>2, <1>4
      <4>3. CASE k # n
        <5>1. k \in 0 .. n - 1
          BY <2>1, <4>3
        <5>2. h[k] = g[k]
          BY <4>3
        <5>3. g[k] = IF k = 0 THEN 0 ELSE g[k - 1] + f[k - 1]
          BY <4>1, <5>1
        <5>4. k # 0 => h[k - 1] = g[k - 1]
          BY <5>1, <2>1
        <5>5. QED
          BY <5>2, <5>3, <5>4
      <4>4. QED
        BY <4>2, <4>3
    <3>2. QED
      BY <3>1
  <2>4. QED
    BY <2>3 DEF Sums
<1>5. QED
  BY <1>3, <1>4

(* A sum of naturals is a natural.                                         *)
LEMMA SumNatural ==
  ASSUME NEW to \in Nat, NEW f, \A n \in 0 .. to - 1 : f[n] \in Nat
  PROVE  SumBetween(f, 0, to) \in Nat
<1> DEFINE g == CHOOSE s : Sums(f, to, s)
           Bad == {n \in 0 .. to : g[n] \notin Nat}
<1>1. SumBetween(f, 0, to) = g[to]
  BY DEF SumBetween, Sums
<1>2. Sums(f, to, g)
  BY SumsExist
<1> HIDE DEF g
<1>3. \A n \in 0 .. to : g[n] = IF n = 0 THEN 0 ELSE g[n - 1] + f[n - 1]
  BY <1>2 DEF Sums
<1>4. Bad = {}
  <2>1. SUFFICES ASSUME Bad # {} PROVE FALSE
    OBVIOUS
  <2>2. Bad \subseteq Nat
    OBVIOUS
  <2>3. PICK n \in Bad : \A m \in Bad : n <= m
    <3> HIDE DEF Bad
    <3>1. QED
      BY <2>1, <2>2, LeastNatural
  <2>4. n \in 0 .. to /\ g[n] \notin Nat
    OBVIOUS
  <2>5. n # 0
    BY <1>3, <2>4
  <2>6. n - 1 \in 0 .. to - 1 /\ n - 1 \in 0 .. to
    BY <2>4, <2>5
  <2>7. g[n - 1] \in Nat
    BY <2>3, <2>6
  <2>8. f[n - 1] \in Nat
    BY <2>6
  <2>9. g[n] = g[n - 1] + f[n - 1]
    BY <1>3, <2>4, <2>5
  <2>10. QED
    BY <2>4, <2>7, <2>8, <2>9
<1>5. QED
  BY <1>1, <1>4

(* The triangle of a destination pixel reaches at least one source index,  *)
(* and after clamping none that is not there.                              *)
LEMMA BoundsOrdered ==
  ASSUME NEW from \in Nat \ {0}, NEW to \in Nat \ {0}, NEW i \in 0 .. to - 1
  PROVE  LET bounds == AxisBounds(i, from, to)
         IN  /\ bounds.first \in Int /\ bounds.last \in Int
             /\ bounds.first <= bounds.last
             /\ bounds.first_clamped \in 0 .. from - 1
             /\ bounds.last_clamped \in 0 .. from - 1
             /\ bounds.first_clamped <= bounds.last_clamped
<1> DEFINE c == CenterNumerator(i, from, to)
           s == Support(from, to)
           d == Denominator(to)
           first == (c - s) \div d + 1
           last == (c + s - 1) \div d
<1>1. d \in Nat /\ d > 0 /\ s \in Nat /\ s >= d
  BY DEF Denominator, Support
<1>2. c \in Int
  <2>1. (2 * i + 1) * from \in Int
    OBVIOUS
  <2>2. QED
    BY <2>1 DEF CenterNumerator
<1> HIDE DEF c, s, d
<1>3. /\ (c - s) \div d \in Int /\ last \in Int
      /\ d * ((c - s) \div d) <= c - s
      /\ c + s - 1 < d * last + d
  <2>1. ASSUME NEW n \in Int
        PROVE  n \div d \in Int /\ d * (n \div d) <= n /\ n < d * (n \div d) + d
    BY <1>1
  <2>2. QED
    BY <1>1, <1>2, <2>1
<1> DEFINE q == (c - s) \div d
<1>4. q + 1 <= last
  <2> HIDE DEF q, last
  <2>1. SUFFICES ASSUME last <= q PROVE FALSE
    BY <1>3 DEF q
  <2>2. d * last <= d * q
    <3>1. q - last \in Nat
      BY <2>1, <1>3 DEF q
    <3>2. d * (q - last) \in Nat /\ d * (q - last) = d * q - d * last
      BY <3>1, <1>1, <1>3 DEF q
    <3>3. d * q \in Int /\ d * last \in Int
      BY <1>1, <1>3 DEF q
    <3>4. QED
      BY <3>2, <3>3
  <2>3. d * q <= c - s /\ d * q \in Int /\ d * last \in Int
    BY <1>1, <1>3 DEF q
  <2>4. QED
    BY <1>1, <1>2, <1>3, <2>2, <2>3
<1>5. first \in Int /\ first <= last
  BY <1>3, <1>4
<1>6. AxisBounds(i, from, to) = [ first |-> first, last |-> last,
                                  first_clamped |-> ToEdge(first, from),
                                  last_clamped |-> ToEdge(last, from) ]
  BY DEF AxisBounds, c, s, d
<1> HIDE DEF first, last
<1>7. /\ ToEdge(first, from) \in 0 .. from - 1
      /\ ToEdge(last, from) \in 0 .. from - 1
      /\ ToEdge(first, from) <= ToEdge(last, from)
  BY <1>3, <1>5 DEF ToEdge
<1>8. QED
  BY <1>3, <1>5, <1>6, <1>7

LEMMA TapsInside ==
  ASSUME NEW from \in Nat \ {0}, NEW to \in Nat \ {0}, NEW i \in 0 .. to - 1
  PROVE  /\ TapIndices(i, from, to) \subseteq 0 .. from - 1
         /\ TapIndices(i, from, to) # {}
<1> DEFINE a == AxisBounds(i, from, to).first_clamped
           b == AxisBounds(i, from, to).last_clamped
<1>1. a \in 0 .. from - 1 /\ b \in 0 .. from - 1 /\ a <= b
  BY BoundsOrdered
<1>2. TapIndices(i, from, to) = a .. b
  BY DEF TapIndices
<1> HIDE DEF a, b
<1>3. a \in a .. b /\ a .. b \subseteq 0 .. from - 1
  BY <1>1
<1>4. QED
  BY <1>2, <1>3

(* Every source index is under some triangle: that of the destination      *)
(* pixel it lies in.                                                       *)
LEMMA TapsCover ==
  ASSUME NEW from \in Nat \ {0}, NEW to \in Nat \ {0}, NEW k \in 0 .. from - 1
  PROVE  \E i \in 0 .. to - 1 : k \in TapIndices(i, from, to)
<1> DEFINE p == k * to
           i == p \div from
           r == p % from
<1>1. p \in Nat /\ p <= from * to - to
  <2>1. k * to <= (from - 1) * to
    BY ProductMonotone
  <2>2. (from - 1) * to = from * to - to /\ k * to \in Nat
    OBVIOUS
  <2>3. QED
    BY <2>1, <2>2
<1>2. i \in Nat /\ r \in Nat /\ r < from /\ p = i * from + r
  <2> HIDE DEF p
  <2>1. QED
    BY <1>1, Quotient
<1> HIDE DEF i, r
<1>3. i \in 0 .. to - 1
  <2>1. SUFFICES ASSUME to <= i PROVE FALSE
    BY <1>2
  <2>2. to * from <= i * from
    BY <2>1, <1>2, ProductMonotone
  <2>3. to * from = from * to /\ to * from \in Nat /\ i * from \in Nat
    BY <1>2
  <2> HIDE DEF p
  <2>4. QED
    BY <2>2, <2>3, <1>1, <1>2
<1> DEFINE c == CenterNumerator(i, from, to)
           s == Support(from, to)
           d == Denominator(to)
           first == (c - s) \div d + 1
           last == (c + s - 1) \div d
<1>4. /\ d = 2 * to /\ s \in Nat /\ s >= 2 * to /\ s >= 2 * from
  BY DEF Denominator, Support
<1>5. c = 2 * (i * from) + from - to /\ c \in Int
  <2>1. (2 * i + 1) * from = 2 * (i * from) + from /\ i * from \in Nat
    BY <1>2
  <2>2. QED
    BY <2>1 DEF CenterNumerator
(* Twice the distance from the center is at most from + to - 2.            *)
<1>6. d * k = 2 * p /\ d * k \in Int /\ i * from \in Nat
  BY <1>2, <1>4
<1>7. c - s < d * k /\ d * k < c + s
  <2> HIDE DEF c, s, d, p
  <2>1. QED
    BY <1>1, <1>2, <1>4, <1>5, <1>6
<1> HIDE DEF c, s
<1>8. first <= k /\ k <= last /\ first \in Int /\ last \in Int
  <2>1. d \in Nat /\ d > 0 /\ k \in Nat
    BY <1>4
  <2> HIDE DEF d
  <2>2. ASSUME NEW n \in Int
        PROVE  n \div d \in Int /\ d * (n \div d) <= n /\ n < d * (n \div d) + d
    BY <2>1
  <2> DEFINE q == (c - s) \div d
             l == last
  <2>3. /\ q \in Int /\ d * q <= c - s
        /\ l \in Int /\ c + s - 1 < d * l + d
    BY <1>4, <1>5, <2>2
  <2> HIDE DEF q, l
  <2>4. q < k
    <3>1. SUFFICES ASSUME k <= q PROVE FALSE
      BY <2>1, <2>3
    <3>2. q - k \in Nat /\ d * (q - k) \in Nat /\ d * (q - k) = d * q - d * k
      BY <3>1, <2>1, <2>3
    <3>3. d * q \in Int /\ d * k \in Int
      BY <2>1, <2>3
    <3>4. QED
      BY <3>2, <3>3, <2>3, <1>4, <1>5, <1>7
  <2>5. k <= l
    <3>1. SUFFICES ASSUME l + 1 <= k PROVE FALSE
      BY <2>1, <2>3
    <3>2. /\ k - (l + 1) \in Nat /\ d * (k - (l + 1)) \in Nat
          /\ d * (k - (l + 1)) = d * k - (d * l + d)
      BY <3>1, <2>1, <2>3
    <3>3. d * l \in Int /\ d * k \in Int
      BY <2>1, <2>3
    <3>4. QED
      BY <3>2, <3>3, <2>1, <2>3, <1>4, <1>5, <1>7
  <2>6. QED
    BY <2>1, <2>3, <2>4, <2>5 DEF q, l
<1>9. /\ AxisBounds(i, from, to).first_clamped = ToEdge(first, from)
      /\ AxisBounds(i, from, to).last_clamped = ToEdge(last, from)
  BY DEF AxisBounds, c, s
<1> HIDE DEF first, last
<1>10. /\ ToEdge(first, from) <= k /\ k <= ToEdge(last, from)
       /\ ToEdge(first, from) \in Int /\ ToEdge(last, from) \in Int
  BY <1>8 DEF ToEdge
<1>11. k \in TapIndices(i, from, to)
  BY <1>9, <1>10 DEF TapIndices
<1>12. QED
  BY <1>3, <1>11

(* What is measured is within the limit.                                   *)
LEMMA MeasureAxisBound ==
  ASSUME NEW from \in Nat \ {0}, NEW to \in Nat \ {0}, NEW limit \in Int
  PROVE  /\ MeasureAxis(from, to, limit).ok =>
              /\ MeasureAxis(from, to, limit).value \in Nat
              /\ MeasureAxis(from, to, limit).value <= limit
         /\ ~MeasureAxis(from, to, limit).ok =>
              MeasureAxis(from, to, limit).error = "resource_limit"
<1> DEFINE counts == [i \in 0 .. to - 1 |->
                        LET bounds == AxisBounds(i, from, to)
                        IN  bounds.last_clamped - bounds.first_clamped + 1]
           total == SumBetween(counts, 0, to)
           headers == CheckedMultiply(to, SpanBytes)
           entries == CheckedMultiply(total, TapBytes)
<1>1. total \in Nat
  <2>1. \A i \in 0 .. to - 1 : counts[i] \in Nat
    BY BoundsOrdered
  <2> HIDE DEF counts
  <2>2. QED
    BY <2>1, SumNatural
<1> HIDE DEF total
<1>2. /\ headers.ok => headers.value \in Nat
      /\ entries.ok => entries.value \in Nat
  <2>1. to \in Nat /\ SpanBytes \in Nat /\ TapBytes \in Nat
    BY CoefficientAssumption
  <2>2. /\ headers.ok => headers.value = to * SpanBytes
        /\ entries.ok => entries.value = total * TapBytes
    BY <1>1, <2>1, MultiplyExact
  <2>3. to * SpanBytes \in Nat /\ total * TapBytes \in Nat
    BY <1>1, <2>1
  <2>4. QED
    BY <2>2, <2>3
<1>3. MeasureAxis(from, to, limit) =
        IF \/ ~headers.ok \/ headers.value > SizeMax
           \/ ~entries.ok \/ entries.value > SizeMax
        THEN Err("resource_limit")
        ELSE IF headers.value + entries.value > limit THEN Err("resource_limit")
        ELSE Ok(headers.value + entries.value)
  BY DEF MeasureAxis, total
<1> HIDE DEF headers, entries
<1>4. QED
  BY <1>2, <1>3 DEF Ok, Err

LEMMA MeasurePlanBound ==
  ASSUME NEW s, NEW d, NEW limit \in Nat,
         s.width \in Nat \ {0}, s.height \in Nat \ {0},
         d.width \in Nat \ {0}, d.height \in Nat \ {0}
  PROVE  /\ MeasurePlan(s, d, limit).ok =>
              /\ MeasurePlan(s, d, limit).value \in Nat
              /\ MeasurePlan(s, d, limit).value <= limit
         /\ ~MeasurePlan(s, d, limit).ok =>
              MeasurePlan(s, d, limit).error = "resource_limit"
<1> DEFINE horizontal == MeasureAxis(s.width, d.width, limit)
           rest == limit - horizontal.value
           vertical == MeasureAxis(s.height, d.height, rest)
<1>1. /\ horizontal.ok => horizontal.value \in Nat /\ horizontal.value <= limit
      /\ ~horizontal.ok => horizontal.error = "resource_limit"
  BY MeasureAxisBound
<1>2. horizontal.ok =>
        /\ vertical.ok => vertical.value \in Nat /\ vertical.value <= rest
        /\ ~vertical.ok => vertical.error = "resource_limit"
  <2>1. horizontal.ok => rest \in Int
    BY <1>1
  <2> HIDE DEF rest
  <2>2. QED
    BY <2>1, MeasureAxisBound
<1>3. MeasurePlan(s, d, limit) =
        IF ~horizontal.ok THEN horizontal
        ELSE IF ~vertical.ok THEN vertical
        ELSE Ok(horizontal.value + vertical.value)
  BY DEF MeasurePlan, IsEmpty
<1> HIDE DEF horizontal, vertical
<1>4. QED
  BY <1>1, <1>2, <1>3 DEF Ok

-----------------------------------------------------------------------------
(* Sums over finite sets.  MapThenSumSet takes the elements of a set in    *)
(* the order in which CHOOSE finds them; that the order does not matter is *)
(* SetSumInsert.                                                           *)

Chosen(s) == CHOOSE x \in s : TRUE

SumsOver(f, S, level, g) ==
  g = [s \in {t \in SUBSET S : Cardinality(t) <= level} |->
         IF s = {} THEN 0 ELSE f[Chosen(s)] + g[s \ {Chosen(s)}]]

SetSums(f, S, g) ==
  g = [s \in SUBSET S |->
         IF s = {} THEN 0 ELSE f[Chosen(s)] + g[s \ {Chosen(s)}]]

SetSum(f, S) == (CHOOSE g : SetSums(f, S, g))[S]

(* A set without its chosen element is smaller by one.                     *)
LEMMA ChosenRemoved ==
  ASSUME NEW s, IsFiniteSet(s), s # {}
  PROVE  /\ Chosen(s) \in s
         /\ IsFiniteSet(s \ {Chosen(s)})
         /\ Cardinality(s) \in Nat
         /\ Cardinality(s \ {Chosen(s)}) \in Nat
         /\ Cardinality(s \ {Chosen(s)}) = Cardinality(s) - 1
<1>1. Chosen(s) \in s
  BY DEF Chosen
<1>2. QED
  BY <1>1, FS_RemoveElement, FS_CardinalityType

(* The sums of the subsets up to a size extend to those of one more.       *)
LEMMA LevelsExist ==
  ASSUME NEW f, NEW S, IsFiniteSet(S), NEW level \in Nat
  PROVE  \E g : SumsOver(f, S, level, g)
<1> DEFINE Missing == {n \in Nat : ~\E g : SumsOver(f, S, n, g)}
           Upto(n) == {t \in SUBSET S : Cardinality(t) <= n}
<1>1. SUFFICES ASSUME Missing # {} PROVE FALSE
  OBVIOUS
<1>2. PICK n \in Missing : \A m \in Missing : n <= m
  BY <1>1, LeastNatural
<1>3. \A t \in SUBSET S : IsFiniteSet(t) /\ Cardinality(t) \in Nat
  BY FS_Subset, FS_CardinalityType
<1>4. CASE n = 0
  <2> DEFINE g == [s \in Upto(0) |-> 0]
  <2>1. ASSUME NEW s \in Upto(0) PROVE s = {}
    <3>1. IsFiniteSet(s) /\ Cardinality(s) = 0
      BY <1>3
    <3>2. QED
      BY <3>1, FS_EmptySet
  <2>2. g = [s \in Upto(0) |->
               IF s = {} THEN 0 ELSE f[Chosen(s)] + g[s \ {Chosen(s)}]]
    BY <2>1
  <2>3. SumsOver(f, S, n, g)
    BY <1>4, <2>2 DEF SumsOver
  <2>4. QED
    BY <2>3
<1>5. CASE n # 0
  <2>1. n - 1 \in Nat /\ n \in Nat
    BY <1>5
  <2>2. PICK g : SumsOver(f, S, n - 1, g)
    BY <1>2, <2>1
  <2> DEFINE h == [s \in Upto(n) |->
                     IF s \in Upto(n - 1) THEN g[s]
                     ELSE f[Chosen(s)] + g[s \ {Chosen(s)}]]
  <2>3. ASSUME NEW s \in Upto(n)
        PROVE  h[s] = IF s = {} THEN 0
                      ELSE f[Chosen(s)] + h[s \ {Chosen(s)}]
    <3>1. ASSUME s # {}
          PROVE  s \ {Chosen(s)} \in Upto(n - 1) /\ s \ {Chosen(s)} \in Upto(n)
      <4>1. s \ {Chosen(s)} \in SUBSET S
        OBVIOUS
      <4>2. /\ Cardinality(s) \in Nat /\ Cardinality(s) <= n
            /\ Cardinality(s \ {Chosen(s)}) = Cardinality(s) - 1
        BY <1>3, <3>1, ChosenRemoved
      <4>3. QED
        BY <2>1, <4>1, <4>2
    <3>2. s # {} => h[s \ {Chosen(s)}] = g[s \ {Chosen(s)}]
      BY <3>1
    <3>3. CASE s \in Upto(n - 1)
      <4>1. g[s] = IF s = {} THEN 0 ELSE f[Chosen(s)] + g[s \ {Chosen(s)}]
        BY <2>2, <3>3 DEF SumsOver
      <4>2. h[s] = g[s]
        BY <3>3
      <4>3. QED
        BY <3>2, <4>1, <4>2
    <3>4. CASE s \notin Upto(n - 1)
      <4>1. s # {}
        <5>1. Cardinality({}) = 0 /\ {} \in SUBSET S
          BY FS_EmptySet
        <5>2. QED
          BY <2>1, <3>4, <5>1
      <4>2. h[s] = f[Chosen(s)] + g[s \ {Chosen(s)}]
        BY <3>4
      <4>3. QED
        BY <3>2, <4>1, <4>2
    <3>5. QED
      BY <3>3, <3>4
  <2>4. h = [s \in Upto(n) |->
               IF s = {} THEN 0 ELSE f[Chosen(s)] + h[s \ {Chosen(s)}]]
    <3> DEFINE k == [s \in Upto(n) |->
                       IF s = {} THEN 0 ELSE f[Chosen(s)] + h[s \ {Chosen(s)}]]
    <3>1. \A s \in Upto(n) : h[s] = k[s]
      BY <2>3
    <3>2. h = [s \in Upto(n) |-> h[s]] /\ k = [s \in Upto(n) |-> k[s]]
      OBVIOUS
    <3> HIDE DEF h, k
    <3>3. h = k
      BY <3>1, <3>2
    <3>4. QED
      BY <3>3 DEF k
  <2> HIDE DEF h
  <2>5. SumsOver(f, S, n, h)
    BY <2>4 DEF SumsOver
  <2>6. QED
    BY <2>5
<1>6. QED
  BY <1>4, <1>5

LEMMA SetSumsExist ==
  ASSUME NEW f, NEW S, IsFiniteSet(S)
  PROVE  \E g : SetSums(f, S, g)
<1>1. Cardinality(S) \in Nat
  BY FS_CardinalityType
<1>2. PICK g : SumsOver(f, S, Cardinality(S), g)
  BY <1>1, LevelsExist
<1>3. {t \in SUBSET S : Cardinality(t) <= Cardinality(S)} = SUBSET S
  BY FS_Subset
<1>4. SetSums(f, S, g)
  BY <1>2, <1>3 DEF SumsOver, SetSums
<1>5. QED
  BY <1>4

(* A set has one sum, whichever larger set it was summed with, and one for *)
(* all functions that are alike on it.                                     *)
LEMMA SetSumsAgree ==
  ASSUME NEW f, NEW S, NEW g, SetSums(f, S, g), IsFiniteSet(S),
         NEW e, NEW T, NEW h, SetSums(e, T, h),
         NEW s, s \subseteq S, s \subseteq T, \A x \in s : f[x] = e[x]
  PROVE  g[s] = h[s]
<1> DEFINE Differ == {t \in SUBSET s : g[t] # h[t]}
           Sizes == {Cardinality(t) : t \in Differ}
<1>1. \A t \in SUBSET s : IsFiniteSet(t) /\ Cardinality(t) \in Nat
  BY FS_Subset, FS_CardinalityType
<1>2. SUFFICES ASSUME Differ # {} PROVE FALSE
  OBVIOUS
<1>3. Sizes # {} /\ Sizes \subseteq Nat
  BY <1>1, <1>2
<1>4. PICK n \in Sizes : \A m \in Sizes : n <= m
  <2> HIDE DEF Sizes
  <2>1. QED
    BY <1>3, LeastNatural
<1>5. PICK t \in Differ : n = Cardinality(t)
  BY <1>4
<1>6. /\ g[t] = IF t = {} THEN 0 ELSE f[Chosen(t)] + g[t \ {Chosen(t)}]
      /\ h[t] = IF t = {} THEN 0 ELSE e[Chosen(t)] + h[t \ {Chosen(t)}]
  <2>1. t \in SUBSET S /\ t \in SUBSET T
    OBVIOUS
  <2>2. QED
    BY <2>1 DEF SetSums
<1>7. t # {} /\ g[t \ {Chosen(t)}] # h[t \ {Chosen(t)}]
  <2>1. t # {}
    BY <1>6
  <2>2. f[Chosen(t)] = e[Chosen(t)]
    BY <2>1 DEF Chosen
  <2>3. QED
    BY <1>6, <2>1, <2>2
<1>8. /\ t \ {Chosen(t)} \in Differ /\ Cardinality(t) \in Nat
      /\ Cardinality(t \ {Chosen(t)}) = Cardinality(t) - 1
  BY <1>1, <1>7, ChosenRemoved
<1>9. Cardinality(t \ {Chosen(t)}) \in Sizes
  BY <1>8
<1>10. QED
  BY <1>4, <1>5, <1>8, <1>9

(* So every function that holds the sums holds this one.                   *)
LEMMA SetSumUnique ==
  ASSUME NEW f, NEW S, IsFiniteSet(S), NEW g, SetSums(f, S, g)
  PROVE  g[S] = SetSum(f, S)
<1> DEFINE h == CHOOSE k : SetSums(f, S, k)
<1>1. SetSums(f, S, h)
  BY SetSumsExist
<1>2. S \subseteq S /\ \A x \in S : f[x] = f[x]
  OBVIOUS
<1>3. SetSum(f, S) = h[S]
  BY DEF SetSum
<1> HIDE DEF h
<1>4. QED
  BY <1>1, <1>2, <1>3, SetSumsAgree

(* What a sum is.                                                          *)
LEMMA SetSumChosen ==
  ASSUME NEW f, NEW S, IsFiniteSet(S)
  PROVE  SetSum(f, S) =
           IF S = {} THEN 0
           ELSE f[Chosen(S)] + SetSum(f, S \ {Chosen(S)})
<1> DEFINE g == CHOOSE k : SetSums(f, S, k)
           R == S \ {Chosen(S)}
           h == CHOOSE k : SetSums(f, R, k)
<1>1. SetSums(f, S, g)
  BY SetSumsExist
<1>2. IsFiniteSet(R)
  BY FS_RemoveElement
<1>3. SetSums(f, R, h)
  <2> HIDE DEF R
  <2>1. QED
    BY <1>2, SetSumsExist
<1>4. SetSum(f, S) = g[S] /\ SetSum(f, R) = h[R]
  BY DEF SetSum
<1> HIDE DEF g, h
<1>5. g[R] = h[R]
  <2>1. R \subseteq S /\ R \subseteq R /\ \A x \in R : f[x] = f[x]
    OBVIOUS
  <2> HIDE DEF R
  <2>2. QED
    BY <1>1, <1>3, <2>1, SetSumsAgree
<1>6. g[S] = IF S = {} THEN 0 ELSE f[Chosen(S)] + g[R]
  BY <1>1 DEF SetSums
<1>7. QED
  BY <1>4, <1>5, <1>6

LEMMA SetSumCongruent ==
  ASSUME NEW f, NEW e, NEW S, IsFiniteSet(S), \A x \in S : f[x] = e[x]
  PROVE  SetSum(f, S) = SetSum(e, S)
<1> DEFINE g == CHOOSE k : SetSums(f, S, k)
           h == CHOOSE k : SetSums(e, S, k)
<1>1. SetSums(f, S, g) /\ SetSums(e, S, h)
  BY SetSumsExist
<1>2. SetSum(f, S) = g[S] /\ SetSum(e, S) = h[S]
  BY DEF SetSum
<1> HIDE DEF g, h
<1>3. g[S] = h[S]
  BY <1>1, SetSumsAgree
<1>4. QED
  BY <1>2, <1>3

(* The set for which a claim about sums fails first, if any: one whose     *)
(* subsets that are smaller by one element satisfy it.                     *)
LEMMA SmallestSet ==
  ASSUME NEW S, IsFiniteSet(S), NEW Bad, Bad \subseteq SUBSET S, Bad # {}
  PROVE  \E s \in Bad :
           /\ IsFiniteSet(s)
           /\ \A t \in Bad : Cardinality(s) <= Cardinality(t)
           /\ \A x \in s : s \ {x} \notin Bad
<1> DEFINE Counts == {Cardinality(t) : t \in Bad}
<1>1. \A t \in Bad : IsFiniteSet(t) /\ Cardinality(t) \in Nat
  BY FS_Subset, FS_CardinalityType
<1>2. Counts # {} /\ Counts \subseteq Nat
  BY <1>1
<1>3. PICK n \in Counts : \A m \in Counts : n <= m
  <2> HIDE DEF Counts
  <2>1. QED
    BY <1>2, LeastNatural
<1>4. PICK s \in Bad : n = Cardinality(s)
  BY <1>3
<1>5. \A t \in Bad : Cardinality(s) <= Cardinality(t)
  BY <1>3, <1>4
<1>6. ASSUME NEW x \in s, s \ {x} \in Bad PROVE FALSE
  <2>1. Cardinality(s) \in Nat /\ Cardinality(s \ {x}) = Cardinality(s) - 1
    BY <1>1, FS_RemoveElement
  <2>2. QED
    BY <1>5, <1>6, <2>1
<1>7. QED
  BY <1>1, <1>5, <1>6

LEMMA SetSumNatural ==
  ASSUME NEW f, NEW S, IsFiniteSet(S), \A x \in S : f[x] \in Nat
  PROVE  SetSum(f, S) \in Nat
<1> DEFINE Bad == {s \in SUBSET S : SetSum(f, s) \notin Nat}
<1>1. SUFFICES ASSUME Bad # {} PROVE FALSE
  OBVIOUS
<1>2. PICK s \in Bad : IsFiniteSet(s) /\ \A x \in s : s \ {x} \notin Bad
  <2>1. Bad \subseteq SUBSET S
    OBVIOUS
  <2> HIDE DEF Bad
  <2>2. QED
    BY <1>1, <2>1, SmallestSet
<1>3. SetSum(f, s) = IF s = {} THEN 0
                     ELSE f[Chosen(s)] + SetSum(f, s \ {Chosen(s)})
  BY <1>2, SetSumChosen
<1>4. s # {}
  BY <1>3
<1>5. Chosen(s) \in s /\ SetSum(f, s \ {Chosen(s)}) \in Nat
  BY <1>2, <1>4 DEF Chosen
<1>6. QED
  BY <1>3, <1>4, <1>5

(* Terms that compare add up to sums that compare.                         *)
LEMMA SetSumCompare ==
  ASSUME NEW S, IsFiniteSet(S), NEW f, NEW g, NEW w,
         NEW a \in Nat, NEW b \in Nat, NEW d \in Nat,
         \A x \in S : /\ f[x] \in Nat /\ g[x] \in Nat /\ w[x] \in Nat
                      /\ a * f[x] <= b * g[x] + d * w[x]
  PROVE  a * SetSum(f, S) <= b * SetSum(g, S) + d * SetSum(w, S)
<1> DEFINE Bad == {s \in SUBSET S :
                     ~(a * SetSum(f, s) <= b * SetSum(g, s) + d * SetSum(w, s))}
<1>1. SUFFICES ASSUME Bad # {} PROVE FALSE
  OBVIOUS
<1>2. PICK s \in Bad : IsFiniteSet(s) /\ \A x \in s : s \ {x} \notin Bad
  <2>1. Bad \subseteq SUBSET S
    OBVIOUS
  <2> HIDE DEF Bad
  <2>2. QED
    BY <1>1, <2>1, SmallestSet
<1>3. s # {}
  <2>1. ASSUME s = {} PROVE FALSE
    <3>1. SetSum(f, s) = 0 /\ SetSum(g, s) = 0 /\ SetSum(w, s) = 0
      BY <1>2, <2>1, SetSumChosen
    <3>2. QED
      BY <3>1
  <2>2. QED
    BY <2>1
<1> DEFINE c == Chosen(s)
           r == s \ {c}
<1>4. /\ SetSum(f, s) = f[c] + SetSum(f, r)
      /\ SetSum(g, s) = g[c] + SetSum(g, r)
      /\ SetSum(w, s) = w[c] + SetSum(w, r)
  BY <1>2, <1>3, SetSumChosen
<1>5. c \in S /\ r \in SUBSET S /\ r \notin Bad /\ IsFiniteSet(r)
  BY <1>2, <1>3, ChosenRemoved
<1> HIDE DEF c, r
<1>6. SetSum(f, r) \in Nat /\ SetSum(g, r) \in Nat /\ SetSum(w, r) \in Nat
  BY <1>5, SetSumNatural
<1>7. a * SetSum(f, r) <= b * SetSum(g, r) + d * SetSum(w, r)
  BY <1>5
<1>8. /\ f[c] \in Nat /\ g[c] \in Nat /\ w[c] \in Nat
      /\ a * f[c] <= b * g[c] + d * w[c]
  BY <1>5
<1>9. ASSUME NEW k \in Nat, NEW m \in Nat, NEW n \in Nat
      PROVE  k * (m + n) = k * m + k * n /\ k * m \in Nat /\ k * n \in Nat
  OBVIOUS
<1>10. a * SetSum(f, s) <= b * SetSum(g, s) + d * SetSum(w, s)
  <2>1. /\ a * SetSum(f, s) = a * f[c] + a * SetSum(f, r)
        /\ a * f[c] \in Nat /\ a * SetSum(f, r) \in Nat
    <3>1. /\ a * (f[c] + SetSum(f, r)) = a * f[c] + a * SetSum(f, r)
          /\ a * f[c] \in Nat /\ a * SetSum(f, r) \in Nat
      BY <1>6, <1>8, <1>9
    <3>2. QED
      BY <1>4, <3>1
  <2>2. /\ b * SetSum(g, s) = b * g[c] + b * SetSum(g, r)
        /\ b * g[c] \in Nat /\ b * SetSum(g, r) \in Nat
    <3>1. /\ b * (g[c] + SetSum(g, r)) = b * g[c] + b * SetSum(g, r)
          /\ b * g[c] \in Nat /\ b * SetSum(g, r) \in Nat
      BY <1>6, <1>8, <1>9
    <3>2. QED
      BY <1>4, <3>1
  <2>3. /\ d * SetSum(w, s) = d * w[c] + d * SetSum(w, r)
        /\ d * w[c] \in Nat /\ d * SetSum(w, r) \in Nat
    <3>1. /\ d * (w[c] + SetSum(w, r)) = d * w[c] + d * SetSum(w, r)
          /\ d * w[c] \in Nat /\ d * SetSum(w, r) \in Nat
      BY <1>6, <1>8, <1>9
    <3>2. QED
      BY <1>4, <3>1
  <2>4. QED
    BY <1>7, <1>8, <2>1, <2>2, <2>3
<1>11. QED
  BY <1>10

(* An element more adds its term, wherever CHOOSE would find it.           *)
LEMMA SetSumInsert ==
  ASSUME NEW f, NEW S, IsFiniteSet(S), \A x \in S : f[x] \in Nat,
         NEW y \in S
  PROVE  SetSum(f, S) = f[y] + SetSum(f, S \ {y})
<1> DEFINE Bad == {s \in SUBSET S :
                     \E x \in s : SetSum(f, s) # f[x] + SetSum(f, s \ {x})}
<1>1. SUFFICES ASSUME Bad # {} PROVE FALSE
  OBVIOUS
<1>2. PICK s \in Bad : IsFiniteSet(s) /\ \A x \in s : s \ {x} \notin Bad
  <2>1. Bad \subseteq SUBSET S
    OBVIOUS
  <2> HIDE DEF Bad
  <2>2. QED
    BY <1>1, <2>1, SmallestSet
<1>3. PICK x \in s : SetSum(f, s) # f[x] + SetSum(f, s \ {x})
  BY <1>2
<1> DEFINE c == Chosen(s)
           r == s \ {c}
           q == s \ {x}
<1>4. SetSum(f, s) = f[c] + SetSum(f, r) /\ c \in s
  BY <1>2, SetSumChosen, ChosenRemoved
<1>5. c # x
  BY <1>3, <1>4
<1>6. x \in r /\ c \in q /\ r \ {x} = q \ {c}
  BY <1>4, <1>5
<1>7. /\ SetSum(f, r) = f[x] + SetSum(f, r \ {x})
      /\ SetSum(f, q) = f[c] + SetSum(f, q \ {c})
  BY <1>2, <1>4, <1>6
<1>8. f[x] \in Nat /\ f[c] \in Nat /\ SetSum(f, r \ {x}) \in Nat
  <2>1. IsFiniteSet(r \ {x})
    BY <1>2, FS_RemoveElement
  <2>2. \A z \in r \ {x} : f[z] \in Nat
    OBVIOUS
  <2> HIDE DEF r, c
  <2>3. SetSum(f, r \ {x}) \in Nat
    BY <2>1, <2>2, SetSumNatural
  <2>4. QED
    BY <1>4, <2>3
<1> HIDE DEF c, r, q
<1>9. SetSum(f, s) = f[x] + SetSum(f, q)
  <2>1. SetSum(f, q) = f[c] + SetSum(f, r \ {x})
    BY <1>6, <1>7
  <2>2. SetSum(f, s) = f[c] + (f[x] + SetSum(f, r \ {x}))
    BY <1>4, <1>7
  <2>3. QED
    BY <1>8, <2>1, <2>2
<1>10. QED
  BY <1>3, <1>9 DEF q

LEMMA SetSumZero ==
  ASSUME NEW f, NEW S, IsFiniteSet(S), \A x \in S : f[x] = 0
  PROVE  SetSum(f, S) = 0
<1> DEFINE Bad == {s \in SUBSET S : SetSum(f, s) # 0}
<1>1. SUFFICES ASSUME Bad # {} PROVE FALSE
  OBVIOUS
<1>2. PICK s \in Bad : IsFiniteSet(s) /\ \A x \in s : s \ {x} \notin Bad
  <2>1. Bad \subseteq SUBSET S
    OBVIOUS
  <2> HIDE DEF Bad
  <2>2. QED
    BY <1>1, <2>1, SmallestSet
<1>3. SetSum(f, s) = IF s = {} THEN 0
                     ELSE f[Chosen(s)] + SetSum(f, s \ {Chosen(s)})
  BY <1>2, SetSumChosen
<1>4. s # {}
  BY <1>3
<1>5. Chosen(s) \in s /\ SetSum(f, s \ {Chosen(s)}) = 0
  BY <1>2, <1>4 DEF Chosen
<1>6. QED
  BY <1>3, <1>4, <1>5

(* No term is more than the sum.                                           *)
LEMMA SetSumTerm ==
  ASSUME NEW f, NEW S, IsFiniteSet(S), \A x \in S : f[x] \in Nat, NEW y \in S
  PROVE  SetSum(f, S) \in Nat /\ f[y] <= SetSum(f, S)
<1>1. SetSum(f, S) = f[y] + SetSum(f, S \ {y})
  BY SetSumInsert
<1>2. IsFiniteSet(S \ {y})
  BY FS_RemoveElement
<1>3. SetSum(f, S \ {y}) \in Nat /\ SetSum(f, S) \in Nat
  BY <1>2, SetSumNatural
<1>4. QED
  BY <1>1, <1>3

(* Two sets that share nothing add up.                                     *)
LEMMA SetSumUnion ==
  ASSUME NEW f, NEW A, IsFiniteSet(A), NEW B, IsFiniteSet(B), A \cap B = {},
         \A x \in A \cup B : f[x] \in Nat
  PROVE  SetSum(f, A \cup B) = SetSum(f, A) + SetSum(f, B)
<1> DEFINE Bad == {s \in SUBSET A : SetSum(f, s \cup B) # SetSum(f, s) + SetSum(f, B)}
<1>1. SUFFICES ASSUME Bad # {} PROVE FALSE
  OBVIOUS
<1>2. PICK s \in Bad : IsFiniteSet(s) /\ \A x \in s : s \ {x} \notin Bad
  <2>1. Bad \subseteq SUBSET A
    OBVIOUS
  <2> HIDE DEF Bad
  <2>2. QED
    BY <1>1, <2>1, SmallestSet
<1>3. SetSum(f, B) \in Nat
  BY SetSumNatural
<1>4. s # {}
  <2>1. ASSUME s = {} PROVE FALSE
    <3>1. SetSum(f, s) = 0
      BY <1>2, <2>1, SetSumChosen
    <3>2. s \cup B = B
      BY <2>1
    <3>3. QED
      BY <1>3, <3>1, <3>2
  <2>2. QED
    BY <2>1
<1>5. PICK x \in s : TRUE
  BY <1>4
<1> DEFINE r == s \ {x}
<1>6. SetSum(f, r \cup B) = SetSum(f, r) + SetSum(f, B)
  BY <1>2
<1>7. SetSum(f, s) = f[x] + SetSum(f, r)
  BY <1>2, SetSumInsert
<1>8. SetSum(f, s \cup B) = f[x] + SetSum(f, r \cup B)
  <2>1. IsFiniteSet(s \cup B)
    BY <1>2, FS_Union
  <2>2. (s \cup B) \ {x} = r \cup B
    OBVIOUS
  <2>3. \A y \in s \cup B : f[y] \in Nat
    OBVIOUS
  <2>4. SetSum(f, s \cup B) = f[x] + SetSum(f, (s \cup B) \ {x})
    BY <2>1, <2>3, SetSumInsert
  <2>5. QED
    BY <2>2, <2>4
<1>9. SetSum(f, r) \in Nat /\ f[x] \in Nat
  <2>1. IsFiniteSet(r) /\ \A y \in r : f[y] \in Nat
    BY <1>2, FS_RemoveElement
  <2> HIDE DEF r
  <2>2. QED
    BY <2>1, SetSumNatural
<1> HIDE DEF r
<1>10. SetSum(f, s \cup B) = SetSum(f, s) + SetSum(f, B)
  BY <1>3, <1>6, <1>7, <1>8, <1>9
<1>11. QED
  BY <1>10

(* Where a function is zero, its sum may be left out.                      *)
LEMMA SetSumSupport ==
  ASSUME NEW f, NEW R, IsFiniteSet(R), NEW S, S \subseteq R,
         \A x \in R : f[x] \in Nat, \A x \in R \ S : f[x] = 0
  PROVE  SetSum(f, R) = SetSum(f, S)
<1> DEFINE Z == R \ S
<1>1. IsFiniteSet(S) /\ IsFiniteSet(Z)
  BY FS_Subset
<1>2. R = S \cup Z /\ S \cap Z = {} /\ \A x \in Z : f[x] = 0
  OBVIOUS
<1> HIDE DEF Z
<1>3. SetSum(f, S \cup Z) = SetSum(f, S) + SetSum(f, Z)
  BY <1>1, <1>2, SetSumUnion
<1>4. SetSum(f, Z) = 0 /\ SetSum(f, S) \in Nat
  BY <1>1, <1>2, SetSumZero, SetSumNatural
<1>5. SetSum(f, S \cup Z) = SetSum(f, S)
  BY <1>3, <1>4
<1>6. QED
  BY <1>2, <1>5

-----------------------------------------------------------------------------
(* Sums over intervals.                                                    *)

LEMMA IntervalEnds ==
  ASSUME NEW f, NEW a \in Int, NEW b \in Int, a <= b,
         \A j \in a .. b : f[j] \in Nat
  PROVE  /\ SetSum(f, a .. b) = SetSum(f, a .. b - 1) + f[b]
         /\ SetSum(f, a .. a - 1) = 0
         /\ SetSum(f, a .. b - 1) \in Nat
<1>1. IsFiniteSet(a .. b) /\ IsFiniteSet(a .. b - 1) /\ IsFiniteSet({})
  BY FS_Interval, FS_EmptySet
<1>2. b \in a .. b /\ (a .. b) \ {b} = a .. b - 1 /\ a .. a - 1 = {}
  OBVIOUS
<1>3. SetSum(f, a .. b) = f[b] + SetSum(f, (a .. b) \ {b})
  BY <1>1, <1>2, SetSumInsert
<1>4. SetSum(f, a .. b - 1) \in Nat
  BY <1>1, SetSumNatural
<1>5. SetSum(f, {}) = 0
  BY <1>1, SetSumChosen
<1>6. SetSum(f, a .. a - 1) = 0
  BY <1>2, <1>5
<1>7. SetSum(f, a .. b) = f[b] + SetSum(f, a .. b - 1) /\ f[b] \in Nat
  BY <1>2, <1>3
<1>8. SetSum(f, a .. b) = SetSum(f, a .. b - 1) + f[b]
  BY <1>4, <1>7
<1>9. QED
  BY <1>4, <1>6, <1>8

(* The running sums of measure_axis and populate_axis are sums of sets.    *)
LEMMA SumsOfIntervals ==
  ASSUME NEW f, NEW a \in Int, NEW b \in Int, a <= b,
         \A j \in a .. b - 1 : f[j] \in Nat
  PROVE  SumBetween(f, a, b) = SetSum(f, a .. b - 1)
<1> DEFINE P(g) == g = [n \in a .. b |-> IF n = a THEN 0
                                         ELSE g[n - 1] + f[n - 1]]
           G == [n \in a .. b |-> SetSum(f, a .. n - 1)]
           g == CHOOSE k : P(k)
<1>1. SumBetween(f, a, b) = g[b]
  BY DEF SumBetween
<1>2. ASSUME NEW n \in a .. b
      PROVE  /\ n = a => G[n] = 0
             /\ n # a => n - 1 \in a .. b /\ G[n] = G[n - 1] + f[n - 1]
  <2>1. CASE n = a
    <3>1. a .. n - 1 = {}
      BY <2>1
    <3>2. SetSum(f, {}) = 0
      BY FS_EmptySet, SetSumChosen
    <3>3. QED
      BY <2>1, <3>1, <3>2
  <2>2. CASE n # a
    <3>1. n - 1 \in Int /\ a <= n - 1 /\ n - 1 \in a .. b
      BY <2>2
    <3>2. \A j \in a .. n - 1 : f[j] \in Nat
      OBVIOUS
    <3>3. SetSum(f, a .. n - 1) = SetSum(f, a .. (n - 1) - 1) + f[n - 1]
      BY <3>1, <3>2, IntervalEnds
    <3>4. QED
      BY <2>2, <3>1, <3>3
  <2>3. QED
    BY <2>1, <2>2
<1>3. P(G)
  <2> DEFINE H == [n \in a .. b |-> IF n = a THEN 0 ELSE G[n - 1] + f[n - 1]]
  <2>1. \A n \in a .. b : G[n] = H[n]
    BY <1>2
  <2>2. G = [n \in a .. b |-> G[n]] /\ H = [n \in a .. b |-> H[n]]
    OBVIOUS
  <2> HIDE DEF G, H
  <2>3. G = H
    BY <2>1, <2>2
  <2>4. QED
    BY <2>3 DEF H
<1>4. P(g)
  <2> HIDE DEF P
  <2>1. QED
    BY <1>3
<1> HIDE DEF g, G
<1>5. \A n \in a .. b : g[n] = IF n = a THEN 0 ELSE g[n - 1] + f[n - 1]
  BY <1>4
<1> HIDE DEF P
<1> DEFINE Bad == {m \in Nat : a + m <= b /\ g[a + m] # G[a + m]}
<1>6. Bad = {}
  <2>1. SUFFICES ASSUME Bad # {} PROVE FALSE
    OBVIOUS
  <2>2. PICK m \in Bad : \A k \in Bad : m <= k
    <3>1. Bad \subseteq Nat
      OBVIOUS
    <3> HIDE DEF Bad
    <3>2. QED
      BY <2>1, <3>1, LeastNatural
  <2>3. m \in Nat /\ a + m \in a .. b /\ g[a + m] # G[a + m]
    OBVIOUS
  <2>4. m # 0
    <3>1. ASSUME m = 0 PROVE FALSE
      <4>1. a + m = a /\ a \in a .. b
        BY <3>1
      <4>2. QED
        BY <1>2, <1>5, <2>3, <4>1
    <3>2. QED
      BY <3>1
  <2>5. m - 1 \in Nat /\ a + (m - 1) = (a + m) - 1 /\ a + (m - 1) <= b
    BY <2>3, <2>4
  <2>6. m - 1 \notin Bad
    BY <2>2, <2>3
  <2>7. g[(a + m) - 1] = G[(a + m) - 1]
    BY <2>5, <2>6
  <2>8. a + m # a
    BY <2>3, <2>4
  <2>9. QED
    BY <1>2, <1>5, <2>3, <2>7, <2>8
<1>7. g[b] = G[b]
  <2>1. b - a \in Nat /\ a + (b - a) = b /\ a + (b - a) <= b
    OBVIOUS
  <2>2. \A m \in Nat : a + m <= b => g[a + m] = G[a + m]
    BY <1>6
  <2>3. g[a + (b - a)] = G[a + (b - a)]
    BY <2>1, <2>2
  <2>4. QED
    BY <2>1, <2>3
<1>8. G[b] = SetSum(f, a .. b - 1)
  BY DEF G
<1>9. QED
  BY <1>1, <1>7, <1>8

(* Halving the even factor first is exact.                                 *)
LEMMA ArithmeticTwice ==
  ASSUME NEW a \in Int, NEW n \in Nat
  PROVE  /\ ArithmeticSum(a, a + n) \in Int
         /\ 2 * ArithmeticSum(a, a + n) = (n + 1) * (2 * a + n)
<1> DEFINE e == (n + 1) \div 2
           m == (2 * a + n) \div 2
<1>1. a + n - a + 1 = n + 1 /\ a + (a + n) = 2 * a + n
  OBVIOUS
<1>2. CASE (n + 1) % 2 = 0
  <2>1. n + 1 = 2 * e /\ e \in Int
    BY <1>2
  <2>2. ArithmeticSum(a, a + n) = e * (2 * a + n)
    BY <1>1, <1>2 DEF ArithmeticSum
  <2> HIDE DEF e
  <2>3. 2 * (e * (2 * a + n)) = (2 * e) * (2 * a + n) /\ e * (2 * a + n) \in Int
    BY <2>1
  <2>4. QED
    BY <2>1, <2>2, <2>3
<1>3. CASE (n + 1) % 2 # 0
  <2>1. 2 * a + n = 2 * m /\ m \in Int
    BY <1>3
  <2>2. ArithmeticSum(a, a + n) = (n + 1) * m
    BY <1>1, <1>3 DEF ArithmeticSum
  <2> HIDE DEF m
  <2>3. 2 * ((n + 1) * m) = (n + 1) * (2 * m) /\ (n + 1) * m \in Int
    BY <2>1
  <2>4. QED
    BY <2>1, <2>2, <2>3
<1>4. QED
  BY <1>2, <1>3

LEMMA ArithmeticStep ==
  ASSUME NEW a \in Int
  PROVE  /\ ArithmeticSum(a, a) = a
         /\ \A n \in Nat \ {0} :
              /\ ArithmeticSum(a, a + n) \in Int
              /\ ArithmeticSum(a, a + (n - 1)) \in Int
              /\ ArithmeticSum(a, a + n) =
                   ArithmeticSum(a, a + (n - 1)) + (a + n)
<1>1. ArithmeticSum(a, a) = a
  <2>1. a + 0 = a /\ (0 + 1) * (2 * a + 0) = 2 * a
    OBVIOUS
  <2>2. ArithmeticSum(a, a + 0) \in Int /\ 2 * ArithmeticSum(a, a + 0) = 2 * a
    BY <2>1, ArithmeticTwice
  <2>3. QED
    BY <2>1, <2>2
<1>2. ASSUME NEW n \in Nat \ {0}
      PROVE  /\ ArithmeticSum(a, a + n) \in Int
             /\ ArithmeticSum(a, a + (n - 1)) \in Int
             /\ ArithmeticSum(a, a + n) =
                  ArithmeticSum(a, a + (n - 1)) + (a + n)
  <2>1. n - 1 \in Nat /\ (n - 1) + 1 = n
    OBVIOUS
  <2> DEFINE x == ArithmeticSum(a, a + n)
             y == ArithmeticSum(a, a + (n - 1))
  <2>2. /\ x \in Int /\ 2 * x = (n + 1) * (2 * a + n)
        /\ y \in Int /\ 2 * y = n * (2 * a + (n - 1))
    BY <2>1, ArithmeticTwice
  <2>3. (n + 1) * (2 * a + n) = n * (2 * a + (n - 1)) + 2 * (a + n)
    <3>1. (n + 1) * (2 * a + n) = n * (2 * a + n) + (2 * a + n)
      OBVIOUS
    <3>2. n * (2 * a + (n - 1)) = n * (2 * a + n) - n
      OBVIOUS
    <3>3. n * (2 * a + n) \in Int
      OBVIOUS
    <3>4. QED
      BY <3>1, <3>2, <3>3
  <2>4. n * (2 * a + (n - 1)) \in Int
    OBVIOUS
  <2> HIDE DEF x, y
  <2>5. x = y + (a + n)
    BY <2>2, <2>3, <2>4
  <2>6. QED
    BY <2>2, <2>5 DEF x, y
<1>3. QED
  BY <1>1, <1>2

(* Terms on a line add up to the closed form of the edge folds.            *)
OnLine(f, a, b, p, d) == \A j \in a .. b : f[j] \in Nat /\ f[j] = p + d * j

LEMMA LinearSum ==
  ASSUME NEW f, NEW a \in Int, NEW b \in Int, a <= b,
         NEW p \in Int, NEW d \in Int, OnLine(f, a, b, p, d)
  PROVE  SetSum(f, a .. b) = (b - a + 1) * p + d * ArithmeticSum(a, b)
<1> DEFINE Form(n) == (n + 1) * p + d * ArithmeticSum(a, a + n)
           Bad == {n \in Nat : a + n <= b /\ SetSum(f, a .. a + n) # Form(n)}
<1>1. Bad = {}
  <2>1. SUFFICES ASSUME Bad # {} PROVE FALSE
    OBVIOUS
  <2>2. PICK n \in Bad : \A k \in Bad : n <= k
    <3>1. Bad \subseteq Nat
      OBVIOUS
    <3> HIDE DEF Bad
    <3>2. QED
      BY <2>1, <3>1, LeastNatural
  <2>3. n \in Nat /\ a + n \in a .. b /\ SetSum(f, a .. a + n) # Form(n)
    OBVIOUS
  <2>4. /\ f[a + n] \in Nat /\ f[a + n] = p + d * (a + n)
        /\ d * (a + n) \in Int
    BY <2>3 DEF OnLine
  <2>5. /\ SetSum(f, a .. a + n) = SetSum(f, a .. (a + n) - 1) + f[a + n]
        /\ SetSum(f, a .. a - 1) = 0
        /\ SetSum(f, a .. (a + n) - 1) \in Nat
    <3>1. a + n \in Int /\ a <= a + n /\ \A j \in a .. a + n : f[j] \in Nat
      BY <2>3 DEF OnLine
    <3>2. QED
      BY <3>1, IntervalEnds
  <2>6. CASE n = 0
    <3>1. Form(n) = p + d * a
      <4>1. a + n = a /\ (n + 1) * p = p
        BY <2>6
      <4>2. QED
        BY <4>1, ArithmeticStep
    <3>2. (a + n) - 1 = a - 1 /\ a + n = a
      BY <2>6
    <3> HIDE DEF Form
    <3>3. QED
      BY <2>3, <2>4, <2>5, <3>1, <3>2
  <2>7. CASE n # 0
    <3>1. n - 1 \in Nat /\ a + (n - 1) = (a + n) - 1 /\ a + (n - 1) <= b
      BY <2>3, <2>7
    <3>2. n - 1 \notin Bad
      <4> HIDE DEF Bad
      <4>1. QED
        BY <2>2, <2>3, <3>1
    <3>3. SetSum(f, a .. (a + n) - 1) = Form(n - 1)
      BY <3>1, <3>2
    <3> DEFINE x == ArithmeticSum(a, a + n)
               y == ArithmeticSum(a, a + (n - 1))
    <3>4. x \in Int /\ y \in Int /\ x = y + (a + n)
      BY <2>3, <2>7, ArithmeticStep
    <3>5. Form(n) = (n + 1) * p + d * x /\ Form(n - 1) = n * p + d * y
      BY <3>1
    <3> HIDE DEF x, y, Form
    <3>6. d * x = d * y + d * (a + n)
      <4>1. d * (y + (a + n)) = d * y + d * (a + n)
        BY <2>3, <3>4
      <4>2. QED
        BY <3>4, <4>1
    <3>7. (n + 1) * p = n * p + p /\ n * p \in Int /\ d * y \in Int
      BY <2>3, <3>4
    <3>8. QED
      BY <2>3, <2>4, <2>5, <3>3, <3>5, <3>6, <3>7
  <2>8. QED
    BY <2>6, <2>7
<1>2. b - a \in Nat /\ a + (b - a) = b /\ a + (b - a) <= b
  OBVIOUS
<1>3. \A n \in Nat : a + n <= b => SetSum(f, a .. a + n) = Form(n)
  BY <1>1
<1>4. SetSum(f, a .. a + (b - a)) = Form(b - a)
  <2> HIDE DEF Form
  <2>1. QED
    BY <1>2, <1>3
<1>5. QED
  BY <1>2, <1>4

(* What a function maps to a value, and into a set of values.              *)
Fiber(R, e, k) == {j \in R : e[j] = k}

Fibers(R, e, K) == {j \in R : e[j] \in K}

SumsFibers(g, f, R, e, K) == \A k \in K : g[k] = SetSum(f, Fiber(R, e, k))

(* Sums of parts of a set add up to the sum of the parts together.         *)
LEMMA FibersAddUp ==
  ASSUME NEW f, NEW R, IsFiniteSet(R), \A j \in R : f[j] \in Nat,
         NEW e, NEW K, IsFiniteSet(K), NEW g, SumsFibers(g, f, R, e, K)
  PROVE  SetSum(g, K) = SetSum(f, Fibers(R, e, K))
<1> USE DEF Fiber, Fibers, SumsFibers
<1> DEFINE Part(s) == Fibers(R, e, s)
           Bad == {s \in SUBSET K : SetSum(g, s) # SetSum(f, Part(s))}
<1>1. SUFFICES ASSUME Bad # {} PROVE FALSE
  OBVIOUS
<1>2. PICK s \in Bad : IsFiniteSet(s) /\ \A x \in s : s \ {x} \notin Bad
  <2>1. Bad \subseteq SUBSET K
    OBVIOUS
  <2> HIDE DEF Bad
  <2>2. QED
    BY <1>1, <2>1, SmallestSet
<1>3. s \subseteq K /\ SetSum(g, s) # SetSum(f, Part(s))
  OBVIOUS
<1>4. s # {}
  <2>1. ASSUME s = {} PROVE FALSE
    <3>1. Part(s) = {}
      BY <2>1
    <3>2. SetSum(g, {}) = 0 /\ SetSum(f, {}) = 0
      BY FS_EmptySet, SetSumChosen
    <3> HIDE DEF Part
    <3>3. QED
      BY <1>3, <2>1, <3>1, <3>2
  <2>2. QED
    BY <2>1
<1>5. PICK x \in s : TRUE
  BY <1>4
<1> DEFINE r == s \ {x}
           A == Fiber(R, e, x)
           B == Part(r)
<1>6. Part(s) = A \cup B /\ A \cap B = {} /\ A \subseteq R /\ B \subseteq R
  OBVIOUS
<1>7. IsFiniteSet(A) /\ IsFiniteSet(B)
  BY <1>6, FS_Subset
<1>8. g[x] = SetSum(f, A) /\ x \in s
  BY <1>3, <1>5
<1>9. SetSum(g, r) = SetSum(f, B)
  BY <1>2, <1>3
<1>10. \A k \in s : g[k] \in Nat
  <2>1. SUFFICES ASSUME NEW k \in s PROVE g[k] \in Nat
    OBVIOUS
  <2> DEFINE F == Fiber(R, e, k)
  <2>2. F \subseteq R /\ g[k] = SetSum(f, F)
    BY <1>3
  <2> HIDE DEF F
  <2>3. IsFiniteSet(F)
    BY <2>2, FS_Subset
  <2>4. SetSum(f, F) \in Nat
    BY <2>2, <2>3, SetSumNatural
  <2>5. QED
    BY <2>2, <2>4
<1>11. SetSum(g, s) = g[x] + SetSum(g, r)
  BY <1>2, <1>8, <1>10, SetSumInsert
<1> HIDE DEF A, B, r, Part
<1>12. SetSum(f, A \cup B) = SetSum(f, A) + SetSum(f, B)
  BY <1>6, <1>7, SetSumUnion
<1>13. SetSum(g, s) = SetSum(f, Part(s))
  BY <1>6, <1>8, <1>9, <1>11, <1>12
<1>14. QED
  BY <1>3, <1>13

-----------------------------------------------------------------------------
(* The triangle of a destination pixel, unfolded.                          *)

LEMMA DivideOrder ==
  ASSUME NEW n \in Int, NEW d \in Nat, d > 0, NEW j \in Int
  PROVE  n \div d \in Int /\ (j <= n \div d <=> d * j <= n)
<1> DEFINE q == n \div d
<1>1. q \in Int /\ d * q <= n /\ n < d * q + d
  OBVIOUS
<1> HIDE DEF q
<1>2. d * q \in Int /\ d * j \in Int
  BY <1>1
<1>3. ASSUME j <= q PROVE d * j <= n
  <2>1. q - j \in Nat
    BY <1>1, <1>3
  <2>2. d * (q - j) \in Nat /\ d * (q - j) = d * q - d * j
    BY <1>1, <2>1
  <2>3. QED
    BY <1>1, <1>2, <2>2
<1>4. ASSUME d * j <= n PROVE j <= q
  <2>1. SUFFICES ASSUME j - (q + 1) \in Nat PROVE FALSE
    BY <1>1
  <2>2. d * (j - (q + 1)) \in Nat /\ d * (j - (q + 1)) = d * j - d * q - d
    BY <1>1, <2>1
  <2>3. QED
    BY <1>1, <1>2, <1>4, <2>2
<1>5. QED
  BY <1>1, <1>3, <1>4 DEF q

(* The weight of any index, of the source or not.                          *)
Peak(j, i, from, to) ==
  LET bounds == AxisBounds(i, from, to)
  IN  IF j \in bounds.first .. bounds.last THEN RawWeight(j, i, from, to) ELSE 0

Peaks(i, from, to, R) == [j \in R |-> Peak(j, i, from, to)]

(* The bounds of a span hold what is strictly inside the triangle; left of *)
(* the source the triangle rises, right of it it falls.                    *)
LEMMA PeakShape ==
  ASSUME NEW from \in Nat \ {0}, NEW to \in Nat \ {0}, NEW i \in 0 .. to - 1,
         NEW j \in Int
  PROVE  LET c == CenterNumerator(i, from, to)
             s == Support(from, to)
             d == Denominator(to)
             bounds == AxisBounds(i, from, to)
         IN  /\ c \in Int /\ s \in Nat /\ d \in Nat /\ d > 0 /\ d * j \in Int
             /\ bounds.first \in Int /\ bounds.last \in Int
             /\ bounds.first <= j <=> c - s < d * j
             /\ j <= bounds.last <=> d * j < c + s
             /\ j < 0 => d * j < c
             /\ j >= from => d * j > c
             /\ Peak(j, i, from, to) \in Nat
             /\ j \in bounds.first .. bounds.last =>
                  /\ Peak(j, i, from, to) > 0
                  /\ d * j < c => Peak(j, i, from, to) = (s - c) + d * j
                  /\ d * j >= c => Peak(j, i, from, to) = (s + c) - d * j
             /\ j \notin bounds.first .. bounds.last => Peak(j, i, from, to) = 0
<1> DEFINE c == CenterNumerator(i, from, to)
           s == Support(from, to)
           d == Denominator(to)
           first == AxisBounds(i, from, to).first
           last == AxisBounds(i, from, to).last
           x == i * from
           y == j * to
<1>1. d = 2 * to /\ d \in Nat /\ d > 0 /\ s \in Nat
  BY DEF Denominator, Support
<1>2. x \in Nat /\ c = 2 * x + from - to /\ c \in Int
  <2>1. (2 * i + 1) * from = 2 * x + from /\ x \in Nat
    OBVIOUS
  <2>2. QED
    BY <2>1 DEF CenterNumerator
<1>3. y \in Int /\ d * j = 2 * y
  BY <1>1
<1>4. first = (c - s) \div d + 1 /\ last = (c + s - 1) \div d
  BY DEF AxisBounds
<1>5. RawWeight(j, i, from, to) =
        s - (IF d * j - c >= 0 THEN d * j - c ELSE -(d * j - c))
  BY DEF RawWeight
<1>6. Peak(j, i, from, to) =
        IF j \in first .. last THEN RawWeight(j, i, from, to) ELSE 0
  BY DEF Peak
<1>7. x <= (to - 1) * from /\ (to - 1) * from = from * to - from
  <2>1. i * from <= (to - 1) * from
    BY ProductMonotone
  <2>2. QED
    BY <2>1
<1>8. from * to \in Nat
  OBVIOUS
<1>9. j < 0 => y <= -to
  <2>1. SUFFICES ASSUME -j - 1 \in Nat PROVE y <= -to
    OBVIOUS
  <2>2. (-j - 1) * to \in Nat /\ (-j - 1) * to = -y - to
    BY <2>1
  <2> HIDE DEF y
  <2>3. QED
    BY <1>3, <2>2
<1>10. j >= from => y >= from * to
  <2>1. SUFFICES ASSUME j - from \in Nat PROVE y >= from * to
    OBVIOUS
  <2>2. (j - from) * to \in Nat /\ (j - from) * to = y - from * to
    BY <2>1
  <2> HIDE DEF y
  <2>3. QED
    BY <1>3, <1>8, <2>2
<1> HIDE DEF c, s, d, x, y, first, last
<1>11. j < 0 => d * j < c
  BY <1>2, <1>3, <1>9
<1>12. j >= from => d * j > c
  BY <1>2, <1>3, <1>7, <1>8, <1>10
<1>13. /\ first \in Int /\ last \in Int
       /\ first <= j <=> c - s < d * j
       /\ j <= last <=> d * j < c + s
  <2>1. c - s \in Int /\ c + s - 1 \in Int /\ d * j \in Int
    BY <1>1, <1>2, <1>3
  <2>2. /\ (c - s) \div d \in Int
        /\ j <= (c - s) \div d <=> d * j <= c - s
    BY <1>1, <2>1, DivideOrder
  <2>3. /\ (c + s - 1) \div d \in Int
        /\ j <= (c + s - 1) \div d <=> d * j <= c + s - 1
    BY <1>1, <2>1, DivideOrder
  <2>4. first \in Int /\ (first <= j <=> c - s < d * j)
    BY <1>1, <1>2, <1>4, <2>1, <2>2
  <2>5. last \in Int /\ (j <= last <=> d * j < c + s)
    BY <1>1, <1>2, <1>4, <2>1, <2>3
  <2>6. QED
    BY <2>4, <2>5
<1>14. ASSUME j \in first .. last
       PROVE  /\ Peak(j, i, from, to) \in Nat /\ Peak(j, i, from, to) > 0
              /\ d * j < c => Peak(j, i, from, to) = (s - c) + d * j
              /\ d * j >= c => Peak(j, i, from, to) = (s + c) - d * j
  <2>1. c - s < d * j /\ d * j < c + s /\ d * j \in Int
    BY <1>3, <1>13, <1>14
  <2>2. Peak(j, i, from, to) =
          s - (IF d * j - c >= 0 THEN d * j - c ELSE -(d * j - c))
    BY <1>5, <1>6, <1>14
  <2>3. QED
    BY <1>1, <1>2, <2>1, <2>2
<1>15. j \notin first .. last => Peak(j, i, from, to) = 0
  BY <1>6
<1>16. QED
  BY <1>1, <1>2, <1>3, <1>11, <1>12, <1>13, <1>14, <1>15
     DEF c, s, d, first, last

(* The weight an edge tap folds in from the left is that of every index    *)
(* left of the source, and likewise on the right.                          *)
LEMMA LeftFold ==
  ASSUME NEW from \in Nat \ {0}, NEW to \in Nat \ {0}, NEW i \in 0 .. to - 1,
         NEW R, IsFiniteSet(R), R \subseteq Int,
         LET bounds == AxisBounds(i, from, to)
         IN  bounds.first .. bounds.last \subseteq R
  PROVE  LET bounds == AxisBounds(i, from, to)
         IN  SetSum(Peaks(i, from, to, R), {j \in R : j < 0}) =
               IF bounds.first < 0
                 THEN LeftOutsideWeight(
                        bounds.first, IF bounds.last < -1 THEN bounds.last ELSE -1,
                        i, from, to)
                 ELSE 0
<1> DEFINE c == CenterNumerator(i, from, to)
           s == Support(from, to)
           d == Denominator(to)
           first == AxisBounds(i, from, to).first
           last == AxisBounds(i, from, to).last
           f == Peaks(i, from, to, R)
           B == {j \in R : j < 0}
           e == IF last < -1 THEN last ELSE -1
<1>1. ASSUME NEW j \in R
      PROVE  /\ j \in Int /\ f[j] \in Nat
             /\ j < 0 /\ j \in first .. last =>
                  f[j] = (s - c) + d * j
             /\ j \notin first .. last => f[j] = 0
  <2>1. j \in Int /\ f[j] = Peak(j, i, from, to)
    BY DEF Peaks
  <2>2. /\ j < 0 => d * j < c
        /\ Peak(j, i, from, to) \in Nat
        /\ j \in first .. last =>
             (d * j < c => Peak(j, i, from, to) = (s - c) + d * j)
        /\ j \notin first .. last => Peak(j, i, from, to) = 0
    BY <2>1, PeakShape
  <2> HIDE DEF f, c, s, d, first, last
  <2>3. QED
    BY <2>1, <2>2
<1>2. /\ first \in Int /\ last \in Int /\ first <= last
      /\ c \in Int /\ s \in Nat /\ d \in Nat
  <2>1. 0 \in Int
    OBVIOUS
  <2>2. QED
    BY <2>1, BoundsOrdered, PeakShape
<1>3. LeftOutsideWeight(first, e, i, from, to) =
        IF first > e THEN 0
        ELSE (e - first + 1) * (s - c) + d * ArithmeticSum(first, e)
  BY DEF LeftOutsideWeight
<1>4. first .. last \subseteq R /\ B \subseteq R
  OBVIOUS
<1>5. IsFiniteSet(B)
  BY <1>4, FS_Subset
<1>6. \A j \in B : j \in R /\ j < 0
  OBVIOUS
<1>7. ASSUME NEW j \in R, j < 0 PROVE j \in B
  BY <1>7
<1> HIDE DEF c, s, d, first, last, f, B
<1>8. CASE first < 0
  <2>1. e \in Int /\ first <= e /\ e <= -1 /\ e <= last
    BY <1>2, <1>8
  <2>2. first .. e \subseteq B
    <3>1. SUFFICES ASSUME NEW j \in first .. e PROVE j \in B
      OBVIOUS
    <3>2. j \in first .. last /\ j < 0
      BY <1>2, <2>1
    <3>3. QED
      BY <1>4, <1>7, <3>2
  <2>3. ASSUME NEW j \in first .. e
        PROVE  f[j] \in Nat /\ f[j] = (s - c) + d * j
    <3>1. j \in R /\ j < 0 /\ j \in first .. last
      BY <1>2, <1>6, <2>1, <2>2
    <3>2. QED
      BY <1>1, <3>1
  <2>4. ASSUME NEW j \in B \ (first .. e) PROVE f[j] = 0
    <3>1. j \in R /\ j < 0 /\ j \in Int
      BY <1>1, <1>6
    <3>2. j \notin first .. last
      BY <1>2, <3>1, <2>1
    <3>3. QED
      BY <1>1, <3>1, <3>2
  <2>5. \A j \in B : f[j] \in Nat
    BY <1>1, <1>6
  <2> HIDE DEF e
  <2>6. SetSum(f, B) = SetSum(f, first .. e)
    BY <1>5, <2>2, <2>4, <2>5, SetSumSupport
  <2>7. SetSum(f, first .. e) =
          (e - first + 1) * (s - c) + d * ArithmeticSum(first, e)
    <3> DEFINE p == s - c
    <3>1. p \in Int /\ d \in Int
      BY <1>2
    <3>2. OnLine(f, first, e, p, d)
      BY <2>3 DEF OnLine
    <3> HIDE DEF p
    <3>3. SetSum(f, first .. e) =
            (e - first + 1) * p + d * ArithmeticSum(first, e)
      BY <1>2, <2>1, <3>1, <3>2, LinearSum
    <3>4. QED
      BY <3>3 DEF p
  <2>8. ~(first > e)
    BY <1>2, <2>1
  <2>9. SetSum(f, B) = LeftOutsideWeight(first, e, i, from, to)
    BY <1>3, <2>6, <2>7, <2>8
  <2>10. QED
    BY <1>8, <2>9 DEF f, B, first, last, e
<1>9. CASE ~(first < 0)
  <2>1. ASSUME NEW j \in B PROVE f[j] = 0
    <3>1. j \in R /\ j < 0 /\ j \in Int
      BY <1>1, <1>6
    <3>2. j \notin first .. last
      BY <1>2, <1>9, <3>1
    <3>3. QED
      BY <1>1, <3>1, <3>2
  <2>2. SetSum(f, B) = 0
    BY <1>5, <2>1, SetSumZero
  <2>3. QED
    BY <1>9, <2>2 DEF f, B, first
<1>10. QED
  BY <1>8, <1>9

LEMMA RightFold ==
  ASSUME NEW from \in Nat \ {0}, NEW to \in Nat \ {0}, NEW i \in 0 .. to - 1,
         NEW R, IsFiniteSet(R), R \subseteq Int,
         LET bounds == AxisBounds(i, from, to)
         IN  bounds.first .. bounds.last \subseteq R
  PROVE  LET bounds == AxisBounds(i, from, to)
         IN  SetSum(Peaks(i, from, to, R), {j \in R : j >= from}) =
               IF bounds.last >= from
                 THEN RightOutsideWeight(
                        IF bounds.first > from THEN bounds.first ELSE from,
                        bounds.last, i, from, to)
                 ELSE 0
<1> DEFINE c == CenterNumerator(i, from, to)
           s == Support(from, to)
           d == Denominator(to)
           first == AxisBounds(i, from, to).first
           last == AxisBounds(i, from, to).last
           f == Peaks(i, from, to, R)
           B == {j \in R : j >= from}
           e == IF first > from THEN first ELSE from
<1>1. ASSUME NEW j \in R
      PROVE  /\ j \in Int /\ f[j] \in Nat
             /\ j >= from /\ j \in first .. last =>
                  f[j] = (s + c) + (-d) * j
             /\ j \notin first .. last => f[j] = 0
  <2>1. j \in Int /\ f[j] = Peak(j, i, from, to)
    BY DEF Peaks
  <2>2. /\ c \in Int /\ s \in Nat /\ d \in Nat /\ d * j \in Int
        /\ j >= from => d * j > c
        /\ Peak(j, i, from, to) \in Nat
        /\ j \in first .. last =>
             (d * j >= c => Peak(j, i, from, to) = (s + c) - d * j)
        /\ j \notin first .. last => Peak(j, i, from, to) = 0
    BY <2>1, PeakShape
  <2> HIDE DEF f, c, s, d, first, last
  <2>3. (-d) * j = -(d * j)
    BY <2>1, <2>2
  <2>4. QED
    BY <2>1, <2>2, <2>3
<1>2. /\ first \in Int /\ last \in Int /\ first <= last
      /\ c \in Int /\ s \in Nat /\ d \in Nat
  <2>1. 0 \in Int
    OBVIOUS
  <2>2. QED
    BY <2>1, BoundsOrdered, PeakShape
<1>3. RightOutsideWeight(e, last, i, from, to) =
        IF e > last THEN 0
        ELSE (last - e + 1) * (s + c) - d * ArithmeticSum(e, last)
  BY DEF RightOutsideWeight
<1>4. first .. last \subseteq R /\ B \subseteq R
  OBVIOUS
<1>5. IsFiniteSet(B)
  BY <1>4, FS_Subset
<1>6. \A j \in B : j \in R /\ j >= from
  OBVIOUS
<1>7. ASSUME NEW j \in R, j >= from PROVE j \in B
  BY <1>7
<1> HIDE DEF c, s, d, first, last, f, B
<1>8. CASE last >= from
  <2>1. e \in Int /\ first <= e /\ from <= e /\ e <= last
    BY <1>2, <1>8
  <2>2. e .. last \subseteq B
    <3>1. SUFFICES ASSUME NEW j \in e .. last PROVE j \in B
      OBVIOUS
    <3>2. j \in first .. last /\ j >= from
      BY <1>2, <2>1
    <3>3. QED
      BY <1>4, <1>7, <3>2
  <2>3. ASSUME NEW j \in e .. last
        PROVE  f[j] \in Nat /\ f[j] = (s + c) + (-d) * j
    <3>1. j \in R /\ j >= from /\ j \in first .. last
      BY <1>2, <1>6, <2>1, <2>2
    <3>2. QED
      BY <1>1, <3>1
  <2>4. ASSUME NEW j \in B \ (e .. last) PROVE f[j] = 0
    <3>1. j \in R /\ j >= from /\ j \in Int
      BY <1>1, <1>6
    <3>2. j \notin first .. last
      BY <1>2, <3>1, <2>1
    <3>3. QED
      BY <1>1, <3>1, <3>2
  <2>5. \A j \in B : f[j] \in Nat
    BY <1>1, <1>6
  <2>6. ArithmeticSum(e, last) \in Int
    <3>1. last - e \in Nat /\ e + (last - e) = last
      BY <1>2, <2>1
    <3> HIDE DEF e
    <3>2. ArithmeticSum(e, e + (last - e)) \in Int
      BY <2>1, <3>1, ArithmeticTwice
    <3>3. QED
      BY <3>1, <3>2
  <2> HIDE DEF e
  <2>7. SetSum(f, B) = SetSum(f, e .. last)
    BY <1>5, <2>2, <2>4, <2>5, SetSumSupport
  <2>8. SetSum(f, e .. last) =
          (last - e + 1) * (s + c) + (-d) * ArithmeticSum(e, last)
    <3> DEFINE p == s + c
               q == -d
    <3>1. p \in Int /\ q \in Int
      BY <1>2
    <3>2. OnLine(f, e, last, p, q)
      BY <2>3 DEF OnLine
    <3> HIDE DEF p, q
    <3>3. SetSum(f, e .. last) =
            (last - e + 1) * p + q * ArithmeticSum(e, last)
      BY <1>2, <2>1, <3>1, <3>2, LinearSum
    <3>4. QED
      BY <3>3 DEF p, q
  <2>9. /\ (-d) * ArithmeticSum(e, last) = -(d * ArithmeticSum(e, last))
        /\ d * ArithmeticSum(e, last) \in Int
    BY <1>2, <2>6
  <2>10. ~(e > last) /\ (last - e + 1) * (s + c) \in Int
    BY <1>2, <2>1
  <2>11. SetSum(f, B) = RightOutsideWeight(e, last, i, from, to)
    BY <1>3, <2>7, <2>8, <2>9, <2>10
  <2>12. QED
    BY <1>8, <2>11 DEF f, B, first, last, e
<1>9. CASE ~(last >= from)
  <2>1. ASSUME NEW j \in B PROVE f[j] = 0
    <3>1. j \in R /\ j >= from /\ j \in Int
      BY <1>1, <1>6
    <3>2. j \notin first .. last
      BY <1>2, <1>9, <3>1
    <3>3. QED
      BY <1>1, <3>1, <3>2
  <2>2. SetSum(f, B) = 0
    BY <1>5, <2>1, SetSumZero
  <2>3. QED
    BY <1>9, <2>2 DEF f, B, last
<1>10. QED
  BY <1>8, <1>9

(* What clamps to an index, and what clamps it.                            *)
ClampedOnto(k, from, R) == {j \in R : ToEdge(j, from) = k}

Edges(from, R) == [j \in R |-> ToEdge(j, from)]

(* A tap's weight is that of every index that clamps to it.                *)
LEMMA TapsFold ==
  ASSUME NEW from \in Nat \ {0}, NEW to \in Nat \ {0}, NEW i \in 0 .. to - 1,
         NEW R, IsFiniteSet(R), R \subseteq Int, 0 .. from - 1 \subseteq R,
         LET bounds == AxisBounds(i, from, to)
         IN  bounds.first .. bounds.last \subseteq R,
         NEW k \in 0 .. from - 1
  PROVE  TapWeight(k, i, from, to) =
           SetSum(Peaks(i, from, to, R), ClampedOnto(k, from, R))
<1> DEFINE bounds == AxisBounds(i, from, to)
           f == Peaks(i, from, to, R)
           L == {j \in R : j < 0}
           H == {j \in R : j >= from}
           F == ClampedOnto(k, from, R)
           X == IF k = 0 THEN L ELSE {}
           Y == IF k = from - 1 THEN H ELSE {}
           left == IF k = 0 /\ bounds.first < 0
                     THEN LeftOutsideWeight(
                            bounds.first,
                            IF bounds.last < -1 THEN bounds.last ELSE -1,
                            i, from, to)
                     ELSE 0
           right == IF k = from - 1 /\ bounds.last >= from
                      THEN RightOutsideWeight(
                             IF bounds.first > from THEN bounds.first ELSE from,
                             bounds.last, i, from, to)
                      ELSE 0
<1>1. TapWeight(k, i, from, to) = f[k] + left + right
  <2>1. f[k] = Peak(k, i, from, to)
    BY DEF Peaks
  <2>2. QED
    BY <2>1 DEF TapWeight, Peak
<1>2. /\ k = 0 => SetSum(f, L) = left
      /\ k # 0 => left = 0
  <2>1. SetSum(f, L) =
          IF bounds.first < 0
            THEN LeftOutsideWeight(
                   bounds.first, IF bounds.last < -1 THEN bounds.last ELSE -1,
                   i, from, to)
            ELSE 0
    BY LeftFold
  <2> HIDE DEF bounds, f, L
  <2>2. QED
    BY <2>1
<1>3. /\ k = from - 1 => SetSum(f, H) = right
      /\ k # from - 1 => right = 0
  <2>1. SetSum(f, H) =
          IF bounds.last >= from
            THEN RightOutsideWeight(
                   IF bounds.first > from THEN bounds.first ELSE from,
                   bounds.last, i, from, to)
            ELSE 0
    BY RightFold
  <2> HIDE DEF bounds, f, H
  <2>2. QED
    BY <2>1
<1>4. ASSUME NEW j \in R PROVE f[j] \in Nat
  <2>1. j \in Int /\ f[j] = Peak(j, i, from, to)
    BY DEF Peaks
  <2> HIDE DEF f
  <2>2. QED
    BY <2>1, PeakShape
<1>5. /\ X \subseteq R /\ Y \subseteq R /\ k \in R
      /\ {k} \cap X = {} /\ ({k} \cup X) \cap Y = {}
  <2>1. k \in Int /\ from \in Int /\ k >= 0 /\ k < from
    OBVIOUS
  <2>2. \A j \in R : j \in Int
    OBVIOUS
  <2>3. X \subseteq R /\ Y \subseteq R /\ k \in R
    OBVIOUS
  <2>4. k \notin X /\ k \notin Y
    BY <2>1
  <2>5. X \cap Y = {}
    <3>1. \A j \in R : ~(j < 0 /\ j >= from)
      BY <2>1, <2>2
    <3>2. L \cap H = {}
      BY <3>1
    <3>3. X \subseteq L /\ Y \subseteq H
      OBVIOUS
    <3> HIDE DEF X, Y, L, H
    <3>4. QED
      BY <3>2, <3>3
  <2> HIDE DEF X, Y
  <2>6. QED
    BY <2>3, <2>4, <2>5
<1>6. F = ({k} \cup X) \cup Y
  <2>1. ASSUME NEW j \in R
        PROVE  ToEdge(j, from) = k <=>
                 j = k \/ (k = 0 /\ j < 0) \/ (k = from - 1 /\ j >= from)
    <3>1. j \in Int /\ k \in Int /\ from \in Int /\ 0 <= k /\ k <= from - 1
      OBVIOUS
    <3>2. QED
      BY <3>1 DEF ToEdge
  <2>2. k \in R
    OBVIOUS
  <2>3. QED
    BY <2>1, <2>2 DEF ClampedOnto
<1>7. IsFiniteSet(X) /\ IsFiniteSet(Y) /\ IsFiniteSet({k})
  BY <1>5, FS_Subset, FS_Singleton
<1>8. k = 0 => X = L
  OBVIOUS
<1>9. k # 0 => X = {}
  OBVIOUS
<1>10. k = from - 1 => Y = H
  OBVIOUS
<1>11. k # from - 1 => Y = {}
  OBVIOUS
<1> HIDE DEF f, L, H, F, X, Y, left, right
<1>12. SetSum(f, {}) = 0
  BY FS_EmptySet, SetSumChosen
<1>13. SetSum(f, X) = left /\ SetSum(f, Y) = right
  BY <1>2, <1>3, <1>8, <1>9, <1>10, <1>11, <1>12
<1>14. SetSum(f, {k}) = f[k]
  <2>1. {k} \ {k} = {} /\ k \in {k} /\ \A x \in {k} : f[x] \in Nat
    BY <1>4, <1>5
  <2>2. SetSum(f, {k}) = f[k] + SetSum(f, {k} \ {k})
    BY <1>7, <2>1, SetSumInsert
  <2>3. f[k] \in Nat
    BY <2>1
  <2>4. QED
    BY <1>12, <2>1, <2>2, <2>3
<1>15. SetSum(f, {k} \cup X) = f[k] + left
  <2>1. \A x \in {k} \cup X : f[x] \in Nat
    BY <1>4, <1>5
  <2>2. SetSum(f, {k} \cup X) = SetSum(f, {k}) + SetSum(f, X)
    BY <1>5, <1>7, <2>1, SetSumUnion
  <2>3. QED
    BY <1>13, <1>14, <2>2
<1>16. SetSum(f, ({k} \cup X) \cup Y) = f[k] + left + right
  <2>1. \A x \in ({k} \cup X) \cup Y : f[x] \in Nat
    BY <1>4, <1>5
  <2>2. IsFiniteSet({k} \cup X)
    BY <1>7, FS_Union
  <2>3. SetSum(f, ({k} \cup X) \cup Y) = SetSum(f, {k} \cup X) + SetSum(f, Y)
    BY <1>5, <1>7, <2>1, <2>2, SetSumUnion
  <2>4. QED
    BY <1>13, <1>15, <2>3
<1>17. QED
  BY <1>1, <1>6, <1>16 DEF f, F

(* A span holds the indices to which part of the triangle clamps.          *)
LEMMA TapsReached ==
  ASSUME NEW from \in Nat \ {0}, NEW to \in Nat \ {0}, NEW i \in 0 .. to - 1,
         NEW k \in 0 .. from - 1
  PROVE  LET bounds == AxisBounds(i, from, to)
         IN  k \in TapIndices(i, from, to) <=>
               \E j \in bounds.first .. bounds.last : ToEdge(j, from) = k
<1> DEFINE first == AxisBounds(i, from, to).first
           last == AxisBounds(i, from, to).last
<1>1. /\ first \in Int /\ last \in Int /\ first <= last
      /\ TapIndices(i, from, to) = ToEdge(first, from) .. ToEdge(last, from)
  BY BoundsOrdered DEF TapIndices, AxisBounds
<1> HIDE DEF first, last
<1>2. ASSUME NEW j \in first .. last
      PROVE  ToEdge(j, from) \in ToEdge(first, from) .. ToEdge(last, from)
  BY <1>1 DEF ToEdge
<1>3. ASSUME k \in ToEdge(first, from) .. ToEdge(last, from)
      PROVE  \E j \in first .. last : ToEdge(j, from) = k
  <2>1. CASE first <= k /\ k <= last
    <3>1. k \in first .. last /\ ToEdge(k, from) = k
      BY <1>1, <2>1 DEF ToEdge
    <3>2. QED
      BY <3>1
  <2>2. CASE k < first
    <3>1. first \in first .. last /\ ToEdge(first, from) = k
      BY <1>1, <1>3, <2>2 DEF ToEdge
    <3>2. QED
      BY <3>1
  <2>3. CASE last < k
    <3>1. last \in first .. last /\ ToEdge(last, from) = k
      BY <1>1, <1>3, <2>3 DEF ToEdge
    <3>2. QED
      BY <3>1
  <2>4. QED
    BY <1>1, <2>1, <2>2, <2>3
<1>4. QED
  BY <1>1, <1>2, <1>3 DEF first, last

(* Enough integers to hold the triangle and the source.                    *)
Reaches(R, i, from, to) ==
  LET bounds == AxisBounds(i, from, to)
  IN  /\ IsFiniteSet(R) /\ R \subseteq Int /\ 0 .. from - 1 \subseteq R
      /\ bounds.first .. bounds.last \subseteq R

(* What a reference may call the weights of span i: to each index what     *)
(* clamps to it.  A span holds those that are positive, and adds up to the *)
(* whole triangle.                                                         *)
LEMMA SpansExact ==
  ASSUME NEW from \in Nat \ {0}, NEW to \in Nat \ {0}, NEW i \in 0 .. to - 1,
         NEW R, Reaches(R, i, from, to)
  PROVE  LET span == [k \in TapIndices(i, from, to) |->
                        TapWeight(k, i, from, to)]
             bounds == AxisBounds(i, from, to)
             whole == SetSum(Peaks(i, from, to, R), R)
         IN  /\ \A k \in 0 .. from - 1 :
                  IF k \in TapIndices(i, from, to)
                    THEN /\ TapWeight(k, i, from, to) \in Nat \ {0}
                         /\ TapWeight(k, i, from, to) <= whole
                    ELSE TapWeight(k, i, from, to) = 0
             /\ whole \in Nat \ {0}
             /\ SumBetween(span, bounds.first_clamped,
                           bounds.last_clamped + 1) = whole
<1> DEFINE bounds == AxisBounds(i, from, to)
           T == TapIndices(i, from, to)
           f == Peaks(i, from, to, R)
           W(k) == TapWeight(k, i, from, to)
           span == [k \in T |-> W(k)]
           edge == Edges(from, R)
           Part(k) == Fiber(R, edge, k)
           D == bounds.first .. bounds.last
<1>1. ASSUME NEW j \in R
      PROVE  /\ f[j] \in Nat
             /\ j \in D => f[j] > 0
             /\ j \notin D => f[j] = 0
             /\ edge[j] = ToEdge(j, from) /\ edge[j] \in 0 .. from - 1
  <2>1. j \in Int /\ f[j] = Peak(j, i, from, to) /\ edge[j] = ToEdge(j, from)
    BY DEF Peaks, Edges, Reaches
  <2>2. ToEdge(j, from) \in 0 .. from - 1
    BY <2>1 DEF ToEdge
  <2>3. /\ Peak(j, i, from, to) \in Nat
        /\ j \in D => Peak(j, i, from, to) > 0
        /\ j \notin D => Peak(j, i, from, to) = 0
    BY <2>1, PeakShape
  <2> HIDE DEF f, edge, D
  <2>4. QED
    BY <2>1, <2>2, <2>3
<1>2. D \subseteq R /\ T \subseteq 0 .. from - 1 /\ T # {}
  BY TapsInside DEF Reaches
<1>3. /\ bounds.first_clamped \in Int /\ bounds.last_clamped \in Int
      /\ bounds.first_clamped <= bounds.last_clamped
      /\ T = bounds.first_clamped .. bounds.last_clamped
  BY BoundsOrdered DEF TapIndices
<1>4. ASSUME NEW k \in 0 .. from - 1
      PROVE  /\ W(k) = SetSum(f, Part(k))
             /\ k \in T <=> \E j \in D : edge[j] = k
  <2>1. Part(k) = ClampedOnto(k, from, R)
    BY DEF Fiber, Edges, ClampedOnto
  <2>2. W(k) = SetSum(f, ClampedOnto(k, from, R))
    BY TapsFold DEF Reaches
  <2>3. k \in T <=> \E j \in D : ToEdge(j, from) = k
    BY TapsReached
  <2>4. \A j \in D : edge[j] = ToEdge(j, from)
    BY <1>2 DEF Edges
  <2> HIDE DEF W, f, Part, T, D, edge
  <2>5. QED
    BY <2>1, <2>2, <2>3, <2>4
<1> HIDE DEF f, W, edge, D, T, bounds
<1>5. ASSUME NEW s \in SUBSET R
      PROVE  IsFiniteSet(s) /\ SetSum(f, s) \in Nat
  <2>1. IsFiniteSet(s)
    BY FS_Subset DEF Reaches
  <2>2. \A j \in s : f[j] \in Nat
    BY <1>1
  <2>3. QED
    BY <2>1, <2>2, SetSumNatural
<1>6. ASSUME NEW s \in SUBSET R, NEW j \in s
      PROVE  f[j] <= SetSum(f, s)
  <2>1. IsFiniteSet(s)
    BY <1>5
  <2>2. \A x \in s : f[x] \in Nat
    BY <1>1
  <2>3. QED
    BY <2>1, <2>2, SetSumTerm
<1>7. ASSUME NEW k \in 0 .. from - 1
      PROVE  /\ Part(k) \in SUBSET R /\ W(k) \in Nat
             /\ k \in T => W(k) > 0
             /\ k \notin T => W(k) = 0
  <2>1. Part(k) \in SUBSET R
    BY DEF Fiber
  <2>2. W(k) = SetSum(f, Part(k)) /\ W(k) \in Nat
    BY <1>4, <1>5, <2>1
  <2>3. ASSUME k \in T PROVE W(k) > 0
    <3>1. PICK j \in D : edge[j] = k
      BY <1>4, <2>3
    <3>2. j \in Part(k) /\ f[j] > 0 /\ f[j] \in Nat
      BY <1>1, <1>2, <3>1 DEF Fiber
    <3> HIDE DEF Part
    <3>3. f[j] <= SetSum(f, Part(k))
      BY <1>6, <2>1, <3>2
    <3>4. QED
      BY <2>2, <3>2, <3>3
  <2>4. ASSUME k \notin T PROVE W(k) = 0
    <3>1. \A j \in Part(k) : f[j] = 0
      <4>1. \A j \in Part(k) : j \in R /\ j \notin D
        BY <1>4, <2>4 DEF Fiber
      <4> HIDE DEF Part
      <4>2. QED
        BY <1>1, <4>1
    <3> HIDE DEF Part
    <3>2. IsFiniteSet(Part(k))
      BY <1>5, <2>1
    <3>3. SetSum(f, Part(k)) = 0
      BY <3>1, <3>2, SetSumZero
    <3>4. QED
      BY <2>2, <3>3
  <2>5. QED
    BY <2>1, <2>2, <2>3, <2>4
<1>8. IsFiniteSet(T)
  BY <1>3, FS_Interval
<1>9. SetSum(span, T) = SetSum(f, Fibers(R, edge, T))
  <2>1. SumsFibers(span, f, R, edge, T)
    <3>1. SUFFICES ASSUME NEW k \in T
                   PROVE  span[k] = SetSum(f, Fiber(R, edge, k))
      BY DEF SumsFibers
    <3>2. k \in 0 .. from - 1 /\ span[k] = W(k)
      BY <1>2
    <3>3. QED
      BY <1>4, <3>2
  <2>2. \A j \in R : f[j] \in Nat
    BY <1>1
  <2>3. IsFiniteSet(R)
    BY DEF Reaches
  <2> HIDE DEF span
  <2>4. QED
    BY <1>8, <2>1, <2>2, <2>3, FibersAddUp
<1> DEFINE Q == Fibers(R, edge, T)
<1>10. SetSum(f, R) = SetSum(f, Q)
  <2>1. Q \subseteq R /\ \A j \in R : f[j] \in Nat
    BY <1>1 DEF Fibers
  <2>2. ASSUME NEW j \in R \ Q PROVE f[j] = 0
    <3>1. edge[j] \in 0 .. from - 1 /\ edge[j] \notin T
      BY <1>1 DEF Fibers
    <3>2. j \notin D
      BY <1>4, <3>1
    <3>3. QED
      BY <1>1, <3>2
  <2>3. IsFiniteSet(R)
    BY DEF Reaches
  <2> HIDE DEF Q
  <2>4. QED
    BY <2>1, <2>2, <2>3, SetSumSupport
<1>11. SetSum(span, T) = SetSum(f, R)
  BY <1>9, <1>10
<1>12. ASSUME NEW k \in T
       PROVE  span[k] \in Nat /\ span[k] > 0 /\ span[k] = W(k)
  <2>1. k \in 0 .. from - 1 /\ span[k] = W(k)
    BY <1>2
  <2>2. QED
    BY <1>7, <2>1
<1> HIDE DEF span, Q, Part
<1>13. ASSUME NEW k \in T
       PROVE  SetSum(span, T) \in Nat /\ W(k) <= SetSum(span, T) /\ W(k) > 0
  <2>1. \A x \in T : span[x] \in Nat
    BY <1>12
  <2>2. SetSum(span, T) \in Nat /\ span[k] <= SetSum(span, T)
    BY <1>8, <2>1, SetSumTerm
  <2>3. QED
    BY <1>12, <2>2
<1>14. SetSum(f, R) \in Nat \ {0}
  <2>1. PICK k : k \in T
    BY <1>2
  <2>2. SetSum(span, T) \in Nat /\ W(k) <= SetSum(span, T) /\ W(k) > 0
    BY <1>13, <2>1
  <2>3. W(k) \in Nat
    BY <1>2, <1>7, <2>1
  <2>4. QED
    BY <1>11, <2>2, <2>3
<1>15. SumBetween(span, bounds.first_clamped, bounds.last_clamped + 1) =
         SetSum(f, R)
  <2> DEFINE a == bounds.first_clamped
             b == bounds.last_clamped
  <2>1. a \in Int /\ b + 1 \in Int /\ a <= b + 1 /\ (b + 1) - 1 = b
    BY <1>3
  <2>2. T = a .. b
    BY <1>3
  <2>3. \A j \in a .. (b + 1) - 1 : span[j] \in Nat
    BY <1>12, <2>1, <2>2
  <2> HIDE DEF a, b
  <2>4. SumBetween(span, a, b + 1) = SetSum(span, a .. (b + 1) - 1)
    BY <2>1, <2>3, SumsOfIntervals
  <2>5. SumBetween(span, a, b + 1) = SetSum(span, T)
    BY <2>1, <2>2, <2>4
  <2>6. QED
    BY <1>11, <2>5 DEF a, b
<1>16. ASSUME NEW k \in 0 .. from - 1
       PROVE  IF k \in T THEN W(k) \in Nat \ {0} /\ W(k) <= SetSum(f, R)
              ELSE W(k) = 0
  BY <1>7, <1>11, <1>13
<1>17. QED
  BY <1>14, <1>15, <1>16 DEF f, T, W, span, bounds
=============================================================================
