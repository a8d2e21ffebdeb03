----------------------------- MODULE PixelProofs -----------------------------
(***************************************************************************)
(* Compositions and transforms of single pixels are those of exact         *)
(* arithmetic, resized images mix what lies under their spans, and the     *)
(* spans are the triangles they stand for: for channels of any width,      *)
(* factors of any precision, images and axes of any length.                *)
(***************************************************************************)
EXTENDS MCPixelMath, FilterProofs

(* Products keep the order of their factors.                               *)
LEMMA ProductOrdered ==
  ASSUME NEW a \in Nat, NEW b \in Nat, NEW c \in Nat, a <= b
  PROVE  a * c <= b * c /\ c * a <= c * b
OBVIOUS

(* Products of naturals are naturals.                                      *)
LEMMA ProductNat ==
  ASSUME NEW a \in Nat, NEW b \in Nat
  PROVE  a * b \in Nat
OBVIOUS

(* A factor that is positive may be cancelled.                             *)
LEMMA ProductCancel ==
  ASSUME NEW a \in Int, NEW b \in Int, NEW c \in Nat, c > 0, a * c <= b * c
  PROVE  a <= b
<1>1. SUFFICES ASSUME a >= b + 1 PROVE FALSE
  OBVIOUS
<1>2. (a - b) * c >= c
  BY <1>1
<1>3. (a - b) * c = a * c - b * c
  OBVIOUS
<1>4. QED
  BY <1>2, <1>3

(* What \div computes.                                                     *)
LEMMA DivideBounds ==
  ASSUME NEW p \in Nat, NEW d \in Nat, d > 0
  PROVE  /\ p \div d \in Nat
         /\ (p \div d) * d <= p
         /\ p < (p \div d) * d + d
OBVIOUS

(* Adding half the divisor rounds half up.                                 *)
LEMMA DivideRounds ==
  ASSUME NEW n \in Nat, NEW d \in Nat, d > 0
  PROVE  /\ RoundedDivide(n, d) \in Nat
         /\ RoundsTo(n, d, RoundedDivide(n, d))
<1> DEFINE h == d \div 2
           r == (n + h) \div d
<1>1. h \in Nat /\ 2 * h <= d /\ d <= 2 * h + 1
  OBVIOUS
<1>2. n + h \in Nat
  BY <1>1
<1> HIDE DEF h
<1>3. r \in Nat /\ r * d <= n + h /\ n + h < r * d + d
  BY <1>2, DivideBounds
<1> HIDE DEF r
<1>4. /\ (2 * r - 1) * d = 2 * (r * d) - d
      /\ (2 * r + 1) * d = 2 * (r * d) + d
      /\ r * d \in Nat
  BY <1>3
<1>5. RoundsTo(n, d, r)
  BY <1>1, <1>3, <1>4 DEF RoundsTo
<1>6. QED
  BY <1>3, <1>5 DEF RoundedDivide, r, h

(* What rounds to r lies between two bounds if the exact quotient does.    *)
LEMMA RoundBetween ==
  ASSUME NEW n \in Nat, NEW d \in Nat, d > 0,
         NEW low \in Nat, NEW high \in Nat,
         low * d <= n, n <= high * d
  PROVE  low <= RoundedDivide(n, d) /\ RoundedDivide(n, d) <= high
<1> DEFINE r == RoundedDivide(n, d)
<1>1. r \in Nat /\ 2 * n >= (2 * r - 1) * d /\ 2 * n < (2 * r + 1) * d
  BY DivideRounds DEF RoundsTo
<1> HIDE DEF r
<1>2. r <= high
  <2>1. SUFFICES ASSUME high + 1 <= r PROVE FALSE
    BY <1>1
  <2>2. (high + 1) * d <= r * d
    BY <2>1, <1>1, ProductOrdered
  <2>3. (high + 1) * d = high * d + d /\ (2 * r - 1) * d = 2 * (r * d) - d
    BY <1>1
  <2>4. high * d \in Nat /\ r * d \in Nat
    BY <1>1, ProductNat
  <2>5. QED
    BY <1>1, <2>2, <2>3, <2>4
<1>3. low <= r
  <2>1. SUFFICES ASSUME r + 1 <= low PROVE FALSE
    BY <1>1
  <2>2. (r + 1) * d <= low * d
    BY <2>1, <1>1, ProductOrdered
  <2>3. (r + 1) * d = r * d + d /\ (2 * r + 1) * d = 2 * (r * d) + d
    BY <1>1
  <2>4. low * d \in Nat /\ r * d \in Nat
    BY <1>1, ProductNat
  <2>5. QED
    BY <1>1, <2>2, <2>3, <2>4
<1>4. QED
  BY <1>2, <1>3 DEF r

(* A quotient that is a whole number stays what it is.                     *)
LEMMA RoundWhole ==
  ASSUME NEW q \in Nat, NEW d \in Nat, d > 0
  PROVE  RoundedDivide(q * d, d) = q
<1>1. q * d \in Nat
  BY ProductNat
<1>2. q <= RoundedDivide(q * d, d) /\ RoundedDivide(q * d, d) <= q
  BY <1>1, RoundBetween
<1>3. RoundedDivide(q * d, d) \in Nat
  BY <1>1, DivideRounds
<1>4. QED
  BY <1>2, <1>3

(* The cast to a byte changes no channel.                                  *)
LEMMA ByteExact ==
  ASSUME NEW n \in Channel
  PROVE  Byte(n) = n
BY PixelAssumption DEF Byte, Channel

(* A product of two channels fits the 16 bits it is stored in.             *)
LEMMA ProductExact ==
  ASSUME NEW a \in Channel, NEW b \in Channel
  PROVE  /\ DoubleByte(a * b) = a * b
         /\ a * b \in Nat
<1> DEFINE M == ChannelMax
<1>1. M \in Nat /\ a \in Nat /\ b \in Nat /\ a <= M /\ b <= M
  BY PixelAssumption DEF Channel
<1>2. a * b <= a * M /\ a * M <= M * M /\ a * b \in Nat
  BY <1>1, ProductOrdered, ProductNat
<1>3. (M + 1) * (M + 1) = M * M + 2 * M + 1 /\ M * M \in Nat
  BY <1>1
<1> DEFINE W == (M + 1) * (M + 1)
           p == a * b
<1>4. W \in Nat /\ p \in Nat /\ p < W
  <2>1. a * M \in Nat /\ p \in Nat
    BY <1>1, ProductNat
  <2> HIDE DEF p
  <2>2. QED
    BY <2>1, <1>1, <1>2, <1>3 DEF p
<1>5. p % W = p
  <2> HIDE DEF p, W
  <2>1. QED
    BY <1>4
<1>6. QED
  BY <1>2, <1>5 DEF DoubleByte

-----------------------------------------------------------------------------

(* The weights of the two colors of a composition add up to what the sum   *)
(* is divided by: k between the colors stays between them.                 *)
LEMMA Mixture ==
  ASSUME NEW k \in Nat, NEW x \in Nat, NEW y \in Nat, NEW u \in Nat,
         NEW v \in Nat, NEW m \in Nat, NEW t \in Nat
  PROVE  /\ u * m + v * t \in Nat
         /\ (x * u) * m + (y * v) * t \in Nat
         /\ k <= x /\ k <= y =>
              k * (u * m + v * t) <= (x * u) * m + (y * v) * t
         /\ x <= k /\ y <= k =>
              (x * u) * m + (y * v) * t <= k * (u * m + v * t)
<1> DEFINE U == u * m
           V == v * t
<1>1. U \in Nat /\ V \in Nat
  BY ProductNat
<1>2. (x * u) * m = x * U /\ (y * v) * t = y * V
  OBVIOUS
<1> HIDE DEF U, V
<1>3. x * U \in Nat /\ y * V \in Nat /\ k * U \in Nat /\ k * V \in Nat
  BY <1>1, ProductNat
<1>4. k * (U + V) = k * U + k * V
  BY <1>1
<1>5. k <= x /\ k <= y => k * U <= x * U /\ k * V <= y * V
  BY <1>1, ProductOrdered
<1>6. x <= k /\ y <= k => x * U <= k * U /\ y * V <= k * V
  BY <1>1, ProductOrdered
<1>7. /\ U + V \in Nat
      /\ x * U + y * V \in Nat
      /\ k <= x /\ k <= y => k * (U + V) <= x * U + y * V
      /\ x <= k /\ y <= k => x * U + y * V <= k * (U + V)
  BY <1>1, <1>3, <1>4, <1>5, <1>6
<1>8. QED
  BY <1>2, <1>7 DEF U, V

(* The sum of the two alphas' weights is a byte's share of ChannelMax.     *)
LEMMA AlphaShare ==
  ASSUME NEW u \in Channel, NEW v \in Channel
  PROVE  /\ ChannelMax - u \in Nat
         /\ u * ChannelMax + v * (ChannelMax - u) \in Nat
         /\ u * ChannelMax + v * (ChannelMax - u) <= ChannelMax * ChannelMax
         /\ u * ChannelMax + v * (ChannelMax - u) = 0 <=> u = 0 /\ v = 0
<1> DEFINE M == ChannelMax
           t == M - u
           U == u * M
           V == v * t
<1>1. /\ M \in Nat /\ M > 0 /\ u \in Nat /\ v \in Nat /\ t \in Nat
      /\ u <= M /\ v <= M
  BY PixelAssumption DEF Channel
<1>2. U \in Nat /\ V \in Nat /\ M * t \in Nat /\ M * M \in Nat
  BY <1>1, ProductNat
<1>3. V <= M * t
  BY <1>1, ProductOrdered
<1>4. U + M * t = M * M
  BY <1>1
<1>5. u # 0 => U > 0
  <2>1. u # 0 => 1 * M <= U
    BY <1>1, ProductOrdered
  <2>2. QED
    BY <1>1, <2>1
<1>6. u = 0 /\ v # 0 => V > 0
  <2>1. u = 0 /\ v # 0 => 1 * M <= V
    BY <1>1, ProductOrdered
  <2>2. QED
    BY <1>1, <2>1
<1>7. u = 0 /\ v = 0 => U = 0 /\ V = 0
  BY <1>1
<1> HIDE DEF U, V
<1>8. U + V = 0 <=> u = 0 /\ v = 0
  BY <1>1, <1>2, <1>5, <1>6, <1>7
<1>9. U + V \in Nat /\ U + V <= M * M
  <2> DEFINE W == M * t
             S == M * M
  <2>1. W \in Nat /\ S \in Nat /\ V <= W /\ U + W = S
    BY <1>2, <1>3, <1>4
  <2> HIDE DEF W, S
  <2>2. QED
    BY <1>2, <2>1 DEF S
<1>10. QED
  BY <1>1, <1>8, <1>9 DEF U, V

(* Every composition is exact, and is again a pixel.                       *)
LEMMA CompositionOfPixels ==
  ASSUME NEW s \in Pixel, NEW b \in Pixel
  PROVE  /\ SourceOver(s, b) \in Pixel
         /\ CompositesExactly(s, b, SourceOver(s, b))
<1> DEFINE M == ChannelMax
           t == M - s.a
           A == s.a * M + b.a * t
           N == (s.c * s.a) * M + (b.c * b.a) * t
           r == SourceOver(s, b)
<1>1. /\ s.a \in Channel /\ s.c \in Channel /\ b.a \in Channel /\ b.c \in Channel
      /\ s = [c |-> s.c, a |-> s.a] /\ b = [c |-> b.c, a |-> b.a]
  BY DEF Pixel
<1>2. /\ M \in Nat /\ M > 0 /\ Channel \subseteq Nat
      /\ \A n \in Channel : n <= M
      /\ \A n \in Nat : n <= M => n \in Channel
  BY PixelAssumption DEF Channel
<1>3. t \in Nat /\ A \in Nat /\ A <= M * M /\ (A = 0 <=> s.a = 0 /\ b.a = 0)
  BY <1>1, AlphaShare
<1>4. AlphaNumerator(s, b) = A
  BY DEF AlphaNumerator
<1>5. ColorNumerator(s, b) = N
  BY <1>1, ProductExact DEF ColorNumerator, Premultiply
<1>6. /\ N \in Nat
      /\ \A k \in Nat : /\ k <= s.c /\ k <= b.c => k * A <= N
                        /\ s.c <= k /\ b.c <= k => N <= k * A
  <2>1. /\ s.c \in Nat /\ b.c \in Nat /\ s.a \in Nat /\ b.a \in Nat
        /\ M \in Nat /\ t \in Nat
    BY <1>1, <1>2, <1>3
  <2> DEFINE x == s.c
             y == b.c
             u == s.a
             v == b.a
  <2> HIDE DEF M, t, x, y, u, v
  <2>2. x \in Nat /\ y \in Nat /\ u \in Nat /\ v \in Nat
    BY <2>1 DEF x, y, u, v
  <2>3. N = (x * u) * M + (y * v) * t /\ A = u * M + v * t
    BY DEF x, y, u, v
  <2> HIDE DEF A, N
  <2>4. N \in Nat
    BY <2>1, <2>2, <2>3, Mixture
  <2>5. ASSUME NEW k \in Nat
        PROVE  /\ k <= x /\ k <= y => k * A <= N
               /\ x <= k /\ y <= k => N <= k * A
    BY <2>1, <2>2, <2>3, Mixture
  <2>6. QED
    BY <2>4, <2>5 DEF x, y
<1>7. M * s.a + b.a * t = A /\ M * s.c * s.a + b.c * b.a * t = N
  BY <1>1, <1>2, <1>3
<1>8. /\ s.a = 0 => A = b.a * M /\ N = b.c * A
      /\ s.a = M => A = M * M /\ N = s.c * A
      /\ b.a = 0 => A = s.a * M /\ N = s.c * A
  BY <1>1, <1>2
<1> HIDE DEF A, N
<1>9. CASE A = 0
  <2>1. r = TransparentBlack /\ s.a = 0 /\ b.a = 0
    BY <1>3, <1>4, <1>9 DEF SourceOver
  <2>2. TransparentBlack \in Pixel /\ TransparentBlack.a = 0
    BY <1>2 DEF TransparentBlack, Pixel
  <2>3. RoundsTo(A, M, r.a)
    BY <2>1, <2>2, <1>2, <1>9 DEF RoundsTo
  <2>4. QED
    BY <1>2, <1>7, <1>9, <2>1, <2>2, <2>3 DEF CompositesExactly
<1>10. CASE A > 0
  <2> DEFINE alpha == RoundedDivide(A, M)
             color == RoundedDivide(N, A)
  <2>1. RoundsTo(A, M, alpha) /\ RoundsTo(N, A, color)
    BY <1>2, <1>3, <1>6, <1>10, DivideRounds
  <2>2. alpha \in Channel
    <3>1. 0 * M <= A
      BY <1>2, <1>3
    <3>2. alpha \in Nat /\ alpha <= M
      BY <3>1, <1>2, <1>3, DivideRounds, RoundBetween
    <3>3. QED
      BY <3>2, <1>2
  <2>3. \A low, high \in Nat :
          low * A <= N /\ N <= high * A => low <= color /\ color <= high
    BY <1>3, <1>6, <1>10, RoundBetween
  <2>4. color \in Nat
    BY <1>3, <1>6, <1>10, DivideRounds
  <2>5. \/ s.c <= color /\ color <= b.c
        \/ b.c <= color /\ color <= s.c
    <3>1. CASE s.c <= b.c
      <4>1. s.c * A <= N /\ N <= b.c * A
        BY <3>1, <1>1, <1>2, <1>6
      <4>2. QED
        BY <4>1, <2>3, <1>1, <1>2
    <3>2. CASE b.c <= s.c
      <4>1. b.c * A <= N /\ N <= s.c * A
        BY <3>2, <1>1, <1>2, <1>6
      <4>2. QED
        BY <4>1, <2>3, <1>1, <1>2
    <3>3. QED
      BY <3>1, <3>2, <1>1, <1>2
  <2>6. color \in Channel
    BY <2>4, <2>5, <1>1, <1>2
  <2>7. r = [c |-> color, a |-> alpha]
    <3>1. Byte(color) = color /\ Byte(alpha) = alpha
      BY <2>2, <2>6, ByteExact
    <3> HIDE DEF color, alpha
    <3>2. SourceOver(s, b) =
            [c |-> Byte(RoundedDivide(N, A)), a |-> Byte(RoundedDivide(A, M))]
      BY <1>3, <1>4, <1>5, <1>10 DEF SourceOver
    <3>3. QED
      BY <3>1, <3>2 DEF color, alpha
  <2>8. r \in Pixel /\ r.c = color /\ r.a = alpha
    BY <2>2, <2>6, <2>7 DEF Pixel
  <2>9. \A q \in Nat : N = q * A => color = q
    BY <1>3, <1>10, RoundWhole
  <2>10. \A q \in Nat : A = q * M => alpha = q
    BY <1>2, RoundWhole
  <2> HIDE DEF color, alpha
  <2>11. s.a = 0 /\ b.a > 0 => r = b
    BY <2>7, <2>9, <2>10, <1>1, <1>2, <1>8
  <2>12. s.a = M => r = s
    BY <2>7, <2>9, <2>10, <1>1, <1>2, <1>8
  <2>13. b.a = 0 /\ s.a > 0 => r = s
    BY <2>7, <2>9, <2>10, <1>1, <1>2, <1>8
  <2>14. ~(s.a = 0 /\ b.a = 0)
    BY <1>3, <1>10
  <2> HIDE DEF r
  <2>15. CompositesExactly(s, b, r)
    BY <1>7, <2>1, <2>5, <2>8, <2>11, <2>12, <2>13, <2>14
    DEF CompositesExactly
  <2>16. QED
    BY <2>8, <2>15 DEF r
<1>11. QED
  BY <1>3, <1>9, <1>10

-----------------------------------------------------------------------------

(* The factor rounded to a byte, and the product rounded to a byte again,  *)
(* are each within half a step; together they are within one.              *)
LEMMA TwoRoundings ==
  ASSUME NEW c \in Nat, NEW f \in Nat, NEW one \in Nat, NEW m \in Nat,
         NEW k \in Nat, NEW r \in Nat, m > 0, c <= m,
         RoundsTo(f * m, one, k), RoundsTo(c * k, m, r)
  PROVE  r * one - c * f <= one /\ c * f - r * one <= one
<1> DEFINE X == r * one
           Y == c * f
           Z == (c * k) * one
           W == one * m
           d == f * m
           e == k * one
           g == c * k
           h == r * m
<1>1. /\ X \in Nat /\ Y \in Nat /\ W \in Nat
      /\ d \in Nat /\ e \in Nat /\ g \in Nat /\ h \in Nat
  BY ProductNat
<1>2. Z \in Nat
  BY <1>1, ProductNat
<1>3. 2 * e - one <= 2 * d /\ 2 * d <= 2 * e + one
  <2>1. (2 * k - 1) * one = 2 * e - one /\ (2 * k + 1) * one = 2 * e + one
    OBVIOUS
  <2>2. 2 * d >= (2 * k - 1) * one /\ 2 * d < (2 * k + 1) * one
    BY DEF RoundsTo
  <2> HIDE DEF d, e
  <2>3. QED
    BY <2>1, <2>2, <1>1
<1>4. 2 * h - m <= 2 * g /\ 2 * g <= 2 * h + m
  <2>1. (2 * r - 1) * m = 2 * h - m /\ (2 * r + 1) * m = 2 * h + m
    OBVIOUS
  <2>2. 2 * g >= (2 * r - 1) * m /\ 2 * g < (2 * r + 1) * m
    BY DEF RoundsTo
  <2> HIDE DEF g, h
  <2>3. QED
    BY <2>1, <2>2, <1>1
<1>5. c * one <= W /\ c * one \in Nat
  <2>1. c * one <= m * one
    BY ProductOrdered
  <2>2. m * one = W /\ c * one \in Nat
    BY ProductNat
  <2>3. QED
    BY <2>1, <2>2
<1>6. c * d = Y * m /\ c * e = Z
  OBVIOUS
<1>7. h * one = X * m /\ g * one = Z /\ m * one = W
  OBVIOUS
<1> HIDE DEF X, Y, Z, W, d, e, g, h
<1>8. Y * m \in Nat /\ X * m \in Nat
  BY <1>1, ProductNat
<1>9. 2 * Z - W <= 2 * (Y * m) /\ 2 * (Y * m) <= 2 * Z + W
  <2>1. 2 * d - 2 * e <= one /\ 2 * e - 2 * d <= one
    BY <1>1, <1>3
  <2>2. \A u \in Int : u <= one => c * u <= c * one
    <3>1. SUFFICES ASSUME NEW u \in Int, u <= one PROVE c * (one - u) >= 0
      OBVIOUS
    <3>2. QED
      BY <3>1
  <2>3. /\ c * (2 * d - 2 * e) = 2 * (c * d) - 2 * (c * e)
        /\ c * (2 * e - 2 * d) = 2 * (c * e) - 2 * (c * d)
    BY <1>1
  <2>4. /\ c * (2 * d - 2 * e) <= c * one /\ c * (2 * e - 2 * d) <= c * one
    BY <2>1, <2>2, <1>1
  <2>5. /\ 2 * (Y * m) - 2 * Z <= c * one
        /\ 2 * Z - 2 * (Y * m) <= c * one
    BY <2>3, <2>4, <1>6
  <2>6. QED
    BY <2>5, <1>1, <1>2, <1>5, <1>8
<1>10. 2 * (X * m) - W <= 2 * Z /\ 2 * Z <= 2 * (X * m) + W
  <2>1. 2 * h - 2 * g <= m /\ 2 * g - 2 * h <= m
    BY <1>1, <1>4
  <2>2. \A u \in Int : u <= m => u * one <= m * one
    <3>1. SUFFICES ASSUME NEW u \in Int, u <= m PROVE (m - u) * one >= 0
      OBVIOUS
    <3>2. QED
      BY <3>1
  <2>3. /\ (2 * h - 2 * g) * one = 2 * (h * one) - 2 * (g * one)
        /\ (2 * g - 2 * h) * one = 2 * (g * one) - 2 * (h * one)
    BY <1>1
  <2>4. /\ (2 * h - 2 * g) * one <= m * one /\ (2 * g - 2 * h) * one <= m * one
    BY <2>1, <2>2, <1>1
  <2>5. 2 * (X * m) - 2 * Z <= W /\ 2 * Z - 2 * (X * m) <= W
    BY <2>3, <2>4, <1>7
  <2>6. QED
    BY <2>5, <1>1, <1>2, <1>8
<1>11. X * m - Y * m <= W /\ Y * m - X * m <= W
  BY <1>1, <1>2, <1>8, <1>9, <1>10
<1>12. (X - Y) * m <= one * m /\ (Y - X) * m <= one * m
  <2>1. (X - Y) * m = X * m - Y * m /\ (Y - X) * m = Y * m - X * m
    BY <1>1
  <2>2. QED
    BY <2>1, <1>11 DEF W
<1>13. X - Y <= one /\ Y - X <= one
  BY <1>1, <1>12, ProductCancel
<1>14. QED
  BY <1>13 DEF X, Y

(* multiply_channel by the multiplier of any factor, of which one part in  *)
(* FactorOne is the unit, scales as the exact product does.                *)
LEMMA ChannelScales ==
  ASSUME NEW c \in Channel, NEW f \in Int
  PROVE  Scales(c, f, MultiplyChannel(c, NormalizedMultiplier(f)))
<1> DEFINE M == ChannelMax
           F == FactorOne
           g == ClampedFactor(f)
           k == NormalizedMultiplier(f)
           n == g * M
           p == c * k
           r == RoundedDivide(p, M)
<1>1. /\ M \in Nat /\ M > 0 /\ F \in Nat /\ F > 0 /\ c \in Nat /\ c <= M
      /\ \A x \in Nat : x <= M => x \in Channel
  BY PixelAssumption DEF Channel
<1>2. g \in Nat /\ g <= F /\ (f >= F => g = F) /\ (f <= 0 => g = 0)
  BY <1>1 DEF ClampedFactor
<1> HIDE DEF g
<1>3. n \in Nat
  BY <1>1, <1>2, ProductNat
<1>4. /\ k \in Nat /\ RoundsTo(n, F, k)
      /\ k <= M /\ (g = F => k = M) /\ (g = 0 => k = 0)
  <2>1. k = (2 * n + F) \div (2 * F)
    <3>1. 2 * g * M = 2 * n
      BY <1>1, <1>2
    <3>2. QED
      BY <3>1 DEF NormalizedMultiplier, g
  <2> DEFINE q == 2 * n + F
             d == 2 * F
  <2>2. q \in Nat /\ d \in Nat /\ d > 0
    <3> HIDE DEF n
    <3>1. QED
      BY <1>1, <1>3
  <2>3. k \in Nat /\ k * d <= q /\ q < k * d + d
    <3> HIDE DEF q, d
    <3>1. QED
      BY <2>1, <2>2, DivideBounds DEF q, d
  <2> HIDE DEF k
  <2>4. /\ k * d = 2 * (k * F) /\ k * F \in Nat
        /\ (2 * k - 1) * F = 2 * (k * F) - F
        /\ (2 * k + 1) * F = 2 * (k * F) + F
    BY <1>1, <2>3, ProductNat
  <2> DEFINE e == k * F
  <2>5. 2 * e <= 2 * n + F /\ 2 * n < 2 * e + F
    <3>1. k * d = 2 * e /\ d = 2 * F
      BY <2>4
    <3> HIDE DEF d, e, n
    <3>2. QED
      BY <3>1, <2>3, <2>4, <1>1, <1>3 DEF q, e
  <2>6. RoundsTo(n, F, k)
    <3> HIDE DEF n
    <3>1. QED
      BY <2>4, <2>5, <1>1, <1>3 DEF RoundsTo
  <2>7. n <= M * F
    <3>1. n <= F * M /\ F * M = M * F
      BY <1>1, <1>2, ProductOrdered
    <3>2. QED
      BY <3>1
  <2>8. k <= M
    <3>1. SUFFICES ASSUME k >= M + 1 PROVE FALSE
      BY <1>1, <2>3
    <3>2. M * F + F <= e
      <4>1. (M + 1) * F <= k * F
        BY <3>1, <1>1, <2>3, ProductOrdered
      <4>2. (M + 1) * F = M * F + F
        BY <1>1
      <4>3. QED
        BY <4>1, <4>2
    <3>3. M * F \in Nat
      BY <1>1, ProductNat
    <3> HIDE DEF e, n
    <3>4. QED
      BY <3>2, <3>3, <2>5, <2>7, <1>1, <1>3, <2>4 DEF e
  <2>9. g = F => k = M
    <3>1. SUFFICES ASSUME g = F, k + 1 <= M PROVE FALSE
      BY <2>8, <1>1, <2>3
    <3>2. e + F <= M * F
      <4>1. (k + 1) * F <= M * F
        BY <3>1, <1>1, <2>3, ProductOrdered
      <4>2. (k + 1) * F = k * F + F
        BY <1>1, <2>3
      <4>3. QED
        BY <4>1, <4>2
    <3>3. n = M * F /\ M * F \in Nat
      BY <3>1, <1>1, ProductNat
    <3> HIDE DEF e, n
    <3>4. QED
      BY <3>2, <3>3, <2>5, <1>1, <1>3, <2>4 DEF e
  <2>10. g = 0 => k = 0
    <3>1. SUFFICES ASSUME g = 0, 1 <= k PROVE FALSE
      BY <2>3
    <3>2. F <= e
      <4>1. 1 * F <= k * F
        BY <3>1, <1>1, <2>3, ProductOrdered
      <4>2. QED
        BY <4>1, <1>1
    <3>3. n = 0
      BY <3>1, <1>1
    <3> HIDE DEF e, n
    <3>4. QED
      BY <3>2, <3>3, <2>5, <1>1, <2>4 DEF e
  <2>11. QED
    BY <2>3, <2>6, <2>8, <2>9, <2>10
<1> HIDE DEF k, n
<1>5. p \in Nat /\ 0 * M <= p /\ p <= c * M
  BY <1>1, <1>4, ProductNat, ProductOrdered
<1>6. r \in Nat /\ RoundsTo(p, M, r) /\ r <= c
  <2> HIDE DEF p
  <2>1. QED
    BY <1>1, <1>5, DivideRounds, RoundBetween
<1>7. MultiplyChannel(c, k) = r
  <2>1. r \in Channel
    BY <1>1, <1>6
  <2>2. Byte(r) = r
    BY <2>1, ByteExact
  <2>3. MultiplyChannel(c, k) = Byte(r)
    BY DEF MultiplyChannel, RoundedDivide
  <2>4. QED
    BY <2>2, <2>3
<1>8. r * F - c * g <= F /\ c * g - r * F <= F
  <2> HIDE DEF r, M, F
  <2>1. RoundsTo(g * M, F, k) /\ RoundsTo(c * k, M, r)
    BY <1>4, <1>6 DEF n, p
  <2>2. M > 0 /\ c <= M /\ k \in Nat /\ M \in Nat /\ F \in Nat /\ c \in Nat
        /\ g \in Nat /\ r \in Nat
    BY <1>1, <1>2, <1>4, <1>6
  <2>3. QED
    BY <2>1, <2>2, TwoRoundings
<1>9. f >= F => r = c
  <2>1. f >= F => p = c * M
    BY <1>2, <1>4
  <2>2. QED
    BY <2>1, <1>1, RoundWhole
<1>10. f <= 0 => r = 0
  <2>1. f <= 0 => p = 0 * M
    BY <1>1, <1>2, <1>4
  <2>2. QED
    BY <2>1, <1>1, RoundWhole
<1> HIDE DEF r
<1>11. r * F - c * g \in -F .. F /\ r \in 0 .. c
  <2>1. r * F \in Nat /\ c * g \in Nat
    BY <1>1, <1>2, <1>6, ProductNat
  <2>2. QED
    BY <2>1, <1>1, <1>6, <1>8
<1>12. QED
  BY <1>7, <1>9, <1>10, <1>11 DEF Scales, g, k

-----------------------------------------------------------------------------
(* The samples and what each resolves to.                                  *)

Transformed(pixel, factor) ==
  IF ~factor.finite THEN Err("invalid_argument")
  ELSE Ok([ dim  |-> Dim(pixel, factor.value),
            fade |-> AdjustOpacity(pixel, factor.value) ])

OverResolves ==
  sample.kind = "over" =>
    /\ sample.source \in Pixel /\ sample.backdrop \in Pixel
    /\ outcome \in {Unresolved, SourceOver(sample.source, sample.backdrop)}

TransformResolves ==
  sample.kind = "transform" =>
    /\ sample.pixel \in Pixel /\ sample.factor \in Factors
    /\ outcome \in {Unresolved, Transformed(sample.pixel, sample.factor)}

Sized(kind) == kind \in {"axis", "mix"}

AxisResolves ==
  /\ from \in Nat \ {0} /\ to \in Nat \ {0}
  /\ Sized(sample.kind) => from \in 1 .. DimensionMax /\ to \in 1 .. DimensionMax
  /\ axis # Pending => axis = PopulateAxis(from, to) /\ Sized(sample.kind)

Resized ==
  [p \in Square(to) |->
     ResizedPixel(sample.image, axis.value[p[1]], axis.value[p[2]])]

MixResolves ==
  sample.kind = "mix" =>
    /\ sample.image \in [Square(from) -> Pixel]
    /\ outcome # Unresolved =>
         axis # Pending /\ axis.ok /\ outcome = Resized

PixelInv == OverResolves /\ TransformResolves /\ AxisResolves /\ MixResolves

(* A sample resolves once, to the coefficients, the image, the composition *)
(* or the transform it stands for.                                         *)
THEOREM SamplesResolve == SampleSpec => []PixelInv
<1>1. SampleInit => PixelInv
  <2>1. SUFFICES ASSUME SampleInit PROVE PixelInv
    OBVIOUS
  <2>2. outcome = Unresolved /\ (AxisInit \/ MixInit \/ PixelInit)
    BY <2>1 DEF SampleInit
  <2>3. CASE AxisInit
    <3>1. sample.kind = "axis"
      BY <2>3 DEF AxisInit
    <3>2. /\ from \in Nat \ {0} /\ to \in Nat \ {0} /\ axis = Pending
          /\ from \in 1 .. DimensionMax /\ to \in 1 .. DimensionMax
      BY <2>3, WidthAssumption DEF AxisInit, Init
    <3>3. QED
      BY <3>1, <3>2
         DEF PixelInv, OverResolves, TransformResolves, AxisResolves, MixResolves
  <2>4. CASE MixInit
    <3>1. /\ from \in MixSides /\ to \in MixSides /\ axis = Pending
          /\ sample \in [kind : {"mix"}, image : MixImages(from)]
      BY <2>4 DEF MixInit
    <3>2. sample.kind = "mix" /\ sample.image \in MixImages(from)
      BY <3>1
    <3>3. /\ from \in 1 .. DimensionMax /\ to \in 1 .. DimensionMax
          /\ sample.image \in [Square(from) -> Pixel]
      BY <3>1, <3>2, MixAssumption
    <3>4. from \in Nat \ {0} /\ to \in Nat \ {0}
      BY <3>3, WidthAssumption
    <3>5. QED
      BY <2>2, <3>1, <3>2, <3>3, <3>4
         DEF PixelInv, OverResolves, TransformResolves, AxisResolves, MixResolves
  <2>5. CASE PixelInit
    <3>1. AxisResolves
      <4>1. ~Sized(sample.kind)
        BY <2>5 DEF PixelInit, Sized
      <4>2. QED
        BY <2>5, <4>1 DEF PixelInit, AxisResolves
    <3>2. CASE sample \in [kind : {"over"}, source : Pixel, backdrop : Pixel]
      <4>1. /\ sample.kind = "over"
            /\ sample.source \in Pixel /\ sample.backdrop \in Pixel
        BY <3>2
      <4>2. QED
        BY <2>2, <3>1, <4>1
           DEF PixelInv, OverResolves, TransformResolves, MixResolves
    <3>3. CASE sample \in [kind : {"transform"}, pixel : Pixel,
                           factor : Factors]
      <4>1. /\ sample.kind = "transform"
            /\ sample.pixel \in Pixel /\ sample.factor \in Factors
        BY <3>3
      <4>2. QED
        BY <2>2, <3>1, <4>1
           DEF PixelInv, OverResolves, TransformResolves, MixResolves
    <3>4. QED
      BY <2>5, <3>2, <3>3 DEF PixelInit
  <2>6. QED
    BY <2>2, <2>3, <2>4, <2>5
<1>2. PixelInv /\ [SampleNext]_allVars => PixelInv'
  <2>1. SUFFICES ASSUME PixelInv, [SampleNext]_allVars
                 PROVE  PixelInv'
    OBVIOUS
  <2>2. CASE UNCHANGED allVars
    <3>1. UNCHANGED <<from, to, axis, sample, outcome>>
      BY <2>2 DEF allVars, vars
    <3>2. QED
      BY <2>1, <3>1
         DEF PixelInv, OverResolves, TransformResolves, AxisResolves,
             MixResolves, Resized
  <2>3. CASE Populate
    <3>1. /\ axis = Pending /\ axis' = PopulateAxis(from, to)
          /\ Sized(sample.kind) /\ UNCHANGED <<from, to, sample, outcome>>
      BY <2>3 DEF Populate, Next, Sized
    <3>2. OverResolves' /\ TransformResolves' /\ AxisResolves'
      BY <2>1, <3>1
         DEF PixelInv, OverResolves, TransformResolves, AxisResolves
    <3>3. MixResolves'
      BY <2>1, <3>1 DEF PixelInv, MixResolves, Resized
    <3>4. QED
      BY <3>2, <3>3 DEF PixelInv
  <2>4. ASSUME UNCHANGED <<from, to, axis, sample>>, Mix \/ Over \/ Transform
        PROVE  PixelInv'
    <3>1. AxisResolves'
      BY <2>1, <2>4 DEF PixelInv, AxisResolves
    <3>2. CASE Mix
      <4>1. /\ sample.kind = "mix" /\ axis # Pending /\ axis.ok
            /\ outcome' = Resized
        BY <3>2 DEF Mix, Resized
      <4>2. QED
        BY <2>1, <2>4, <3>1, <4>1
           DEF PixelInv, OverResolves, TransformResolves, MixResolves, Resized
    <3>3. CASE Over
      <4>1. /\ sample.kind = "over"
            /\ outcome' = SourceOver(sample.source, sample.backdrop)
        BY <3>3 DEF Over
      <4>2. QED
        BY <2>1, <2>4, <3>1, <4>1
           DEF PixelInv, OverResolves, TransformResolves, MixResolves
    <3>4. CASE Transform
      <4>1. /\ sample.kind = "transform"
            /\ outcome' = Transformed(sample.pixel, sample.factor)
        BY <3>4 DEF Transform, Transformed
      <4>2. QED
        BY <2>1, <2>4, <3>1, <4>1
           DEF PixelInv, OverResolves, TransformResolves, MixResolves
    <3>5. QED
      BY <2>4, <3>2, <3>3, <3>4
  <2>5. QED
    BY <2>1, <2>2, <2>3, <2>4 DEF SampleNext, vars
<1>3. QED
  BY <1>1, <1>2, PTL DEF SampleSpec

(* source_over_srgba is Porter and Duff's operator for every two pixels of *)
(* channels of any width: its two divisions round the exact rationals half *)
(* up, the uint16 products and byte casts lose nothing, and the identities *)
(* hold to the bit.                                                        *)
THEOREM CompositionIsExact == SampleSpec => []SourceOverExact
<1>1. PixelInv => SourceOverExact
  <2>1. SUFFICES ASSUME PixelInv, sample.kind = "over", outcome # Unresolved
                 PROVE  CompositesExactly(sample.source, sample.backdrop, outcome)
    BY DEF SourceOverExact, Resolved
  <2>2. /\ sample.source \in Pixel /\ sample.backdrop \in Pixel
        /\ outcome = SourceOver(sample.source, sample.backdrop)
    BY <2>1 DEF PixelInv, OverResolves
  <2>3. QED
    BY <2>2, CompositionOfPixels
<1>2. QED
  BY <1>1, SamplesResolve, PTL

(* dim and adjust_opacity stay within one step of the exact product for    *)
(* every pixel, width of channel and precision of factor, are the identity *)
(* and zero at the two ends, and refuse a factor that is not finite.       *)
THEOREM TransformsAreExact == SampleSpec => []TransformsExact
<1>1. PixelInv => TransformsExact
  <2>1. SUFFICES ASSUME PixelInv, sample.kind = "transform",
                        outcome # Unresolved
                 PROVE  TransformsExact
    BY DEF TransformsExact, Resolved
  <2> DEFINE p == sample.pixel
             f == sample.factor.value
             k == NormalizedMultiplier(f)
  <2>2. /\ p \in Pixel /\ sample.factor \in Factors
        /\ outcome = Transformed(p, sample.factor)
    BY <2>1 DEF PixelInv, TransformResolves
  <2>3. /\ p.c \in Channel /\ p.a \in Channel
        /\ DOMAIN p = {"c", "a"}
    BY <2>2 DEF Pixel
  <2>4. f \in Int
    <3>1. FactorOne \in Nat
      BY PixelAssumption
    <3>2. \/ sample.factor \in [finite : {TRUE}, value : -1 .. FactorOne + 1]
          \/ sample.factor \in [finite : {FALSE}, value : {0}]
      BY <2>2 DEF Factors
    <3>3. f \in -1 .. FactorOne + 1 \/ f = 0
      BY <3>2
    <3> HIDE DEF f
    <3>4. QED
      BY <3>1, <3>3
  <2>5. CASE sample.factor.finite
    <3>1. outcome = Ok([dim |-> Dim(p, f), fade |-> AdjustOpacity(p, f)])
      BY <2>2, <2>5 DEF Transformed
    <3>2. outcome.value = [dim |-> Dim(p, f), fade |-> AdjustOpacity(p, f)]
      BY <3>1 DEF Ok
    <3>3. /\ Dim(p, f).c = MultiplyChannel(p.c, k) /\ Dim(p, f).a = p.a
          /\ AdjustOpacity(p, f).a = MultiplyChannel(p.a, k)
          /\ AdjustOpacity(p, f).c = p.c
      BY <2>3 DEF Dim, Tint, AdjustOpacity
    <3>4. Scales(p.c, f, MultiplyChannel(p.c, k))
          /\ Scales(p.a, f, MultiplyChannel(p.a, k))
      BY <2>3, <2>4, ChannelScales
    <3>5. QED
      BY <2>5, <3>2, <3>3, <3>4 DEF TransformsExact
  <2>6. CASE ~sample.factor.finite
    <3>1. ~outcome.ok
      BY <2>2, <2>6 DEF Transformed, Err
    <3>2. QED
      BY <2>6, <3>1 DEF TransformsExact
  <2>7. QED
    BY <2>5, <2>6
<1>2. QED
  BY <1>1, SamplesResolve, PTL

-----------------------------------------------------------------------------
(* Resized images.                                                         *)

Painted(image) ==
  [p \in Square(from) |->
     IF image[p].a = 0 THEN TransparentBlack ELSE image[p]]

(* What is mixed of an invisible pixel is nothing, whatever its color.     *)
LEMMA PaintedAlike ==
  ASSUME NEW image \in [Square(from) -> Pixel], NEW h, NEW v
  PROVE  ResizedPixel(Painted(image), h, v) = ResizedPixel(image, h, v)
<1> DEFINE painted == Painted(image)
<1>1. DOMAIN painted = Square(from) /\ DOMAIN image = Square(from)
  BY DEF Painted
<1>2. ASSUME NEW p \in Square(from)
      PROVE  Premultiply(painted[p]) = Premultiply(image[p])
  <2>1. painted[p] = IF image[p].a = 0 THEN TransparentBlack ELSE image[p]
    BY DEF Painted
  <2>2. CASE image[p].a = 0
    <3>1. image[p].c \in Nat
      BY PixelAssumption DEF Pixel, Channel
    <3>2. image[p].c * image[p].a = 0 /\ 0 * 0 = 0
      BY <2>2, <3>1
    <3>3. painted[p].c * painted[p].a = 0 /\ painted[p].a = 0
      BY <2>1, <2>2, <3>2 DEF TransparentBlack
    <3>4. QED
      BY <2>2, <3>2, <3>3 DEF Premultiply
  <2>3. QED
    BY <2>1, <2>2
<1> HIDE DEF painted
<1>3. /\ [p \in DOMAIN painted |-> Premultiply(painted[p]).product] =
           [p \in DOMAIN image |-> Premultiply(image[p]).product]
      /\ [p \in DOMAIN painted |-> Premultiply(painted[p]).alpha] =
           [p \in DOMAIN image |-> Premultiply(image[p]).alpha]
  BY <1>1, <1>2
<1>4. QED
  BY <1>3 DEF ResizedPixel, painted

(* The color of an invisible pixel never reaches a resized image, for      *)
(* every image and every pair of lengths, and what is invisible afterwards *)
(* is transparent black.                                                   *)
THEOREM HiddenStaysHidden == SampleSpec => []HiddenColorsStayHidden
<1>1. PixelInv => HiddenColorsStayHidden
  <2>1. SUFFICES ASSUME PixelInv, Resolved("mix"), NEW p \in Square(to)
                 PROVE  /\ outcome[p].a = 0 => outcome[p] = TransparentBlack
                        /\ outcome[p] =
                             ResizedPixel(Painted(sample.image),
                                          axis.value[p[1]], axis.value[p[2]])
    BY DEF HiddenColorsStayHidden, Painted
  <2> DEFINE r == ResizedPixel(sample.image, axis.value[p[1]],
                               axis.value[p[2]])
  <2>2. sample.image \in [Square(from) -> Pixel] /\ outcome[p] = r
    BY <2>1 DEF PixelInv, MixResolves, Resolved, Resized
  <2>3. r.a = 0 => r = TransparentBlack
    BY DEF ResizedPixel, Unpremultiply
  <2>4. QED
    BY <2>2, <2>3, PaintedAlike
<1>2. QED
  BY <1>1, SamplesResolve, PTL

-----------------------------------------------------------------------------
(* One pass of the kernel: a mean of naturals with positive weights.       *)

Weighed(f, w) == [k \in DOMAIN w |-> f[k] * w[k]]

Mean(f, w) ==
  RoundedDivide(SetSum(Weighed(f, w), DOMAIN w), SetSum(w, DOMAIN w))

IsSpan(w) ==
  /\ IsFiniteSet(DOMAIN w) /\ DOMAIN w # {}
  /\ \A k \in DOMAIN w : w[k] \in Nat /\ w[k] > 0

IsValue(f, w) == \A k \in DOMAIN w : f[k] \in Nat

LEMMA MeanSums ==
  ASSUME NEW w, IsSpan(w), NEW f, IsValue(f, w)
  PROVE  /\ SetSum(w, DOMAIN w) \in Nat /\ SetSum(w, DOMAIN w) > 0
         /\ SetSum(Weighed(f, w), DOMAIN w) \in Nat
         /\ \A k \in DOMAIN w : /\ w[k] \in Nat
                                /\ Weighed(f, w)[k] = f[k] * w[k]
                                /\ Weighed(f, w)[k] \in Nat
<1> DEFINE D == DOMAIN w
<1>1. \A k \in D : /\ w[k] \in Nat /\ Weighed(f, w)[k] = f[k] * w[k]
                   /\ Weighed(f, w)[k] \in Nat
  <2>1. SUFFICES ASSUME NEW k \in D
                 PROVE  /\ w[k] \in Nat /\ Weighed(f, w)[k] = f[k] * w[k]
                        /\ Weighed(f, w)[k] \in Nat
    OBVIOUS
  <2>2. w[k] \in Nat /\ f[k] \in Nat
    BY DEF IsSpan, IsValue
  <2>3. QED
    BY <2>2, ProductNat DEF Weighed
<1>2. IsFiniteSet(D) /\ D # {}
  BY DEF IsSpan
<1>3. SetSum(w, D) \in Nat /\ SetSum(Weighed(f, w), D) \in Nat
  BY <1>1, <1>2, SetSumNatural
<1>4. SetSum(w, D) > 0
  <2>1. /\ SetSum(w, D) = w[Chosen(D)] + SetSum(w, D \ {Chosen(D)})
        /\ Chosen(D) \in D /\ IsFiniteSet(D \ {Chosen(D)})
    BY <1>2, SetSumChosen, ChosenRemoved
  <2>2. SetSum(w, D \ {Chosen(D)}) \in Nat
    BY <1>1, <2>1, SetSumNatural
  <2>3. w[Chosen(D)] \in Nat /\ w[Chosen(D)] > 0
    BY <2>1 DEF IsSpan
  <2>4. QED
    BY <2>1, <2>2, <2>3
<1>5. QED
  BY <1>1, <1>3, <1>4

(* A mean lies between what it is the mean of.                             *)
LEMMA MeanBetween ==
  ASSUME NEW w, IsSpan(w), NEW f, IsValue(f, w),
         NEW low \in Nat, NEW high \in Nat,
         \A k \in DOMAIN w : low <= f[k] /\ f[k] <= high
  PROVE  Mean(f, w) \in Nat /\ low <= Mean(f, w) /\ Mean(f, w) <= high
<1> DEFINE D == DOMAIN w
           W == SetSum(w, D)
           F == SetSum(Weighed(f, w), D)
<1>1. W \in Nat /\ W > 0 /\ F \in Nat /\ IsFiniteSet(D)
  BY MeanSums DEF IsSpan
<1>2. ASSUME NEW k \in D
      PROVE  /\ w[k] \in Nat /\ Weighed(f, w)[k] \in Nat
             /\ low * w[k] <= 1 * Weighed(f, w)[k] + 0 * w[k]
             /\ 1 * Weighed(f, w)[k] <= high * w[k] + 0 * w[k]
  <2>1. /\ w[k] \in Nat /\ Weighed(f, w)[k] \in Nat
        /\ Weighed(f, w)[k] = f[k] * w[k] /\ f[k] \in Nat
    BY MeanSums DEF IsValue
  <2>2. low * w[k] <= f[k] * w[k] /\ f[k] * w[k] <= high * w[k]
    BY <2>1, ProductOrdered
  <2>3. low * w[k] \in Nat /\ high * w[k] \in Nat
    BY <2>1, ProductNat
  <2>4. QED
    BY <2>1, <2>2, <2>3
<1>3. low * W <= 1 * F + 0 * W
  <2>1. 0 \in Nat /\ 1 \in Nat
    OBVIOUS
  <2>2. QED
    BY <1>1, <1>2, <2>1, SetSumCompare
<1>4. 1 * F <= high * W + 0 * W
  <2>1. 0 \in Nat /\ 1 \in Nat
    OBVIOUS
  <2>2. QED
    BY <1>1, <1>2, <2>1, SetSumCompare
<1>5. low * W <= F /\ F <= high * W
  BY <1>1, <1>3, <1>4, ProductNat
<1> HIDE DEF F, W
<1>6. /\ RoundedDivide(F, W) \in Nat
      /\ low <= RoundedDivide(F, W) /\ RoundedDivide(F, W) <= high
  BY <1>1, <1>5, RoundBetween, DivideRounds
<1>7. QED
  BY <1>6 DEF Mean, F, W

(* Sums of products, distributed.                                          *)
LEMMA Distributed ==
  ASSUME NEW a \in Nat, NEW x \in Nat, NEW y \in Nat
  PROVE  /\ a * (x + y) = a * x + a * y
         /\ (x + y) * a = x * a + y * a
         /\ a * x \in Nat /\ a * y \in Nat /\ x * a \in Nat /\ y * a \in Nat
OBVIOUS

LEMMA Associated ==
  ASSUME NEW a \in Nat, NEW x \in Nat, NEW y \in Nat
  PROVE  /\ (a * x) * y = a * (x * y)
         /\ (2 * a) * x = a * (2 * x)
         /\ a * (x * y) \in Nat
OBVIOUS

(* A comparison of weighted sums is one of their rounded means, but for    *)
(* the two halves that rounding may be worth.                              *)
LEMMA RoundsCompare ==
  ASSUME NEW F \in Nat, NEW G \in Nat, NEW W \in Nat, W > 0,
         NEW a \in Nat, NEW b \in Nat, NEW e \in Nat,
         (2 * a) * F <= (2 * b) * G + e * W
  PROVE  (2 * a) * RoundedDivide(F, W) <=
           (2 * b) * RoundedDivide(G, W) + (a + b + e)
<1> DEFINE R == RoundedDivide(F, W)
           S == RoundedDivide(G, W)
           X == R * W
           Y == S * W
<1>1. /\ R \in Nat /\ S \in Nat
      /\ 2 * F >= (2 * R - 1) * W /\ 2 * G < (2 * S + 1) * W
  BY DivideRounds DEF RoundsTo
<1> HIDE DEF R, S
<1>2. /\ (2 * R - 1) * W = 2 * X - W /\ (2 * S + 1) * W = 2 * Y + W
      /\ X \in Nat /\ Y \in Nat
  BY <1>1
<1>3. 2 * X <= 2 * F + W /\ 2 * G <= 2 * Y + W
  <2> HIDE DEF X, Y
  <2>1. QED
    BY <1>1, <1>2
<1>4. (2 * a) * X <= (2 * a) * F + a * W
  <2> HIDE DEF X
  <2>1. a * (2 * X) <= a * (2 * F + W)
    BY <1>2, <1>3, ProductOrdered
  <2>2. a * (2 * F + W) = a * (2 * F) + a * W
    BY Distributed
  <2>3. (2 * a) * X = a * (2 * X) /\ (2 * a) * F = a * (2 * F)
    BY <1>2, Associated
  <2>4. QED
    BY <2>1, <2>2, <2>3
<1>5. (2 * b) * G <= (2 * b) * Y + b * W
  <2> HIDE DEF Y
  <2>1. b * (2 * G) <= b * (2 * Y + W)
    BY <1>2, <1>3, ProductOrdered
  <2>2. b * (2 * Y + W) = b * (2 * Y) + b * W
    BY <1>2, Distributed
  <2>3. (2 * b) * Y = b * (2 * Y) /\ (2 * b) * G = b * (2 * G)
    BY <1>2, Associated
  <2>4. QED
    BY <2>1, <2>2, <2>3
<1> DEFINE left == (2 * a) * R
           right == (2 * b) * S + (a + b + e)
<1>6. left \in Nat /\ right \in Nat /\ left * W = (2 * a) * X
  BY <1>1, Associated, ProductNat
<1>7. right * W = (2 * b) * Y + a * W + b * W + e * W
  <2>1. (2 * b) * S \in Nat /\ a + b + e \in Nat
    BY <1>1, ProductNat
  <2>2. right * W = ((2 * b) * S) * W + (a + b + e) * W
    BY <2>1, Distributed
  <2>3. ((2 * b) * S) * W = (2 * b) * Y
    BY <1>1, Associated
  <2>4. (a + b + e) * W = a * W + b * W + e * W
    BY Distributed
  <2>5. QED
    BY <2>1, <2>2, <2>3, <2>4, <1>2, ProductNat
<1>8. left * W <= right * W
  <2>1. /\ (2 * a) * X \in Nat /\ (2 * a) * F \in Nat /\ (2 * b) * G \in Nat
        /\ (2 * b) * Y \in Nat /\ a * W \in Nat /\ b * W \in Nat
        /\ e * W \in Nat
    BY <1>2, ProductNat
  <2> HIDE DEF X, Y, left, right
  <2>2. QED
    BY <1>4, <1>5, <1>6, <1>7, <2>1
<1> HIDE DEF left, right
<1>9. left <= right
  BY <1>6, <1>8, ProductCancel
<1>10. QED
  BY <1>9 DEF left, right, R, S

LEMMA MeansCompare ==
  ASSUME NEW w, IsSpan(w), NEW f, IsValue(f, w), NEW g, IsValue(g, w),
         NEW a \in Nat, NEW b \in Nat, NEW e \in Nat,
         \A k \in DOMAIN w : (2 * a) * f[k] <= (2 * b) * g[k] + e
  PROVE  (2 * a) * Mean(f, w) <= (2 * b) * Mean(g, w) + (a + b + e)
<1> DEFINE D == DOMAIN w
           W == SetSum(w, D)
           F == SetSum(Weighed(f, w), D)
           G == SetSum(Weighed(g, w), D)
<1>1. W \in Nat /\ W > 0 /\ F \in Nat /\ G \in Nat /\ IsFiniteSet(D)
  BY MeanSums DEF IsSpan
<1>2. ASSUME NEW k \in D
      PROVE  /\ w[k] \in Nat
             /\ Weighed(f, w)[k] \in Nat /\ Weighed(g, w)[k] \in Nat
             /\ (2 * a) * Weighed(f, w)[k] <=
                  (2 * b) * Weighed(g, w)[k] + e * w[k]
  <2>1. /\ w[k] \in Nat /\ f[k] \in Nat /\ g[k] \in Nat
        /\ Weighed(f, w)[k] \in Nat /\ Weighed(f, w)[k] = f[k] * w[k]
        /\ Weighed(g, w)[k] \in Nat /\ Weighed(g, w)[k] = g[k] * w[k]
    BY MeanSums DEF IsValue
  <2> DEFINE n == w[k]
             m == f[k]
             l == g[k]
  <2>2. /\ n \in Nat /\ m \in Nat /\ l \in Nat
        /\ (2 * a) * m <= (2 * b) * l + e
    BY <2>1
  <2> HIDE DEF n, m, l
  <2>3. (2 * a) * m \in Nat /\ (2 * b) * l \in Nat
    BY <2>2, ProductNat
  <2>4. ((2 * a) * m) * n <= ((2 * b) * l + e) * n
    BY <2>2, <2>3, ProductOrdered
  <2>5. ((2 * b) * l + e) * n = ((2 * b) * l) * n + e * n
    BY <2>2, <2>3, Distributed
  <2>6. /\ ((2 * a) * m) * n = (2 * a) * (m * n)
        /\ ((2 * b) * l) * n = (2 * b) * (l * n)
    BY <2>2, Associated
  <2>7. (2 * a) * (m * n) <= (2 * b) * (l * n) + e * n
    BY <2>4, <2>5, <2>6
  <2>8. QED
    BY <2>1, <2>7 DEF n, m, l
<1>3. (2 * a) * F <= (2 * b) * G + e * W
  <2>1. 2 * a \in Nat /\ 2 * b \in Nat
    OBVIOUS
  <2>2. QED
    BY <1>1, <1>2, <2>1, SetSumCompare
<1> HIDE DEF F, G, W
<1>4. (2 * a) * RoundedDivide(F, W) <=
        (2 * b) * RoundedDivide(G, W) + (a + b + e)
  BY <1>1, <1>3, RoundsCompare
<1>5. QED
  BY <1>4 DEF Mean, F, G, W

-----------------------------------------------------------------------------
(* The kernel is a mean of means.                                          *)

LEMMA WeightsAddUp ==
  ASSUME NEW w
  PROVE  WeightSum(w) = SetSum(w, DOMAIN w)
BY DEF WeightSum, MapThenSumSet, MapThenFoldSet, SetSum, SetSums, Chosen

RowOf(component, h, y) == [x \in DOMAIN h |-> component[<<x, y>>]]

RowSum(component, h, y) ==
  MapThenSumSet(LAMBDA x : component[<<x, y>>] * h[x], DOMAIN h)

LEMMA RowAddsUp ==
  ASSUME NEW h, IsFiniteSet(DOMAIN h), NEW component, NEW y
  PROVE  RowSum(component, h, y) =
           SetSum(Weighed(RowOf(component, h, y), h), DOMAIN h)
<1> DEFINE D == DOMAIN h
           T == Weighed(RowOf(component, h, y), h)
           P(k) == k = [s \in SUBSET D |->
                     IF s = {} THEN 0
                     ELSE component[<<Chosen(s), y>>] * h[Chosen(s)]
                            + k[s \ {Chosen(s)}]]
           g == CHOOSE k : P(k)
<1>1. RowSum(component, h, y) = g[D]
  BY DEF RowSum, MapThenSumSet, MapThenFoldSet, Chosen
<1>2. ASSUME NEW k PROVE P(k) <=> SetSums(T, D, k)
  <2>1. ASSUME NEW s \in SUBSET D, s # {}
        PROVE  T[Chosen(s)] = component[<<Chosen(s), y>>] * h[Chosen(s)]
    <3>1. Chosen(s) \in D
      BY <2>1 DEF Chosen
    <3>2. QED
      BY <3>1 DEF Weighed, RowOf
  <2> HIDE DEF T
  <2>2. [s \in SUBSET D |->
           IF s = {} THEN 0
           ELSE component[<<Chosen(s), y>>] * h[Chosen(s)]
                  + k[s \ {Chosen(s)}]] =
        [s \in SUBSET D |->
           IF s = {} THEN 0 ELSE T[Chosen(s)] + k[s \ {Chosen(s)}]]
    BY <2>1
  <2>3. QED
    BY <2>2 DEF SetSums
<1>3. \E k : SetSums(T, D, k)
  <2> HIDE DEF T
  <2>1. QED
    BY SetSumsExist
<1> HIDE DEF P, T
<1>4. P(g)
  BY <1>2, <1>3
<1>5. SetSums(T, D, g)
  BY <1>2, <1>4
<1> HIDE DEF g
<1>6. g[D] = SetSum(T, D)
  BY <1>5, SetSumUnique
<1>7. QED
  BY <1>1, <1>6 DEF T

RowMean(component, h, y) == RoundedDivide(RowSum(component, h, y), WeightSum(h))

RowMeans(component, h, v) == [y \in DOMAIN v |-> RowMean(component, h, y)]

ColumnSum(component, h, v) ==
  MapThenSumSet(LAMBDA y : RowMean(component, h, y) * v[y], DOMAIN v)

LEMMA ColumnAddsUp ==
  ASSUME NEW h, NEW v, IsFiniteSet(DOMAIN v), NEW component
  PROVE  ColumnSum(component, h, v) =
           SetSum(Weighed(RowMeans(component, h, v), v), DOMAIN v)
<1> DEFINE D == DOMAIN v
           T == Weighed(RowMeans(component, h, v), v)
           P(k) == k = [s \in SUBSET D |->
                     IF s = {} THEN 0
                     ELSE RowMean(component, h, Chosen(s)) * v[Chosen(s)]
                            + k[s \ {Chosen(s)}]]
           g == CHOOSE k : P(k)
<1>1. ColumnSum(component, h, v) = g[D]
  BY DEF ColumnSum, MapThenSumSet, MapThenFoldSet, Chosen
<1>2. ASSUME NEW k PROVE P(k) <=> SetSums(T, D, k)
  <2>1. ASSUME NEW s \in SUBSET D, s # {}
        PROVE  T[Chosen(s)] = RowMean(component, h, Chosen(s)) * v[Chosen(s)]
    <3>1. Chosen(s) \in D
      BY <2>1 DEF Chosen
    <3>2. QED
      BY <3>1 DEF Weighed, RowMeans
  <2> HIDE DEF T
  <2>2. [s \in SUBSET D |->
           IF s = {} THEN 0
           ELSE RowMean(component, h, Chosen(s)) * v[Chosen(s)]
                  + k[s \ {Chosen(s)}]] =
        [s \in SUBSET D |->
           IF s = {} THEN 0 ELSE T[Chosen(s)] + k[s \ {Chosen(s)}]]
    BY <2>1
  <2>3. QED
    BY <2>2 DEF SetSums
<1>3. \E k : SetSums(T, D, k)
  <2> HIDE DEF T
  <2>1. QED
    BY SetSumsExist
<1> HIDE DEF P, T
<1>4. P(g)
  BY <1>2, <1>3
<1>5. SetSums(T, D, g)
  BY <1>2, <1>4
<1> HIDE DEF g
<1>6. g[D] = SetSum(T, D)
  BY <1>5, SetSumUnique
<1>7. QED
  BY <1>1, <1>6 DEF T

(* The kernel takes the mean of every row, and of those the mean of the    *)
(* column.                                                                 *)
LEMMA KernelMeans ==
  ASSUME NEW h, IsSpan(h), NEW v, IsSpan(v), NEW component
  PROVE  /\ Kernel(component, h, v) = Mean(RowMeans(component, h, v), v)
         /\ \A y : RowMean(component, h, y) = Mean(RowOf(component, h, y), h)
<1>1. IsFiniteSet(DOMAIN h) /\ IsFiniteSet(DOMAIN v)
  BY DEF IsSpan
<1>2. WeightSum(h) = SetSum(h, DOMAIN h) /\ WeightSum(v) = SetSum(v, DOMAIN v)
  BY WeightsAddUp
<1>3. ASSUME NEW y
      PROVE  RowMean(component, h, y) = Mean(RowOf(component, h, y), h)
  BY <1>1, <1>2, RowAddsUp DEF RowMean, Mean
<1>4. Kernel(component, h, v) =
        RoundedDivide(ColumnSum(component, h, v), WeightSum(v))
  BY DEF Kernel, ColumnSum, RowMean, RowSum
<1>5. Kernel(component, h, v) = Mean(RowMeans(component, h, v), v)
  BY <1>1, <1>2, <1>4, ColumnAddsUp DEF Mean
<1>6. QED
  BY <1>3, <1>5

(* A component of the pixels under two spans.                              *)
IsPlane(component, h, v) ==
  \A x \in DOMAIN h, y \in DOMAIN v : component[<<x, y>>] \in Nat

LEMMA RowValues ==
  ASSUME NEW h, IsSpan(h), NEW v, IsSpan(v),
         NEW component, IsPlane(component, h, v)
  PROVE  /\ \A y \in DOMAIN v :
              /\ IsValue(RowOf(component, h, y), h)
              /\ RowMean(component, h, y) = Mean(RowOf(component, h, y), h)
              /\ RowMean(component, h, y) \in Nat
         /\ IsValue(RowMeans(component, h, v), v)
<1>1. ASSUME NEW y \in DOMAIN v
      PROVE  /\ IsValue(RowOf(component, h, y), h)
             /\ RowMean(component, h, y) = Mean(RowOf(component, h, y), h)
             /\ RowMean(component, h, y) \in Nat
  <2>1. IsValue(RowOf(component, h, y), h)
    BY DEF IsValue, RowOf, IsPlane
  <2>2. RowMean(component, h, y) = Mean(RowOf(component, h, y), h)
    BY KernelMeans
  <2>3. Mean(RowOf(component, h, y), h) \in Nat
    <3>1. /\ SetSum(h, DOMAIN h) \in Nat /\ SetSum(h, DOMAIN h) > 0
          /\ SetSum(Weighed(RowOf(component, h, y), h), DOMAIN h) \in Nat
      BY <2>1, MeanSums
    <3>2. QED
      BY <3>1, DivideRounds DEF Mean
  <2>4. QED
    BY <2>1, <2>2, <2>3
<1>2. IsValue(RowMeans(component, h, v), v)
  BY <1>1 DEF IsValue, RowMeans
<1>3. QED
  BY <1>1, <1>2

(* A resized component lies between those it was mixed from.               *)
LEMMA KernelBetween ==
  ASSUME NEW h, IsSpan(h), NEW v, IsSpan(v),
         NEW component, IsPlane(component, h, v),
         NEW low \in Nat, NEW high \in Nat,
         \A x \in DOMAIN h, y \in DOMAIN v :
           low <= component[<<x, y>>] /\ component[<<x, y>>] <= high
  PROVE  /\ Kernel(component, h, v) \in Nat
         /\ low <= Kernel(component, h, v) /\ Kernel(component, h, v) <= high
<1>1. ASSUME NEW y \in DOMAIN v
      PROVE  low <= RowMeans(component, h, v)[y]
             /\ RowMeans(component, h, v)[y] <= high
  <2>1. /\ IsValue(RowOf(component, h, y), h)
        /\ RowMean(component, h, y) = Mean(RowOf(component, h, y), h)
    BY RowValues
  <2>2. \A x \in DOMAIN h : /\ low <= RowOf(component, h, y)[x]
                            /\ RowOf(component, h, y)[x] <= high
    BY DEF RowOf
  <2>3. /\ low <= Mean(RowOf(component, h, y), h)
        /\ Mean(RowOf(component, h, y), h) <= high
    BY <2>1, <2>2, MeanBetween
  <2>4. QED
    BY <2>1, <2>3 DEF RowMeans
<1>2. IsValue(RowMeans(component, h, v), v)
  BY RowValues
<1>3. /\ Mean(RowMeans(component, h, v), v) \in Nat
      /\ low <= Mean(RowMeans(component, h, v), v)
      /\ Mean(RowMeans(component, h, v), v) <= high
  BY <1>1, <1>2, MeanBetween
<1>4. QED
  BY <1>3, KernelMeans

(* Two components that compare at every pixel compare when they are        *)
(* resized, but for the four halves of two roundings of each.              *)
LEMMA KernelsCompare ==
  ASSUME NEW h, IsSpan(h), NEW v, IsSpan(v),
         NEW f, IsPlane(f, h, v), NEW g, IsPlane(g, h, v),
         NEW a \in Nat, NEW b \in Nat,
         \A x \in DOMAIN h, y \in DOMAIN v :
           (2 * a) * f[<<x, y>>] <= (2 * b) * g[<<x, y>>]
  PROVE  (2 * a) * Kernel(f, h, v) <= (2 * b) * Kernel(g, h, v) + 2 * (a + b)
<1>1. ASSUME NEW y \in DOMAIN v
      PROVE  (2 * a) * RowMeans(f, h, v)[y] <=
               (2 * b) * RowMeans(g, h, v)[y] + (a + b)
  <2> DEFINE r == RowOf(f, h, y)
             s == RowOf(g, h, y)
  <2>1. /\ IsValue(r, h) /\ RowMean(f, h, y) = Mean(r, h)
        /\ IsValue(s, h) /\ RowMean(g, h, y) = Mean(s, h)
        /\ Mean(r, h) \in Nat /\ Mean(s, h) \in Nat
    BY RowValues
  <2>2. \A x \in DOMAIN h : (2 * a) * r[x] <= (2 * b) * s[x] + 0
    <3>1. SUFFICES ASSUME NEW x \in DOMAIN h
                   PROVE  (2 * a) * r[x] <= (2 * b) * s[x] + 0
      OBVIOUS
    <3>2. /\ r[x] = f[<<x, y>>] /\ s[x] = g[<<x, y>>]
          /\ s[x] \in Nat
      BY DEF RowOf, IsPlane
    <3>3. (2 * a) * r[x] <= (2 * b) * s[x]
      BY <3>2
    <3>4. (2 * b) * s[x] + 0 = (2 * b) * s[x]
      BY <3>2, ProductNat
    <3>5. QED
      BY <3>3, <3>4
  <2> HIDE DEF r, s
  <2>3. (2 * a) * Mean(r, h) <= (2 * b) * Mean(s, h) + (a + b + 0)
    BY <2>1, <2>2, MeansCompare
  <2>4. a + b + 0 = a + b
    OBVIOUS
  <2>5. QED
    BY <2>1, <2>3, <2>4 DEF RowMeans
<1>2. IsValue(RowMeans(f, h, v), v) /\ IsValue(RowMeans(g, h, v), v)
  BY RowValues
<1>3. a + b \in Nat /\ a + b + (a + b) = 2 * (a + b)
  OBVIOUS
<1>4. (2 * a) * Mean(RowMeans(f, h, v), v) <=
        (2 * b) * Mean(RowMeans(g, h, v), v) + (a + b + (a + b))
  BY <1>1, <1>2, <1>3, MeansCompare
<1>5. QED
  BY <1>3, <1>4, KernelMeans

Colors(image) == [p \in DOMAIN image |-> Premultiply(image[p]).product]

Alphas(image) == [p \in DOMAIN image |-> Premultiply(image[p]).alpha]

Under(image, h, v) == {image[q] : q \in (DOMAIN h) \X (DOMAIN v)}

IsMix(image, h, v) ==
  /\ IsSpan(h) /\ IsSpan(v)
  /\ (DOMAIN h) \X (DOMAIN v) \subseteq DOMAIN image
  /\ \A q \in DOMAIN image : image[q] \in Pixel

LEMMA MixPlanes ==
  ASSUME NEW image, NEW h, NEW v, IsMix(image, h, v)
  PROVE  /\ \A x \in DOMAIN h, y \in DOMAIN v :
              /\ image[<<x, y>>] \in Under(image, h, v)
              /\ image[<<x, y>>] \in Pixel
              /\ image[<<x, y>>].c \in Channel /\ image[<<x, y>>].a \in Channel
              /\ Colors(image)[<<x, y>>] =
                   image[<<x, y>>].c * image[<<x, y>>].a
              /\ Alphas(image)[<<x, y>>] = image[<<x, y>>].a
              /\ Colors(image)[<<x, y>>] \in Nat
              /\ Alphas(image)[<<x, y>>] \in Nat
         /\ IsPlane(Colors(image), h, v) /\ IsPlane(Alphas(image), h, v)
<1>1. ASSUME NEW x \in DOMAIN h, NEW y \in DOMAIN v
      PROVE  /\ image[<<x, y>>] \in Under(image, h, v)
             /\ image[<<x, y>>] \in Pixel
             /\ image[<<x, y>>].c \in Channel /\ image[<<x, y>>].a \in Channel
             /\ Colors(image)[<<x, y>>] =
                  image[<<x, y>>].c * image[<<x, y>>].a
             /\ Alphas(image)[<<x, y>>] = image[<<x, y>>].a
             /\ Colors(image)[<<x, y>>] \in Nat
             /\ Alphas(image)[<<x, y>>] \in Nat
  <2> DEFINE q == <<x, y>>
  <2>1. q \in (DOMAIN h) \X (DOMAIN v) /\ q \in DOMAIN image
    BY DEF IsMix
  <2> HIDE DEF q
  <2>2. image[q] \in Pixel /\ image[q] \in Under(image, h, v)
    BY <2>1 DEF IsMix, Under
  <2>3. image[q].c \in Channel /\ image[q].a \in Channel
    BY <2>2 DEF Pixel
  <2>4. /\ DoubleByte(image[q].c * image[q].a) = image[q].c * image[q].a
        /\ image[q].c * image[q].a \in Nat
    BY <2>3, ProductExact
  <2>5. /\ Colors(image)[q] = image[q].c * image[q].a
        /\ Alphas(image)[q] = image[q].a
    BY <2>1, <2>4 DEF Colors, Alphas, Premultiply
  <2>6. image[q].a \in Nat
    BY <2>3, PixelAssumption DEF Channel
  <2>7. QED
    BY <2>2, <2>3, <2>4, <2>5, <2>6 DEF q
<1>2. QED
  BY <1>1 DEF IsPlane

(* No number that is at most a product of two bytes is cut.                *)
LEMMA DoubleByteExact ==
  ASSUME NEW n \in Nat, n <= ChannelMax * ChannelMax
  PROVE  DoubleByte(n) = n
<1> DEFINE M == ChannelMax
           W == (M + 1) * (M + 1)
<1>1. M \in Nat
  BY PixelAssumption
<1>2. W = M * M + 2 * M + 1 /\ M * M \in Nat
  BY <1>1
<1>3. W \in Nat /\ n < W
  BY <1>1, <1>2
<1> HIDE DEF W
<1>4. n % W = n
  BY <1>3
<1>5. QED
  BY <1>4 DEF DoubleByte, W

(* What a resized pixel is: its alpha the mean of the alphas, its color    *)
(* the mean of the products over it.                                       *)
LEMMA MixedPixel ==
  ASSUME NEW image, NEW h, NEW v, IsMix(image, h, v)
  PROVE  LET C == Kernel(Colors(image), h, v)
             A == Kernel(Alphas(image), h, v)
             q == RoundedDivide(C, A)
         IN  /\ C \in Nat /\ A \in Channel
             /\ ResizedPixel(image, h, v) =
                  IF A = 0 THEN TransparentBlack
                  ELSE [c |-> IF q > ChannelMax THEN ChannelMax ELSE q, a |-> A]
<1> DEFINE C == Kernel(Colors(image), h, v)
           A == Kernel(Alphas(image), h, v)
           M == ChannelMax
<1>1. M \in Nat /\ 0 \in Nat /\ M * M \in Nat
  BY PixelAssumption, ProductNat
<1>2. /\ IsSpan(h) /\ IsSpan(v)
      /\ IsPlane(Colors(image), h, v) /\ IsPlane(Alphas(image), h, v)
  BY MixPlanes DEF IsMix
<1>3. ASSUME NEW x \in DOMAIN h, NEW y \in DOMAIN v
      PROVE  /\ 0 <= Colors(image)[<<x, y>>] /\ Colors(image)[<<x, y>>] <= M * M
             /\ 0 <= Alphas(image)[<<x, y>>] /\ Alphas(image)[<<x, y>>] <= M
  <2> DEFINE c == image[<<x, y>>].c
             a == image[<<x, y>>].a
  <2>1. /\ Colors(image)[<<x, y>>] = c * a /\ Alphas(image)[<<x, y>>] = a
        /\ c \in Nat /\ c <= M /\ a \in Nat /\ a <= M
    BY MixPlanes, <1>1 DEF Channel
  <2> HIDE DEF c, a
  <2>2. c * a <= M * a /\ M * a <= M * M /\ c * a \in Nat /\ M * a \in Nat
    BY <1>1, <2>1, ProductOrdered, ProductNat
  <2>3. QED
    BY <1>1, <2>1, <2>2
<1>4. C \in Nat /\ 0 <= C /\ C <= M * M
  BY <1>1, <1>2, <1>3, KernelBetween
<1>5. A \in Nat /\ 0 <= A /\ A <= M
  BY <1>1, <1>2, <1>3, KernelBetween
<1>6. ResizedPixel(image, h, v) =
        Unpremultiply([product |-> DoubleByte(C), alpha |-> Byte(A)])
  BY DEF ResizedPixel, Colors, Alphas
<1> HIDE DEF C, A
<1>7. A \in Channel /\ Byte(A) = A /\ DoubleByte(C) = C
  BY <1>1, <1>4, <1>5, ByteExact, DoubleByteExact DEF Channel
<1>8. QED
  BY <1>4, <1>6, <1>7 DEF Unpremultiply, C, A

Seen(image, h, v) == {q \in Under(image, h, v) : q.a > 0}

AlphasUnder(image, h, v) == {q.a : q \in Under(image, h, v)}

Lowest(image, h, v) == Min({q.c : q \in Seen(image, h, v)})

Highest(image, h, v) == Max({q.c : q \in Seen(image, h, v)})

LEMMA UnderTypes ==
  ASSUME NEW image, NEW h, NEW v, IsMix(image, h, v)
  PROVE  /\ Under(image, h, v) # {}
         /\ \A q \in Under(image, h, v) :
              /\ q = [c |-> q.c, a |-> q.a]
              /\ q.c \in Nat /\ q.c <= ChannelMax
              /\ q.a \in Nat /\ q.a <= ChannelMax
         /\ IsFiniteSet(Under(image, h, v))
<1> DEFINE D == (DOMAIN h) \X (DOMAIN v)
           U == Under(image, h, v)
<1>1. IsFiniteSet(DOMAIN h) /\ IsFiniteSet(DOMAIN v) /\ D # {}
  <2>1. /\ IsFiniteSet(DOMAIN h) /\ DOMAIN h # {}
        /\ IsFiniteSet(DOMAIN v) /\ DOMAIN v # {}
    BY FS_EmptySet DEF IsMix, IsSpan
  <2>2. PICK x \in DOMAIN h, y \in DOMAIN v : TRUE
    BY <2>1
  <2>3. <<x, y>> \in D
    OBVIOUS
  <2>4. QED
    BY <2>1, <2>3
<1>2. IsFiniteSet(D)
  BY <1>1, FS_Product
<1>3. D \subseteq DOMAIN image /\ U = {image[q] : q \in D}
  BY DEF IsMix, Under
<1> HIDE DEF D
<1>4. U # {}
  BY <1>1, <1>3
<1>5. ASSUME NEW q \in U
      PROVE  /\ q = [c |-> q.c, a |-> q.a]
             /\ q.c \in Nat /\ q.c <= ChannelMax
             /\ q.a \in Nat /\ q.a <= ChannelMax
  <2>1. q \in Pixel
    BY <1>3 DEF IsMix
  <2>2. q = [c |-> q.c, a |-> q.a] /\ q.c \in Channel /\ q.a \in Channel
    BY <2>1 DEF Pixel
  <2>3. QED
    BY <2>2, PixelAssumption DEF Channel
<1>6. IsFiniteSet(U)
  <2> DEFINE f == [q \in D |-> image[q]]
  <2>1. f \in Surjection(D, U)
    BY <1>3 DEF Surjection
  <2>2. QED
    BY <1>2, <2>1, FS_Surjection
<1>7. QED
  BY <1>4, <1>5, <1>6

LEMMA AlphaRange ==
  ASSUME NEW image, NEW h, NEW v, IsMix(image, h, v)
  PROVE  LET T == AlphasUnder(image, h, v)
         IN  /\ Min(T) \in T /\ Max(T) \in T
             /\ Min(T) \in Nat /\ Max(T) \in Nat
             /\ \A q \in Under(image, h, v) :
                  q.a \in T /\ Min(T) <= q.a /\ q.a <= Max(T)
<1> DEFINE T == AlphasUnder(image, h, v)
<1>1. T \subseteq 0 .. ChannelMax /\ T # {} /\ ChannelMax \in Nat
  BY UnderTypes, PixelAssumption DEF AlphasUnder
<1>2. \A q \in Under(image, h, v) : q.a \in T
  BY DEF AlphasUnder
<1> HIDE DEF T
<1>3. /\ Min(T) \in T /\ \A x \in T : Min(T) <= x
      /\ Max(T) \in T /\ \A x \in T : x <= Max(T)
  BY <1>1, Extremes
<1>4. QED
  BY <1>1, <1>2, <1>3 DEF T

LEMMA ColorRange ==
  ASSUME NEW image, NEW h, NEW v, IsMix(image, h, v), Seen(image, h, v) # {}
  PROVE  /\ Lowest(image, h, v) \in Nat /\ Highest(image, h, v) \in Nat
         /\ Highest(image, h, v) <= ChannelMax
         /\ \A q \in Seen(image, h, v) :
              Lowest(image, h, v) <= q.c /\ q.c <= Highest(image, h, v)
<1> DEFINE T == {q.c : q \in Seen(image, h, v)}
<1>1. T \subseteq 0 .. ChannelMax /\ T # {} /\ ChannelMax \in Nat
  BY UnderTypes, PixelAssumption DEF Seen
<1>2. \A q \in Seen(image, h, v) : q.c \in T
  OBVIOUS
<1>3. Lowest(image, h, v) = Min(T) /\ Highest(image, h, v) = Max(T)
  BY DEF Lowest, Highest
<1> HIDE DEF T
<1>4. /\ Min(T) \in T /\ \A x \in T : Min(T) <= x
      /\ Max(T) \in T /\ \A x \in T : x <= Max(T)
  BY <1>1, Extremes
<1>5. /\ Min(T) \in Nat /\ Max(T) \in Nat /\ Max(T) <= ChannelMax
  <2>1. Min(T) \in 0 .. ChannelMax /\ Max(T) \in 0 .. ChannelMax
    <3>1. Min(T) \in T /\ Max(T) \in T
      BY <1>4
    <3>2. QED
      BY <1>1, <3>1
  <2>2. QED
    BY <1>1, <2>1
<1>6. ASSUME NEW q \in Seen(image, h, v)
      PROVE  Min(T) <= q.c /\ q.c <= Max(T)
  BY <1>2, <1>4
<1>7. QED
  BY <1>3, <1>5, <1>6

(* Products over alphas compare with the lowest and the highest color.     *)
LEMMA MixBounds ==
  ASSUME NEW image, NEW h, NEW v, IsMix(image, h, v), Seen(image, h, v) # {}
  PROVE  LET C == Kernel(Colors(image), h, v)
             A == Kernel(Alphas(image), h, v)
             low == Lowest(image, h, v)
             high == Highest(image, h, v)
         IN  /\ 2 * C <= 2 * (high * A) + 2 * (1 + high)
             /\ 2 * (low * A) <= 2 * C + 2 * (low + 1)
<1>1. /\ Lowest(image, h, v) \in Nat /\ Highest(image, h, v) \in Nat
      /\ \A q \in Seen(image, h, v) :
           Lowest(image, h, v) <= q.c /\ q.c <= Highest(image, h, v)
  BY ColorRange
<1> DEFINE f == Colors(image)
           g == Alphas(image)
           low == Lowest(image, h, v)
           high == Highest(image, h, v)
           C == Kernel(f, h, v)
           A == Kernel(g, h, v)
<1>2. IsSpan(h) /\ IsSpan(v) /\ IsPlane(f, h, v) /\ IsPlane(g, h, v)
  BY MixPlanes DEF IsMix
<1>3. low \in Nat /\ high \in Nat
  BY <1>1
<1>4. ASSUME NEW x \in DOMAIN h, NEW y \in DOMAIN v
      PROVE  /\ (2 * 1) * f[<<x, y>>] <= (2 * high) * g[<<x, y>>]
             /\ (2 * low) * g[<<x, y>>] <= (2 * 1) * f[<<x, y>>]
  <2> DEFINE q == image[<<x, y>>]
             c == q.c
             a == q.a
  <2>1. /\ q \in Under(image, h, v)
        /\ f[<<x, y>>] = c * a /\ g[<<x, y>>] = a
    BY MixPlanes
  <2>2. c \in Nat /\ a \in Nat
    BY <2>1, UnderTypes
  <2>3. a > 0 => low <= c /\ c <= high
    <3>1. a > 0 => q \in Seen(image, h, v)
      BY <2>1 DEF Seen
    <3>2. \A p \in Seen(image, h, v) : low <= p.c /\ p.c <= high
      BY <1>1
    <3> HIDE DEF q, low, high
    <3>3. QED
      BY <3>1, <3>2 DEF c, a
  <2> HIDE DEF c, a, low, high
  <2>4. c * a <= high * a /\ low * a <= c * a
    <3>1. CASE a > 0
      BY <1>3, <2>2, <2>3, <3>1, ProductOrdered
    <3>2. CASE a = 0
      <4>1. c * 0 = 0 /\ high * 0 = 0 /\ low * 0 = 0
        BY <1>3, <2>2
      <4>2. QED
        BY <3>2, <4>1
    <3>3. QED
      BY <2>2, <3>1, <3>2
  <2>5. /\ (2 * high) * a = 2 * (high * a) /\ (2 * low) * a = 2 * (low * a)
        /\ high * a \in Nat /\ low * a \in Nat /\ c * a \in Nat
    BY <1>3, <2>2, ProductNat
  <2>6. QED
    BY <2>1, <2>2, <2>4, <2>5
<1>5. (2 * 1) * C <= (2 * high) * A + 2 * (1 + high)
  <2>1. 1 \in Nat
    OBVIOUS
  <2> HIDE DEF f, g, low, high
  <2>2. QED
    BY <1>3, <1>2, <1>4, <2>1, KernelsCompare
<1>6. (2 * low) * A <= (2 * 1) * C + 2 * (low + 1)
  <2>1. 1 \in Nat
    OBVIOUS
  <2> HIDE DEF f, g, low, high
  <2>2. QED
    BY <1>3, <1>2, <1>4, <2>1, KernelsCompare
<1>7. C \in Nat /\ A \in Nat
  <2>1. A \in Channel /\ C \in Nat
    BY MixedPixel
  <2>2. QED
    BY <2>1, PixelAssumption DEF Channel
<1> HIDE DEF C, A, low, high
<1>8. (2 * high) * A = 2 * (high * A) /\ (2 * low) * A = 2 * (low * A)
  BY <1>3, <1>7
<1>9. QED
  BY <1>5, <1>6, <1>7, <1>8 DEF C, A, low, high

(* Alpha stays between the alphas it is mixed from.                        *)
LEMMA MixedAlpha ==
  ASSUME NEW image, NEW h, NEW v, IsMix(image, h, v)
  PROVE  LET A == Kernel(Alphas(image), h, v)
         IN  /\ A \in Nat /\ A <= ChannelMax
             /\ ResizedPixel(image, h, v).a = A
             /\ Min(AlphasUnder(image, h, v)) <= A
             /\ A <= Max(AlphasUnder(image, h, v))
             /\ A > 0 => Seen(image, h, v) # {}
<1> DEFINE A == Kernel(Alphas(image), h, v)
           T == AlphasUnder(image, h, v)
<1>1. /\ IsSpan(h) /\ IsSpan(v) /\ IsPlane(Alphas(image), h, v)
  BY MixPlanes DEF IsMix
<1>2. A \in Nat /\ A <= ChannelMax /\ ResizedPixel(image, h, v).a = A
  BY MixedPixel, PixelAssumption DEF Channel, TransparentBlack
<1>3. /\ Min(T) \in Nat /\ Max(T) \in Nat
      /\ \A q \in Under(image, h, v) : Min(T) <= q.a /\ q.a <= Max(T)
  BY AlphaRange
<1>4. ASSUME NEW x \in DOMAIN h, NEW y \in DOMAIN v
      PROVE  /\ image[<<x, y>>] \in Under(image, h, v)
             /\ Alphas(image)[<<x, y>>] = image[<<x, y>>].a
  BY MixPlanes
<1>5. Min(T) <= A /\ A <= Max(T)
  <2> HIDE DEF T
  <2>1. ASSUME NEW x \in DOMAIN h, NEW y \in DOMAIN v
        PROVE  /\ Min(T) <= Alphas(image)[<<x, y>>]
               /\ Alphas(image)[<<x, y>>] <= Max(T)
    BY <1>3, <1>4
  <2>2. QED
    BY <1>1, <1>3, <2>1, KernelBetween
<1>6. A > 0 => Seen(image, h, v) # {}
  <2>1. SUFFICES ASSUME Seen(image, h, v) = {} PROVE A <= 0
    BY <1>2
  <2>2. ASSUME NEW x \in DOMAIN h, NEW y \in DOMAIN v
        PROVE  /\ 0 <= Alphas(image)[<<x, y>>]
               /\ Alphas(image)[<<x, y>>] <= 0
    <3> DEFINE q == image[<<x, y>>]
    <3>1. q \in Under(image, h, v) /\ Alphas(image)[<<x, y>>] = q.a
      BY <1>4
    <3>2. q.a \in Nat
      BY <3>1, UnderTypes
    <3>3. ~(q.a > 0)
      BY <2>1, <3>1 DEF Seen
    <3> HIDE DEF q
    <3>4. QED
      BY <3>1, <3>2, <3>3
  <2>3. 0 \in Nat
    OBVIOUS
  <2>4. QED
    BY <1>1, <2>2, <2>3, KernelBetween
<1>7. QED
  BY <1>2, <1>5, <1>6

(* What the two roundings may carry a color past those it is mixed from.   *)
LEMMA MixedColor ==
  ASSUME NEW image, NEW h, NEW v, IsMix(image, h, v),
         ResizedPixel(image, h, v).a > 0
  PROVE  LET r == ResizedPixel(image, h, v)
             low == Lowest(image, h, v)
             high == Highest(image, h, v)
         IN  /\ r.c \in Channel
             /\ 2 * r.a * (r.c - high) <= 2 * (high + 1) + r.a
             /\ 2 * r.a * (low - r.c) <= 2 * (low + 1) + r.a
<1> DEFINE C == Kernel(Colors(image), h, v)
           A == Kernel(Alphas(image), h, v)
           q == RoundedDivide(C, A)
           M == ChannelMax
           r == ResizedPixel(image, h, v)
           low == Lowest(image, h, v)
           high == Highest(image, h, v)
           c == IF q > M THEN M ELSE q
<1>1. /\ A \in Nat /\ A > 0 /\ r.a = A /\ Seen(image, h, v) # {}
  BY MixedAlpha
<1>2. C \in Nat /\ r = [c |-> c, a |-> A]
  BY MixedPixel, <1>1
<1>3. /\ low \in Nat /\ high \in Nat /\ high <= M
      /\ \A e \in Seen(image, h, v) : low <= e.c /\ e.c <= high
  BY <1>1, ColorRange
<1>4. low <= high
  <2>1. PICK e \in Seen(image, h, v) : TRUE
    BY <1>1
  <2>2. e \in Under(image, h, v)
    BY DEF Seen
  <2>3. e.c \in Nat
    BY <2>2, UnderTypes
  <2>4. low <= e.c /\ e.c <= high
    BY <1>3
  <2> HIDE DEF low, high
  <2>5. QED
    BY <1>3, <2>3, <2>4
<1>5. /\ 2 * C <= 2 * (high * A) + 2 * (1 + high)
      /\ 2 * (low * A) <= 2 * C + 2 * (low + 1)
  BY <1>1, MixBounds
<1> HIDE DEF C, A, low, high
<1>6. q \in Nat /\ RoundsTo(C, A, q)
  BY <1>1, <1>2, DivideRounds
<1>7. M \in Nat
  BY PixelAssumption
<1> HIDE DEF q, M
<1>8. /\ (2 * q - 1) * A = 2 * (q * A) - A
      /\ (2 * q + 1) * A = 2 * (q * A) + A
      /\ q * A \in Nat /\ high * A \in Nat /\ low * A \in Nat
  BY <1>1, <1>3, <1>6
<1>9. /\ 2 * (q * A) - A <= 2 * C /\ 2 * C < 2 * (q * A) + A
  BY <1>6, <1>8 DEF RoundsTo
<1>10. /\ 2 * (q * A) <= 2 * (high * A) + 2 * (high + 1) + A
       /\ 2 * (low * A) <= 2 * (q * A) + 2 * (low + 1) + A
  BY <1>1, <1>2, <1>3, <1>5, <1>8, <1>9
<1>11. c \in Nat /\ c <= M /\ c <= q /\ (c = q \/ (c = M /\ M < q))
  BY <1>6, <1>7
<1> HIDE DEF c
<1>12. c * A <= q * A /\ c * A \in Nat
  BY <1>1, <1>6, <1>11, ProductOrdered, ProductNat
<1>13. 2 * (low * A) <= 2 * (c * A) + 2 * (low + 1) + A
  <2>1. CASE c = q
    BY <1>10, <2>1
  <2>2. CASE c = M
    <3>1. low <= c
      BY <1>3, <1>4, <1>7, <2>2
    <3>2. low * A <= c * A
      BY <1>1, <1>3, <1>11, <3>1, ProductOrdered
    <3>3. QED
      BY <1>1, <1>3, <1>8, <1>12, <3>2
  <2>3. QED
    BY <1>11, <2>1, <2>2
<1>14. /\ 2 * A * (c - high) = 2 * (c * A) - 2 * (high * A)
       /\ 2 * A * (low - c) = 2 * (low * A) - 2 * (c * A)
  BY <1>1, <1>3, <1>11
<1>15. /\ 2 * A * (c - high) <= 2 * (high + 1) + A
       /\ 2 * A * (low - c) <= 2 * (low + 1) + A
  BY <1>1, <1>3, <1>8, <1>10, <1>12, <1>13, <1>14
<1>16. c \in Channel
  BY <1>11, <1>7 DEF Channel, M
<1>17. r.c = c /\ r.a = A
  BY <1>2
<1> HIDE DEF r
<1>18. QED
  BY <1>15, <1>16, <1>17 DEF r, low, high

(* Opaque pixels mix to a color between theirs.                            *)
LEMMA OpaqueColor ==
  ASSUME NEW image, NEW h, NEW v, IsMix(image, h, v),
         AlphasUnder(image, h, v) = {ChannelMax}
  PROVE  /\ Lowest(image, h, v) <= ResizedPixel(image, h, v).c
         /\ ResizedPixel(image, h, v).c <= Highest(image, h, v)
<1> DEFINE C == Kernel(Colors(image), h, v)
           A == Kernel(Alphas(image), h, v)
           q == RoundedDivide(C, A)
           M == ChannelMax
           low == Lowest(image, h, v)
           high == Highest(image, h, v)
<1>1. M \in Nat /\ M > 0
  BY PixelAssumption
<1>2. ASSUME NEW e \in Under(image, h, v)
      PROVE  e.a = M /\ e \in Seen(image, h, v)
  <2>1. e.a \in AlphasUnder(image, h, v)
    BY DEF AlphasUnder
  <2>2. e.a = M
    BY <2>1
  <2>3. QED
    BY <1>1, <2>2 DEF Seen
<1>3. Seen(image, h, v) # {}
  <2>1. PICK e : e \in Under(image, h, v)
    BY UnderTypes
  <2>2. QED
    BY <1>2, <2>1
<1>4. /\ low \in Nat /\ high \in Nat /\ high <= M
      /\ \A e \in Seen(image, h, v) : low <= e.c /\ e.c <= high
  BY <1>3, ColorRange
<1>5. /\ IsSpan(h) /\ IsSpan(v)
      /\ IsPlane(Colors(image), h, v) /\ IsPlane(Alphas(image), h, v)
  BY MixPlanes DEF IsMix
<1>6. low * M \in Nat /\ high * M \in Nat
  <2> HIDE DEF low, high, M
  <2>1. QED
    BY <1>1, <1>4, ProductNat
<1>7. ASSUME NEW x \in DOMAIN h, NEW y \in DOMAIN v
      PROVE  /\ M <= Alphas(image)[<<x, y>>] /\ Alphas(image)[<<x, y>>] <= M
             /\ low * M <= Colors(image)[<<x, y>>]
             /\ Colors(image)[<<x, y>>] <= high * M
  <2> DEFINE e == image[<<x, y>>]
             c == e.c
  <2>1. /\ e \in Under(image, h, v)
        /\ Alphas(image)[<<x, y>>] = e.a
        /\ Colors(image)[<<x, y>>] = c * e.a
    BY MixPlanes
  <2>2. e.a = M /\ e \in Seen(image, h, v)
    BY <1>2, <2>1
  <2>3. c \in Nat
    BY <2>1, UnderTypes
  <2>4. low <= c /\ c <= high
    BY <1>4, <2>2
  <2> HIDE DEF c, e, low, high, M
  <2>5. low * M <= c * M /\ c * M <= high * M
    BY <1>1, <1>4, <2>3, <2>4, ProductOrdered
  <2>6. QED
    BY <1>1, <2>1, <2>2, <2>5
<1>8. A \in Nat /\ M <= A /\ A <= M
  BY <1>1, <1>5, <1>7, KernelBetween
<1>9. C \in Nat /\ low * M <= C /\ C <= high * M
  <2> HIDE DEF low, high
  <2>1. QED
    BY <1>5, <1>6, <1>7, KernelBetween
<1>10. ResizedPixel(image, h, v) =
         IF A = 0 THEN TransparentBlack
         ELSE [c |-> IF q > M THEN M ELSE q, a |-> A]
  BY MixedPixel
<1> HIDE DEF C, A, low, high, M
<1>11. A = M
  BY <1>1, <1>8
<1>12. low <= q /\ q <= high /\ q \in Nat
  BY <1>1, <1>4, <1>9, <1>11, RoundBetween, DivideRounds
<1> HIDE DEF q
<1>13. ResizedPixel(image, h, v).c = q
  BY <1>1, <1>4, <1>10, <1>11, <1>12
<1>14. QED
  BY <1>12, <1>13 DEF low, high

(* Pixels that are alike and visible mix to the same pixel.                *)
LEMMA AlikePixels ==
  ASSUME NEW image, NEW h, NEW v, IsMix(image, h, v),
         Cardinality(Under(image, h, v)) = 1, Seen(image, h, v) # {}
  PROVE  ResizedPixel(image, h, v) \in Under(image, h, v)
<1> DEFINE C == Kernel(Colors(image), h, v)
           A == Kernel(Alphas(image), h, v)
           M == ChannelMax
<1>1. PICK e : Under(image, h, v) = {e}
  BY UnderTypes, FS_Singleton
<1> DEFINE c == e.c
           a == e.a
<1>2. e \in Under(image, h, v) /\ e \in Seen(image, h, v)
  BY <1>1 DEF Seen
<1>3. /\ e = [c |-> c, a |-> a] /\ c \in Nat /\ c <= M /\ a \in Nat
  BY <1>2, UnderTypes
<1>4. a > 0
  BY <1>2 DEF Seen
<1>5. /\ IsSpan(h) /\ IsSpan(v)
      /\ IsPlane(Colors(image), h, v) /\ IsPlane(Alphas(image), h, v)
  BY MixPlanes DEF IsMix
<1>6. ASSUME NEW x \in DOMAIN h, NEW y \in DOMAIN v
      PROVE  /\ Colors(image)[<<x, y>>] = c * a
             /\ Alphas(image)[<<x, y>>] = a
  <2>1. /\ image[<<x, y>>] \in Under(image, h, v)
        /\ Colors(image)[<<x, y>>] = image[<<x, y>>].c * image[<<x, y>>].a
        /\ Alphas(image)[<<x, y>>] = image[<<x, y>>].a
    BY MixPlanes
  <2>2. image[<<x, y>>] = e
    BY <1>1, <2>1
  <2>3. QED
    BY <2>1, <2>2
<1>7. ResizedPixel(image, h, v) =
        LET q == RoundedDivide(C, A)
        IN  IF A = 0 THEN TransparentBlack
            ELSE [c |-> IF q > M THEN M ELSE q, a |-> A]
  BY MixedPixel
<1>8. M \in Nat
  BY PixelAssumption
<1> HIDE DEF c, a
<1>9. c * a \in Nat /\ c * a <= c * a
  BY <1>3, ProductNat
<1>10. C = c * a
  <2>1. ASSUME NEW x \in DOMAIN h, NEW y \in DOMAIN v
        PROVE  /\ c * a <= Colors(image)[<<x, y>>]
               /\ Colors(image)[<<x, y>>] <= c * a
    BY <1>6, <1>9
  <2>2. C \in Nat /\ c * a <= C /\ C <= c * a
    BY <1>5, <1>9, <2>1, KernelBetween
  <2>3. QED
    BY <1>9, <2>2
<1>11. A = a
  <2>1. ASSUME NEW x \in DOMAIN h, NEW y \in DOMAIN v
        PROVE  a <= Alphas(image)[<<x, y>>] /\ Alphas(image)[<<x, y>>] <= a
    BY <1>3, <1>6
  <2>2. A \in Nat /\ a <= A /\ A <= a
    BY <1>3, <1>5, <2>1, KernelBetween
  <2>3. QED
    BY <1>3, <2>2
<1>12. RoundedDivide(c * a, a) = c
  BY <1>3, <1>4, RoundWhole
<1> HIDE DEF C, A, M
<1>13. ResizedPixel(image, h, v) = [c |-> c, a |-> a]
  BY <1>3, <1>4, <1>7, <1>8, <1>10, <1>11, <1>12
<1>14. QED
  BY <1>2, <1>3, <1>13

(* The spans of an axis that was populated.                                *)
LEMMA SpansOfAxis ==
  ASSUME NEW source \in Nat \ {0}, NEW destination \in Nat \ {0},
         PopulateAxis(source, destination).ok,
         NEW i \in 0 .. destination - 1
  PROVE  LET span == PopulateAxis(source, destination).value[i]
         IN  IsSpan(span) /\ DOMAIN span \subseteq 0 .. source - 1
<1> DEFINE D == 0 .. destination - 1
           axes == [j \in D |-> [k \in TapIndices(j, source, destination) |->
                                   TapWeight(k, j, source, destination)]]
           span == axes[i]
<1>1. /\ PopulateAxis(source, destination).value = axes
      /\ ~\E j \in D : \E k \in DOMAIN axes[j] : axes[j][k] \notin 1 .. WordMax
  BY DEF PopulateAxis, Ok, Err
<1>2. DOMAIN span = TapIndices(i, source, destination)
  OBVIOUS
<1>3. DOMAIN span \subseteq 0 .. source - 1 /\ DOMAIN span # {}
  BY <1>2, TapsInside
<1>4. ASSUME NEW k \in DOMAIN span PROVE span[k] \in Nat /\ span[k] > 0
  <2>1. span[k] \in 1 .. WordMax
    BY <1>1
  <2> HIDE DEF span
  <2>2. QED
    BY <2>1
<1> HIDE DEF span, axes
<1>5. IsFiniteSet(DOMAIN span)
  <2>1. IsFiniteSet(0 .. source - 1)
    BY FS_Interval
  <2>2. QED
    BY <1>3, <2>1, FS_Subset
<1>6. IsSpan(span)
  BY <1>3, <1>4, <1>5 DEF IsSpan
<1>7. QED
  BY <1>1, <1>3, <1>6 DEF span

(* resize_quality mixes and nothing else, for every image, every pair of   *)
(* sizes whose plan fits the word and every width of channel: alpha and,   *)
(* where the pixels are opaque or alike, color stay exactly between those  *)
(* under the spans, and where they are not the error of the two roundings  *)
(* is at most that of the bound.                                           *)
THEOREM ResizingMixes == SampleSpec => []MixesWithinColors
<1>1. PixelInv => MixesWithinColors
  <2>1. SUFFICES ASSUME PixelInv, sample.kind = "mix", outcome # Unresolved,
                        NEW p \in Square(to)
                 PROVE
      LET under == { sample.image[q] :
                       q \in (DOMAIN axis.value[p[1]])
                               \X (DOMAIN axis.value[p[2]]) }
          seen   == {q \in under : q.a > 0}
          alphas == {q.a : q \in under}
          low    == Min({q.c : q \in seen})
          high   == Max({q.c : q \in seen})
          r      == outcome[p]
      IN  /\ r.a >= Min(alphas) /\ r.a <= Max(alphas)
          /\ alphas = {ChannelMax} => r.c >= low /\ r.c <= high
          /\ Cardinality(under) = 1 /\ seen # {} => r \in under
          /\ r.a > 0 =>
               /\ r.c \in Channel
               /\ 2 * r.a * (r.c - high) <= 2 * (high + 1) + r.a
               /\ 2 * r.a * (low - r.c) <= 2 * (low + 1) + r.a
    BY DEF MixesWithinColors, Resolved
  <2> DEFINE image == sample.image
             h == axis.value[p[1]]
             v == axis.value[p[2]]
             r == outcome[p]
             T == AlphasUnder(image, h, v)
             low == Lowest(image, h, v)
             high == Highest(image, h, v)
  <2>2. /\ image \in [Square(from) -> Pixel]
        /\ from \in Nat \ {0} /\ to \in Nat \ {0}
        /\ axis = PopulateAxis(from, to) /\ axis.ok
        /\ outcome = Resized
    BY <2>1 DEF PixelInv, MixResolves, AxisResolves
  <2>3. p[1] \in 0 .. to - 1 /\ p[2] \in 0 .. to - 1
    BY DEF Square
  <2>4. /\ IsSpan(h) /\ DOMAIN h \subseteq 0 .. from - 1
        /\ IsSpan(v) /\ DOMAIN v \subseteq 0 .. from - 1
    BY <2>2, <2>3, SpansOfAxis
  <2>5. r = ResizedPixel(image, h, v)
    BY <2>2 DEF Resized
  <2> HIDE DEF image, h, v, r
  <2>6. IsMix(image, h, v)
    <3>1. /\ DOMAIN image = Square(from)
          /\ \A q \in DOMAIN image : image[q] \in Pixel
      BY <2>2
    <3>2. (DOMAIN h) \X (DOMAIN v) \subseteq Square(from)
      BY <2>4 DEF Square
    <3>3. QED
      BY <2>4, <3>1, <3>2 DEF IsMix
  <2>7. /\ Min(T) \in Nat /\ Max(T) \in Nat /\ r.a \in Nat
        /\ Min(T) <= r.a /\ r.a <= Max(T)
    BY <2>5, <2>6, MixedAlpha, AlphaRange
  <2>8. T = {ChannelMax} => low <= r.c /\ r.c <= high
    BY <2>5, <2>6, OpaqueColor
  <2>9. Cardinality(Under(image, h, v)) = 1 /\ Seen(image, h, v) # {} =>
          r \in Under(image, h, v)
    BY <2>5, <2>6, AlikePixels
  <2>10. r.a > 0 =>
           /\ r.c \in Channel
           /\ 2 * r.a * (r.c - high) <= 2 * (high + 1) + r.a
           /\ 2 * r.a * (low - r.c) <= 2 * (low + 1) + r.a
    BY <2>5, <2>6, MixedColor
  <2> HIDE DEF T, low, high
  <2>11. /\ r.a >= Min(T) /\ r.a <= Max(T)
         /\ T = {ChannelMax} => r.c >= low /\ r.c <= high
         /\ Cardinality(Under(image, h, v)) = 1 /\ Seen(image, h, v) # {} =>
              r \in Under(image, h, v)
         /\ r.a > 0 =>
              /\ r.c \in Channel
              /\ 2 * r.a * (r.c - high) <= 2 * (high + 1) + r.a
              /\ 2 * r.a * (low - r.c) <= 2 * (low + 1) + r.a
    BY <2>7, <2>8, <2>9, <2>10
  <2>12. QED
    BY <2>11
       DEF T, low, high, r, image, h, v, AlphasUnder, Lowest, Highest, Seen, Under
<1>2. QED
  BY <1>1, SamplesResolve, PTL
-----------------------------------------------------------------------------
(* The coefficients of an axis.                                            *)

(* The larger and the smaller of two numbers.                              *)
LEMMA PairExtremes ==
  ASSUME NEW a \in Int, NEW b \in Int
  PROVE  /\ Max({a, b}) = IF a >= b THEN a ELSE b
         /\ Min({a, b}) = IF a <= b THEN a ELSE b
<1>1. Max({a, b}) = IF a >= b THEN a ELSE b
  <2> DEFINE m == IF a >= b THEN a ELSE b
  <2>1. m \in {a, b} /\ \A y \in {a, b} : m >= y
    OBVIOUS
  <2>2. ASSUME NEW x \in {a, b}, \A y \in {a, b} : x >= y
        PROVE  x = m
    BY <2>2
  <2> HIDE DEF m
  <2>3. QED
    BY <2>1, <2>2 DEF Max, m
<1>2. Min({a, b}) = IF a <= b THEN a ELSE b
  <2> DEFINE m == IF a <= b THEN a ELSE b
  <2>1. m \in {a, b} /\ \A y \in {a, b} : m <= y
    OBVIOUS
  <2>2. ASSUME NEW x \in {a, b}, \A y \in {a, b} : x <= y
        PROVE  x = m
    BY <2>2
  <2> HIDE DEF m
  <2>3. QED
    BY <2>1, <2>2 DEF Min, m
<1>3. QED
  BY <1>1, <1>2

(* The triangle of the reference is the weight the code computes from      *)
(* distances, and zero outside the bounds.                                 *)
LEMMA TriangleIsPeak ==
  ASSUME from \in Nat \ {0}, to \in Nat \ {0}, NEW i \in 0 .. to - 1,
         NEW j \in Int
  PROVE  Triangle(j, i) = Peak(j, i, from, to)
<1> DEFINE c == CenterNumerator(i, from, to)
           s == Support(from, to)
           d == Denominator(to)
           o == d * j - c
           first == AxisBounds(i, from, to).first
           last == AxisBounds(i, from, to).last
<1>1. /\ c \in Int /\ s \in Nat /\ d * j \in Int
      /\ first \in Int /\ last \in Int
      /\ first <= j <=> c - s < d * j
      /\ j <= last <=> d * j < c + s
  BY PeakShape
<1>2. o = 2 * to * j - ((2 * i + 1) * from - to)
  BY DEF Denominator, CenterNumerator
<1>3. 2 * Max({from, to}) = s
  <2>1. from \in Int /\ to \in Int
    OBVIOUS
  <2>2. Max({from, to}) = IF from >= to THEN from ELSE to
    BY <2>1, PairExtremes
  <2>3. QED
    BY <2>1, <2>2 DEF Support
<1>4. Triangle(j, i) = Max({0, Min({s - o, s + o})})
  BY <1>2, <1>3 DEF Triangle
<1>5. RawWeight(j, i, from, to) = s - (IF o >= 0 THEN o ELSE -o)
  BY DEF RawWeight
<1>6. Peak(j, i, from, to) =
        IF j \in first .. last THEN RawWeight(j, i, from, to) ELSE 0
  BY DEF Peak
<1> HIDE DEF first, last, c, s, d
<1>7. o \in Int /\ (j \in first .. last <=> -s < o /\ o < s)
  BY <1>1
<1> HIDE DEF o
<1>8. Min({s - o, s + o}) = s - (IF o >= 0 THEN o ELSE -o)
  <2>1. s - o \in Int /\ s + o \in Int
    BY <1>1, <1>7
  <2>2. Min({s - o, s + o}) = IF s - o <= s + o THEN s - o ELSE s + o
    BY <2>1, PairExtremes
  <2>3. QED
    BY <2>2, <1>1, <1>7
<1> DEFINE w == s - (IF o >= 0 THEN o ELSE -o)
<1>9. w \in Int /\ (j \in first .. last <=> w > 0)
  BY <1>1, <1>7
<1> HIDE DEF w
<1>10. Max({0, w}) = IF 0 >= w THEN 0 ELSE w
  BY <1>9, PairExtremes
<1>11. Triangle(j, i) = Max({0, w}) /\ RawWeight(j, i, from, to) = w
  BY <1>4, <1>5, <1>8 DEF w
<1>12. QED
  BY <1>6, <1>9, <1>10, <1>11

(* Clamping with the least and the largest is ToEdge.                      *)
LEMMA ClampedAlike ==
  ASSUME from \in Nat \ {0}, NEW k
  PROVE  ClampedTo(k) = ClampedOnto(k, from, Reach)
<1>1. ASSUME NEW j \in Int
      PROVE  Max({0, Min({from - 1, j})}) = ToEdge(j, from)
  <2>1. from - 1 \in Int /\ from - 1 >= 0 /\ 0 \in Int
    OBVIOUS
  <2>2. Min({from - 1, j}) = IF from - 1 <= j THEN from - 1 ELSE j
    BY <2>1, PairExtremes
  <2> DEFINE m == Min({from - 1, j})
  <2>3. m \in Int
    BY <2>1, <2>2
  <2>4. Max({0, m}) = IF 0 >= m THEN 0 ELSE m
    BY <2>1, <2>3, PairExtremes
  <2>5. QED
    BY <2>1, <2>2, <2>4 DEF ToEdge
<1>2. \A j \in Reach : j \in Int
  BY WidthAssumption DEF Reach
<1>3. QED
  BY <1>1, <1>2 DEF ClampedTo, ClampedOnto

(* No triangle of an admitted axis leaves the integers of the reference.   *)
LEMMA ReachSuffices ==
  ASSUME from \in 1 .. DimensionMax, to \in 1 .. DimensionMax,
         NEW i \in 0 .. to - 1
  PROVE  Reaches(Reach, i, from, to)
<1> DEFINE n == DimensionMax
           c == CenterNumerator(i, from, to)
           s == Support(from, to)
           d == Denominator(to)
           first == AxisBounds(i, from, to).first
           last == AxisBounds(i, from, to).last
           N == n * to
           x == i * from
<1>1. /\ n \in Nat /\ from \in Nat \ {0} /\ to \in Nat \ {0}
      /\ from <= n /\ to <= n
  BY WidthAssumption
<1>2. /\ first \in Int /\ last \in Int /\ first <= last
      /\ c - s < d * first /\ d * last < c + s
  <2>1. first \in Int /\ last \in Int /\ first <= last
    BY <1>1, BoundsOrdered
  <2> HIDE DEF first, last
  <2>2. /\ first <= first <=> c - s < d * first
        /\ last <= last <=> d * last < c + s
    BY <1>1, <2>1, PeakShape DEF first, last
  <2>3. QED
    BY <2>1, <2>2
<1>3. /\ d = 2 * to /\ s \in Nat /\ s <= 2 * n
      /\ c = 2 * x + from - to /\ c \in Int
  BY <1>1 DEF Denominator, Support, CenterNumerator
<1>4. N \in Nat /\ x \in Nat /\ x <= N /\ n <= N
  <2>1. x <= to * from /\ to * from <= to * n /\ 1 * n <= to * n
    <3>1. i \in Nat /\ i <= to
      BY <1>1
    <3>2. QED
      BY <1>1, <3>1, ProductOrdered
  <2>2. to * n = N /\ N \in Nat /\ x \in Nat /\ to * from \in Nat
    BY <1>1
  <2> HIDE DEF N, x
  <2>3. QED
    BY <1>1, <2>1, <2>2
<1> HIDE DEF first, last, c, s, N, x
<1>5. first >= -(2 * n)
  <2>1. SUFFICES ASSUME -(2 * n) - first - 1 \in Nat PROVE FALSE
    BY <1>1, <1>2
  <2> DEFINE q == -(2 * n) - first - 1
  <2>2. d * q \in Nat /\ d * q = -4 * N - d * first - d
    BY <1>1, <1>2, <1>3, <2>1 DEF N
  <2>3. d * first \in Int
    BY <1>1, <1>2, <1>3
  <2> HIDE DEF q
  <2>4. QED
    BY <1>1, <1>2, <1>3, <1>4, <2>2, <2>3
<1>6. last <= 3 * n
  <2>1. SUFFICES ASSUME last - 3 * n - 1 \in Nat PROVE FALSE
    BY <1>1, <1>2
  <2> DEFINE q == last - 3 * n - 1
  <2>2. d * q \in Nat /\ d * q = d * last - 6 * N - d
    BY <1>1, <1>2, <1>3, <2>1 DEF N
  <2>3. d * last \in Int
    BY <1>1, <1>2, <1>3
  <2> HIDE DEF q
  <2>4. QED
    BY <1>1, <1>2, <1>3, <1>4, <2>2, <2>3
<1>7. IsFiniteSet(Reach) /\ Reach \subseteq Int
  BY <1>1, FS_Interval DEF Reach
<1>8. first .. last \subseteq Reach /\ 0 .. from - 1 \subseteq Reach
  BY <1>1, <1>2, <1>5, <1>6 DEF Reach
<1>9. QED
  BY <1>7, <1>8 DEF Reaches, first, last

(* The sums of the reference are those of the lemmas.                      *)
LEMMA TrianglesAddUp ==
  ASSUME from \in 1 .. DimensionMax, to \in 1 .. DimensionMax,
         NEW i \in 0 .. to - 1, NEW S, S \subseteq Reach
  PROVE  MapThenSumSet(LAMBDA j : Triangle(j, i), S) =
           SetSum(Peaks(i, from, to, Reach), S)
<1> DEFINE T == Peaks(i, from, to, Reach)
           P(k) == k = [s \in SUBSET S |->
                     IF s = {} THEN 0
                     ELSE Triangle(Chosen(s), i) + k[s \ {Chosen(s)}]]
           g == CHOOSE k : P(k)
<1>1. MapThenSumSet(LAMBDA j : Triangle(j, i), S) = g[S]
  BY DEF MapThenSumSet, MapThenFoldSet, Chosen
<1>2. ASSUME NEW k PROVE P(k) <=> SetSums(T, S, k)
  <2>1. ASSUME NEW s \in SUBSET S, s # {}
        PROVE  T[Chosen(s)] = Triangle(Chosen(s), i)
    <3>1. Chosen(s) \in Reach
      BY <2>1 DEF Chosen
    <3>2. /\ from \in Nat \ {0} /\ to \in Nat \ {0} /\ Chosen(s) \in Int
      BY <3>1, WidthAssumption DEF Reach
    <3>3. Triangle(Chosen(s), i) = Peak(Chosen(s), i, from, to)
      BY <3>2, TriangleIsPeak
    <3>4. QED
      BY <3>1, <3>3 DEF Peaks
  <2> HIDE DEF T
  <2>2. [s \in SUBSET S |->
           IF s = {} THEN 0
           ELSE Triangle(Chosen(s), i) + k[s \ {Chosen(s)}]] =
        [s \in SUBSET S |->
           IF s = {} THEN 0 ELSE T[Chosen(s)] + k[s \ {Chosen(s)}]]
    BY <2>1
  <2>3. QED
    BY <2>2 DEF SetSums
<1>3. IsFiniteSet(S)
  BY ReachSuffices, FS_Subset DEF Reaches
<1>4. \E k : SetSums(T, S, k)
  <2> HIDE DEF T
  <2>1. QED
    BY <1>3, SetSumsExist
<1> HIDE DEF P, T
<1>5. P(g)
  BY <1>2, <1>4
<1>6. SetSums(T, S, g)
  BY <1>2, <1>5
<1> HIDE DEF g
<1>7. g[S] = SetSum(T, S)
  BY <1>3, <1>6, SetSumUnique
<1>8. QED
  BY <1>1, <1>7 DEF T

(* A span of an axis against the reference.                                *)
LEMMA SpanAgainstTriangle ==
  ASSUME from \in 1 .. DimensionMax, to \in 1 .. DimensionMax,
         NEW i \in 0 .. to - 1
  PROVE  LET span == [k \in TapIndices(i, from, to) |->
                        TapWeight(k, i, from, to)]
             bounds == AxisBounds(i, from, to)
         IN  /\ \A k \in 0 .. from - 1 :
                  IF k \in TapIndices(i, from, to)
                    THEN /\ TapWeight(k, i, from, to) = FoldedWeight(k, i)
                         /\ TapWeight(k, i, from, to) \in Nat \ {0}
                         /\ TapWeight(k, i, from, to) <= Total(i)
                    ELSE FoldedWeight(k, i) = 0
             /\ Total(i) \in Nat \ {0}
             /\ SumBetween(span, bounds.first_clamped,
                           bounds.last_clamped + 1) = Total(i)
<1>1. from \in Nat \ {0} /\ to \in Nat \ {0}
  BY WidthAssumption
<1>2. Reaches(Reach, i, from, to)
  BY ReachSuffices
<1>3. Total(i) = SetSum(Peaks(i, from, to, Reach), Reach)
  BY TrianglesAddUp DEF Total
<1>4. ASSUME NEW k \in 0 .. from - 1
      PROVE  FoldedWeight(k, i) = TapWeight(k, i, from, to)
  <2>1. ClampedTo(k) = ClampedOnto(k, from, Reach)
    BY <1>1, ClampedAlike
  <2>2. ClampedTo(k) \subseteq Reach
    BY DEF ClampedTo
  <2>3. FoldedWeight(k, i) = SetSum(Peaks(i, from, to, Reach), ClampedTo(k))
    BY <2>2, TrianglesAddUp DEF FoldedWeight
  <2>4. TapWeight(k, i, from, to) =
          SetSum(Peaks(i, from, to, Reach), ClampedOnto(k, from, Reach))
    BY <1>1, <1>2, TapsFold DEF Reaches
  <2>5. QED
    BY <2>1, <2>3, <2>4
<1> DEFINE span == [k \in TapIndices(i, from, to) |-> TapWeight(k, i, from, to)]
           bounds == AxisBounds(i, from, to)
           W(k) == TapWeight(k, i, from, to)
           T == TapIndices(i, from, to)
           all == SumBetween(span, bounds.first_clamped,
                             bounds.last_clamped + 1)
<1>5. /\ \A k \in 0 .. from - 1 :
           IF k \in T THEN W(k) \in Nat \ {0} /\ W(k) <= Total(i)
           ELSE W(k) = 0
      /\ Total(i) \in Nat \ {0}
      /\ all = Total(i)
  BY <1>1, <1>2, <1>3, SpansExact
<1> HIDE DEF W, T, all
<1>6. \A k \in 0 .. from - 1 : FoldedWeight(k, i) = W(k)
  BY <1>4 DEF W
<1>7. /\ \A k \in 0 .. from - 1 :
           IF k \in T
             THEN /\ W(k) = FoldedWeight(k, i)
                  /\ W(k) \in Nat \ {0} /\ W(k) <= Total(i)
             ELSE FoldedWeight(k, i) = 0
      /\ Total(i) \in Nat \ {0}
      /\ all = Total(i)
  BY <1>5, <1>6
<1>8. QED
  BY <1>7 DEF W, T, all

(* The plan of every axis, of any lengths, holds the weights of its        *)
(* triangles folded into the edges, none of them zero, and nothing else;   *)
(* and it is refused only when a span adds up to more than a word.         *)
THEOREM WeightsAreExact == SampleSpec => []WeightsExact
<1>1. PixelInv => WeightsExact
  <2> DEFINE bounds(i) == AxisBounds(i, from, to)
             T(i) == TapIndices(i, from, to)
             W(k, i) == TapWeight(k, i, from, to)
             axes == [i \in 0 .. to - 1 |-> [k \in T(i) |-> W(k, i)]]
             total(i) == SumBetween(axes[i], bounds(i).first_clamped,
                                    bounds(i).last_clamped + 1)
             wrong == \E i \in 0 .. to - 1 :
                        \/ total(i) \notin 1 .. WordMax
                        \/ \E k \in DOMAIN axes[i] : axes[i][k] \notin 1 .. WordMax
  <2>1. SUFFICES ASSUME PixelInv, axis # Pending PROVE WeightsExact
    BY DEF WeightsExact
  <2>2. /\ from \in 1 .. DimensionMax /\ to \in 1 .. DimensionMax
        /\ from \in Nat \ {0} /\ to \in Nat \ {0}
        /\ axis = PopulateAxis(from, to)
    BY <2>1 DEF PixelInv, AxisResolves
  <2>3. axis = IF wrong THEN Err("resource_limit") ELSE Ok(axes)
    BY <2>2 DEF PopulateAxis
  <2>4. ASSUME NEW i \in 0 .. to - 1
        PROVE  /\ DOMAIN axes[i] = T(i) /\ T(i) \subseteq 0 .. from - 1
               /\ \A k \in T(i) : axes[i][k] = W(k, i)
               /\ total(i) = Total(i) /\ Total(i) \in Nat \ {0}
               /\ \A k \in 0 .. from - 1 :
                    IF k \in T(i)
                      THEN /\ W(k, i) = FoldedWeight(k, i)
                           /\ W(k, i) \in Nat \ {0} /\ W(k, i) <= Total(i)
                      ELSE FoldedWeight(k, i) = 0
    <3>1. axes[i] = [k \in T(i) |-> W(k, i)]
      OBVIOUS
    <3>2. T(i) \subseteq 0 .. from - 1
      BY <2>2, TapsInside
    <3>3. /\ SumBetween([k \in T(i) |-> W(k, i)], bounds(i).first_clamped,
                        bounds(i).last_clamped + 1) = Total(i)
          /\ Total(i) \in Nat \ {0}
          /\ \A k \in 0 .. from - 1 :
               IF k \in T(i)
                 THEN /\ W(k, i) = FoldedWeight(k, i)
                      /\ W(k, i) \in Nat \ {0} /\ W(k, i) <= Total(i)
                 ELSE FoldedWeight(k, i) = 0
      BY <2>2, SpanAgainstTriangle
    <3> HIDE DEF axes, W, T, bounds
    <3>4. QED
      BY <3>1, <3>2, <3>3
  <2>5. DOMAIN axes = Indices
    BY DEF Indices
  <2> HIDE DEF axes, W, T, total
  <2>6. WordMax \in Nat
    BY WidthAssumption
  <2>7. ASSUME NEW i \in 0 .. to - 1, Total(i) <= WordMax
        PROVE  /\ total(i) \in 1 .. WordMax
               /\ \A k \in DOMAIN axes[i] : axes[i][k] \in 1 .. WordMax
    <3>1. total(i) \in 1 .. WordMax
      BY <2>4, <2>6, <2>7
    <3>2. ASSUME NEW k \in DOMAIN axes[i] PROVE axes[i][k] \in 1 .. WordMax
      <4>1. k \in T(i) /\ k \in 0 .. from - 1 /\ axes[i][k] = W(k, i)
        BY <2>4
      <4>2. /\ W(k, i) \in Nat \ {0} /\ W(k, i) <= Total(i)
            /\ Total(i) \in Nat
        BY <2>4, <4>1
      <4>3. QED
        BY <2>6, <2>7, <4>1, <4>2
    <3>3. QED
      BY <3>1, <3>2
  <2>8. wrong <=> \E i \in 0 .. to - 1 : ~(Total(i) <= WordMax)
    <3>1. ASSUME NEW i \in 0 .. to - 1, ~(Total(i) <= WordMax)
          PROVE  total(i) \notin 1 .. WordMax
      BY <2>4, <2>6, <3>1
    <3>2. QED
      BY <2>7, <3>1
  <2>9. axis.ok <=> ~wrong
    BY <2>3 DEF Ok, Err
  <2>10. ~wrong => axis.value = axes
    BY <2>3 DEF Ok
  <2>11. axis.ok <=> \A i \in Indices : Total(i) <= WordMax
    BY <2>8, <2>9 DEF Indices
  <2>12. ASSUME NEW i \in Indices, NEW k \in 0 .. from - 1
         PROVE  IF k \in DOMAIN axes[i]
                  THEN /\ axes[i][k] = FoldedWeight(k, i)
                       /\ axes[i][k] > 0
                  ELSE FoldedWeight(k, i) = 0
    <3>1. i \in 0 .. to - 1
      BY DEF Indices
    <3>2. /\ DOMAIN axes[i] = T(i)
          /\ k \in T(i) => axes[i][k] = W(k, i)
          /\ k \in T(i) => W(k, i) = FoldedWeight(k, i) /\ W(k, i) \in Nat \ {0}
          /\ k \notin T(i) => FoldedWeight(k, i) = 0
      BY <2>4, <3>1
    <3>3. QED
      BY <3>2
  <2>13. QED
    BY <2>5, <2>9, <2>10, <2>11, <2>12 DEF WeightsExact
<1>2. QED
  BY <1>1, SamplesResolve, PTL
=============================================================================
