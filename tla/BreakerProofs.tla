---------------------------- MODULE BreakerProofs ----------------------------
(***************************************************************************)
(* Machine-checked proofs about Breaker, for any number of calls, any      *)
(* durations and thresholds, and any number of health stages.              *)
(***************************************************************************)
EXTENDS Breaker, FiniteSetTheorems, WellFoundedInduction, TLAPS

-----------------------------------------------------------------------------
(* Induction over the natural numbers, in terms of the set of the numbers    *)
(* for which the claim holds.                                                *)

LEMMA LeastOf ==
  ASSUME NEW T, T \subseteq Nat, T # {}
  PROVE  \E x \in T : \A y \in T : x <= y
<1> DEFINE R == {p \in Nat \X Nat : p[1] < p[2]}
<1>1. IsWellFoundedOn(R, Nat)
  BY NatLessThanWellFounded DEF OpToRel
<1>2. \A x, y \in Nat : <<y, x>> \in R <=> y < x
  OBVIOUS
<1> HIDE DEF R
<1>3. PICK x \in T : \A y \in T : ~ (<<y, x>> \in R)
  BY <1>1, WFMin
<1>4. \A y \in T : ~(y < x) /\ y \in Nat /\ x \in Nat
  BY <1>2, <1>3
<1> QED
  BY <1>4

LEMMA Induction ==
  ASSUME NEW T, 0 \in T, \A n \in Nat : n \in T => n + 1 \in T
  PROVE  \A n \in Nat : n \in T
<1> SUFFICES ASSUME Nat \ T # {} PROVE FALSE
  OBVIOUS
<1>1. PICK x \in Nat \ T : \A y \in Nat \ T : x <= y
  BY LeastOf
<1>2. x # 0 /\ x - 1 \in Nat /\ (x - 1) + 1 = x /\ ~(x <= x - 1)
  BY <1>1
<1>3. x - 1 \in T
  BY <1>1, <1>2
<1> QED
  BY <1>1, <1>2, <1>3

-----------------------------------------------------------------------------
(* Sums over the windows. *)

Counts  == [Results -> Nat]
Window  == [at : Nat, counts : Counts]
Windows == Seq(Window)

\* f[i] is the number of results r in the first i windows.
IsPrefixSum(f, ws, r) ==
  /\ f \in [0..Len(ws) -> Nat] /\ f[0] = 0
  /\ \A i \in 1..Len(ws) : f[i] = f[i - 1] + ws[i].counts[r]

LEMMA CountIn ==
  ASSUME NEW ws \in Windows, NEW r \in Results, NEW i \in 1..Len(ws)
  PROVE  ws[i].counts[r] \in Nat /\ ws[i].counts \in Counts
<1>1. ws[i] \in Window
  BY DEF Windows
<1>2. ws[i].counts \in Counts
  BY <1>1 DEF Window
<1> QED
  BY <1>2 DEF Counts

\* Two facts of arithmetic.
LEMMA Between ==
  ASSUME NEW a \in Nat, NEW c \in Nat, NEW m \in Nat, NEW w \in Nat, NEW s \in Nat, NEW x,
         x = m + w, c - a >= m + w, c - a <= s
  PROVE  x <= s
OBVIOUS

LEMMA Chained ==
  ASSUME NEW a \in Nat, NEW b \in Nat, NEW c \in Nat, NEW m \in Nat, NEW w \in Nat,
         b >= a + m, c >= b + w
  PROVE  c >= a + (m + w) /\ c - a >= m + w
OBVIOUS

\* The recursive definition of Sum defines a function.
LEMMA SumIsPrefixSum ==
  ASSUME NEW ws \in Windows, NEW r \in Results
  PROVE  \E f : IsPrefixSum(f, ws, r) /\ Sum(ws, r) = f[Len(ws)]
<1> DEFINE L == Len(ws)
           v == [i \in 1..L |-> ws[i].counts[r]]
           P(f, k) == /\ f \in [0..k -> Nat] /\ f[0] = 0
                      /\ \A i \in 1..k : f[i] = f[i - 1] + v[i]
           Q(k) == \E f : P(f, k)
           T == {k \in Nat : k <= L => Q(k)}
<1>1. L \in Nat /\ v \in [1..L -> Nat]
  <2>1. \A i \in 1..L : ws[i].counts[r] \in Nat
    BY CountIn
  <2> QED
    BY <2>1 DEF Windows
<1> HIDE DEF L, v, Q
<1>2. 0 \in T
  <2>1. P([i \in 0..0 |-> 0], 0)
    OBVIOUS
  <2> QED
    BY <2>1 DEF Q
<1>3. ASSUME NEW k \in Nat, k \in T PROVE k + 1 \in T
  <2> SUFFICES ASSUME k + 1 <= L PROVE Q(k + 1)
    OBVIOUS
  <2>0. k <= L
    BY <1>1
  <2>1. PICK f : P(f, k)
    BY <1>3, <2>0 DEF Q
  <2> DEFINE g == [i \in 0..k + 1 |-> IF i = k + 1 THEN f[k] + v[k + 1] ELSE f[i]]
  <2>2. v[k + 1] \in Nat /\ f[k] \in Nat
    BY <1>1, <2>1
  <2>3. g \in [0..k + 1 -> Nat] /\ g[0] = 0
    BY <2>1, <2>2
  <2>4. ASSUME NEW i \in 1..k + 1 PROVE g[i] = g[i - 1] + v[i]
    <3>1. CASE i = k + 1
      BY <2>1, <2>2, <3>1
    <3>2. CASE i # k + 1
      <4>1. i \in 1..k /\ i - 1 \in 0..k + 1 /\ i - 1 # k + 1
        BY <3>2
      <4> QED
        BY <2>1, <4>1
    <3> QED
      BY <3>1, <3>2
  <2>5. P(g, k + 1)
    BY <2>3, <2>4
  <2> QED
    BY <2>5 DEF Q
<1>4. L \in T
  BY <1>1, <1>2, <1>3, Induction
<1>5. PICK f : P(f, L)
  <2>1. L <= L
    BY <1>1
  <2> QED
    BY <1>4, <2>1 DEF Q
<1>6. f = [i \in 0..L |-> IF i = 0 THEN 0 ELSE f[i - 1] + ws[i].counts[r]]
  BY <1>1, <1>5 DEF v
<1> DEFINE sum[i \in 0..Len(ws)] == IF i = 0 THEN 0 ELSE sum[i - 1] + ws[i].counts[r]
<1>7. sum = [i \in 0..Len(ws) |-> IF i = 0 THEN 0 ELSE sum[i - 1] + ws[i].counts[r]]
  BY <1>6, Zenon DEF L
<1>8. Sum(ws, r) = sum[Len(ws)]
  BY DEF Sum
<1> HIDE DEF sum
<1> DEFINE U == {k \in Nat : k <= L => sum[k] = f[k]}
<1>9. 0 \in U
  BY <1>1, <1>5, <1>7 DEF L
<1>10. ASSUME NEW k \in Nat, k \in U PROVE k + 1 \in U
  <2> SUFFICES ASSUME k + 1 <= L PROVE sum[k + 1] = f[k + 1]
    OBVIOUS
  <2>1. sum[k] = f[k] /\ f[k + 1] = f[k] + v[k + 1] /\ v[k + 1] = ws[k + 1].counts[r]
    BY <1>1, <1>5, <1>10 DEF v
  <2>2. sum[k + 1] = sum[k] + ws[k + 1].counts[r]
    BY <1>1, <1>7 DEF L
  <2> QED
    BY <2>1, <2>2
<1>11. L \in U
  BY <1>1, <1>9, <1>10, Induction
<1>12. sum[L] = f[L]
  BY <1>1, <1>11
<1>13. IsPrefixSum(f, ws, r)
  BY <1>1, <1>5 DEF IsPrefixSum, L, v
<1> QED
  BY <1>8, <1>12, <1>13 DEF L

\* Windows with the same counts add up to the same.
LEMMA SameCounts ==
  ASSUME NEW ws \in Windows, NEW vs \in Windows, NEW r \in Results, NEW f, NEW g,
         IsPrefixSum(f, ws, r), IsPrefixSum(g, vs, r), NEW n \in Nat, NEW k \in Nat,
         n + k <= Len(ws), k <= Len(vs),
         \A i \in 1..k : vs[i].counts[r] = ws[n + i].counts[r]
  PROVE  g[k] \in Nat /\ f[n] \in Nat /\ f[n + k] = f[n] + g[k]
<1> DEFINE T == {m \in Nat : m <= k => f[n + m] = f[n] + g[m]}
<1>1. Len(ws) \in Nat /\ Len(vs) \in Nat
  BY DEF Windows
<1>2. f \in [0..Len(ws) -> Nat] /\ g \in [0..Len(vs) -> Nat] /\ g[0] = 0
  BY DEF IsPrefixSum
<1>3. 0 \in T
  <2>1. n \in 0..Len(ws) /\ n + 0 = n
    BY <1>1
  <2>2. f[n] \in Nat
    BY <1>2, <2>1
  <2> QED
    BY <1>2, <2>1, <2>2
<1>4. ASSUME NEW m \in Nat, m \in T PROVE m + 1 \in T
  <2> SUFFICES ASSUME m + 1 <= k PROVE f[n + (m + 1)] = f[n] + g[m + 1]
    OBVIOUS
  <2>1. f[n + m] = f[n] + g[m]
    BY <1>4
  <2>2. m + 1 \in 1..Len(vs) /\ n + (m + 1) \in 1..Len(ws) /\ (m + 1) - 1 = m
        /\ (n + (m + 1)) - 1 = n + m
    BY <1>1
  <2>3. g[m + 1] = g[m] + vs[m + 1].counts[r]
    BY <2>2 DEF IsPrefixSum
  <2>4. f[n + (m + 1)] = f[n + m] + ws[n + (m + 1)].counts[r]
    BY <2>2 DEF IsPrefixSum
  <2>5. vs[m + 1].counts[r] = ws[n + (m + 1)].counts[r]
    BY <2>2
  <2>6. vs[m + 1].counts[r] \in Nat
    BY <2>2, CountIn
  <2>7. f[n] \in Nat /\ g[m] \in Nat
    <3>1. n \in 0..Len(ws) /\ m \in 0..Len(vs)
      BY <1>1
    <3> QED
      BY <1>2, <3>1
  <2> HIDE DEF T
  <2>8. f[n + (m + 1)] = f[n + m] + vs[m + 1].counts[r]
    BY <2>4, <2>5, Zenon
  <2> QED
    BY ONLY <2>1, <2>3, <2>6, <2>7, <2>8
<1>5. k \in T
  BY <1>3, <1>4, Induction
<1> QED
  BY <1>1, <1>2, <1>5

LEMMA SameFront ==
  ASSUME NEW ws \in Windows, NEW vs \in Windows, NEW r \in Results, NEW f, NEW g,
         IsPrefixSum(f, ws, r), IsPrefixSum(g, vs, r), NEW k \in Nat,
         k <= Len(ws), k <= Len(vs),
         \A i \in 1..k : vs[i].counts[r] = ws[i].counts[r]
  PROVE  g[k] \in Nat /\ f[k] = g[k]
<1>1. 0 \in Nat /\ 0 + k = k /\ \A i \in 1..k : 0 + i = i
  OBVIOUS
<1>2. 0 + k <= Len(ws) /\ \A i \in 1..k : vs[i].counts[r] = ws[0 + i].counts[r]
  BY <1>1
<1>3. g[k] \in Nat /\ f[0 + k] = f[0] + g[k]
  BY <1>1, <1>2, SameCounts
<1>4. f[0] = 0
  BY DEF IsPrefixSum
<1> QED
  BY <1>1, <1>3, <1>4

LEMMA PrefixSumGrows ==
  ASSUME NEW ws \in Windows, NEW r \in Results, NEW f, IsPrefixSum(f, ws, r),
         NEW i \in 0..Len(ws)
  PROVE  f[i] \in Nat /\ f[Len(ws)] \in Nat /\ f[i] <= f[Len(ws)]
<1> DEFINE T == {k \in Nat : i + k <= Len(ws) => f[i] <= f[i + k]}
<1>1. Len(ws) \in Nat /\ i \in Nat /\ f \in [0..Len(ws) -> Nat]
  BY DEF Windows, IsPrefixSum
<1>2. 0 \in T
  BY <1>1
<1>3. ASSUME NEW k \in Nat, k \in T PROVE k + 1 \in T
  <2> SUFFICES ASSUME i + (k + 1) <= Len(ws) PROVE f[i] <= f[i + (k + 1)]
    OBVIOUS
  <2>1. i + (k + 1) \in 1..Len(ws) /\ (i + (k + 1)) - 1 = i + k /\ i + k \in 0..Len(ws)
    BY <1>1
  <2>2. f[i] <= f[i + k]
    BY <1>3, <2>1
  <2>3. f[i + (k + 1)] = f[i + k] + ws[i + (k + 1)].counts[r]
    BY <2>1 DEF IsPrefixSum
  <2>4. ws[i + (k + 1)].counts[r] \in Nat
    BY <2>1, CountIn
  <2>5. f[i] \in Nat /\ f[i + k] \in Nat
    BY <1>1, <2>1
  <2> HIDE DEF T
  <2> QED
    BY <2>2, <2>3, <2>4, <2>5
<1>4. i + (Len(ws) - i) = Len(ws) /\ Len(ws) - i \in Nat /\ Len(ws) \in 0..Len(ws)
  BY <1>1
<1>5. \A k \in Nat : k \in T
  <2> HIDE DEF T
  <2> QED
    BY <1>2, <1>3, Induction
<1>6. Len(ws) - i \in T
  BY <1>4, <1>5
<1> QED
  BY <1>1, <1>4, <1>6

\* What is left is what the windows that stay hold: subtract never meets zero.
LEMMA SubtractedIsRest ==
  ASSUME NEW ws \in Windows, NEW c \in Counts, NEW n \in 0..Len(ws),
         NEW F, \A r \in Results : IsPrefixSum(F[r], ws, r) /\ c[r] = F[r][Len(ws)]
  PROVE  /\ Subtracted(c, ws, n) \in Counts
         /\ \A r \in Results : Subtracted(c, ws, n)[r] = F[r][Len(ws)] - F[r][n]
<1> DEFINE D(i) == [r \in Results |-> F[r][Len(ws)] - F[r][i]]
           f == [i \in 0..n |-> D(i)]
<1>1. Len(ws) \in Nat /\ n \in Nat /\ n <= Len(ws)
  BY DEF Windows
<1>2. ASSUME NEW i \in 0..n, NEW r \in Results
      PROVE  F[r][i] \in Nat /\ F[r][Len(ws)] \in Nat /\ F[r][i] <= F[r][Len(ws)]
             /\ D(i)[r] = F[r][Len(ws)] - F[r][i] /\ D(i)[r] \in Nat
  <2>1. i \in 0..Len(ws)
    BY <1>1
  <2>2. F[r][i] \in Nat /\ F[r][Len(ws)] \in Nat /\ F[r][i] <= F[r][Len(ws)]
    BY <2>1, PrefixSumGrows
  <2> QED
    BY <2>2
<1>3. \A i \in 0..n : D(i) \in Counts
  BY <1>2 DEF Counts
<1>4. D(0) = c
  <2>1. \A r \in Results : D(0)[r] = c[r]
    <3> SUFFICES ASSUME NEW r \in Results PROVE D(0)[r] = c[r]
      OBVIOUS
    <3>1. F[r][0] = 0 /\ F[r][Len(ws)] = c[r] /\ c[r] \in Nat
      BY DEF IsPrefixSum, Counts
    <3> QED
      BY <3>1
  <2> QED
    BY <2>1 DEF Counts
<1>5. ASSUME NEW i \in 1..n PROVE D(i) = Minus(D(i - 1), ws[i].counts)
  <2> SUFFICES ASSUME NEW r \in Results
               PROVE  D(i)[r] = IF D(i - 1)[r] >= ws[i].counts[r]
                                  THEN D(i - 1)[r] - ws[i].counts[r] ELSE 0
    BY DEF Minus
  <2>1. i \in 1..Len(ws) /\ i \in 0..n /\ i - 1 \in 0..n
    BY <1>1
  <2>2. F[r][i] = F[r][i - 1] + ws[i].counts[r] /\ ws[i].counts[r] \in Nat
    BY <2>1, CountIn DEF IsPrefixSum
  <2>3. /\ F[r][i] \in Nat /\ F[r][i - 1] \in Nat /\ F[r][Len(ws)] \in Nat
        /\ F[r][i] <= F[r][Len(ws)]
    BY <1>2, <2>1
  <2>4. D(i)[r] = F[r][Len(ws)] - F[r][i] /\ D(i - 1)[r] = F[r][Len(ws)] - F[r][i - 1]
    BY <1>2, <2>1
  <2>5. /\ F[r][Len(ws)] - F[r][i - 1] >= ws[i].counts[r]
        /\ F[r][Len(ws)] - F[r][i] = (F[r][Len(ws)] - F[r][i - 1]) - ws[i].counts[r]
    BY ONLY <2>2, <2>3
  <2> HIDE DEF D
  <2> QED
    BY <2>4, <2>5, Zenon
<1> HIDE DEF D
<1>6. f = [i \in 0..n |-> IF i = 0 THEN c ELSE Minus(f[i - 1], ws[i].counts)]
  <2> SUFFICES ASSUME NEW i \in 0..n
               PROVE  f[i] = IF i = 0 THEN c ELSE Minus(f[i - 1], ws[i].counts)
    OBVIOUS
  <2>1. CASE i = 0
    BY <1>4, <2>1
  <2>2. CASE i # 0
    <3>1. i \in 1..n /\ i - 1 \in 0..n
      BY <1>1, <2>2
    <3>2. f[i] = D(i) /\ f[i - 1] = D(i - 1)
      BY <3>1
    <3> QED
      BY <1>5, <2>2, <3>1, <3>2
  <2> QED
    BY <2>1, <2>2
<1> DEFINE left[i \in 0..n] == IF i = 0 THEN c ELSE Minus(left[i - 1], ws[i].counts)
<1>7. left = [i \in 0..n |-> IF i = 0 THEN c ELSE Minus(left[i - 1], ws[i].counts)]
  BY <1>6, Zenon
<1>8. Subtracted(c, ws, n) = left[n]
  BY DEF Subtracted
<1> HIDE DEF left, f
<1> DEFINE T == {k \in Nat : k <= n => left[k] = D(k)}
<1>9. 0 \in T
  BY <1>1, <1>4, <1>7
<1>10. ASSUME NEW k \in Nat, k \in T PROVE k + 1 \in T
  <2> SUFFICES ASSUME k + 1 <= n PROVE left[k + 1] = D(k + 1)
    OBVIOUS
  <2>1. k + 1 \in 1..n /\ k + 1 \in 0..n /\ (k + 1) - 1 = k /\ k + 1 # 0 /\ k <= n
    BY <1>1
  <2>2. left[k + 1] = Minus(left[k], ws[k + 1].counts)
    BY <1>7, <2>1
  <2>3. left[k] = D(k)
    BY <1>10, <2>1
  <2> QED
    BY <1>5, <2>1, <2>2, <2>3
<1>11. left[n] = D(n)
  <2>1. n \in T
    BY <1>1, <1>9, <1>10, Induction
  <2> QED
    BY <1>1, <2>1
<1>12. n \in 0..n
  BY <1>1
<1> QED
  BY <1>2, <1>3, <1>8, <1>11, <1>12

-----------------------------------------------------------------------------
(* HealthMetrics::record. *)

\* The windows that expire are the first ones, and the one after them has not.
LEMMA ExpiredAreFirst ==
  ASSUME NEW ws \in Windows, NEW now \in Nat, NEW s \in Nat
  PROVE  LET n == Cardinality(Expired(ws, now, s)) IN
           n \in 0..Len(ws) /\ (n < Len(ws) => Since(now, ws[n + 1].at) <= s)
<1> DEFINE E == Expired(ws, now, s)
           T == {i \in 1..Len(ws) + 1 : i \notin E}
<1>1. Len(ws) \in Nat /\ DOMAIN ws = 1..Len(ws)
  BY DEF Windows
<1>2. E \subseteq 1..Len(ws) /\ \A i \in E : \A j \in 1..i : j \in E
  BY <1>1 DEF Expired
<1>3. \A i \in 1..Len(ws) : (i \notin E /\ \A j \in 1..i - 1 : j \in E)
                              => ~(Since(now, ws[i].at) > s)
  BY <1>1 DEF Expired
<1> HIDE DEF E
<1>4. T \subseteq Nat /\ Len(ws) + 1 \in T
  BY <1>1, <1>2
<1>5. PICK m \in T : \A y \in T : m <= y
  BY <1>4, LeastOf
<1>6. m \in 1..Len(ws) + 1 /\ m \notin E /\ \A j \in 1..m - 1 : j \in E
  BY <1>1, <1>5
<1>7. E = 1..m - 1
  <2>1. ASSUME NEW i \in E PROVE i \in 1..m - 1
    <3>1. i \in 1..Len(ws)
      BY <1>2
    <3>2. ~(m <= i)
      BY <1>2, <1>6, <3>1
    <3> QED
      BY <1>1, <1>6, <3>1, <3>2
  <2> QED
    BY <1>6, <2>1
<1>8. Cardinality(1..m - 1) = m - 1
  BY <1>1, <1>6, FS_Interval
<1>9. Cardinality(E) = m - 1 /\ m - 1 \in 0..Len(ws)
  BY <1>1, <1>6, <1>7, <1>8
<1>10. m - 1 < Len(ws) => Since(now, ws[m].at) <= s
  <2>1. Since(now, ws[m].at) \in Int \/ m > Len(ws)
    <3> SUFFICES ASSUME m <= Len(ws) PROVE Since(now, ws[m].at) \in Int
      BY <1>1, <1>6
    <3>1. ws[m] \in Window
      BY <1>1, <1>6 DEF Windows
    <3> QED
      BY <3>1 DEF Since, Window
  <2> QED
    BY <1>1, <1>3, <1>6, <2>1
<1>11. (m - 1) + 1 = m
  BY <1>1, <1>6
<1> QED
  BY <1>9, <1>10, <1>11 DEF E

LEMMA BumpedSum ==
  ASSUME NEW b \in Windows, NEW u \in Windows, b # <<>>, Len(u) = Len(b), NEW q \in Results,
         \A i \in 1..Len(b) - 1 : u[i].counts = b[i].counts,
         \A r \in Results :
           u[Len(b)].counts[r] = b[Len(b)].counts[r] + (IF r = q THEN 1 ELSE 0)
  PROVE  \A r \in Results : /\ Sum(b, r) \in Nat
                            /\ Sum(u, r) = Sum(b, r) + (IF r = q THEN 1 ELSE 0)
<1> TAKE r \in Results
<1>1. PICK f : IsPrefixSum(f, b, r) /\ Sum(b, r) = f[Len(b)]
  BY SumIsPrefixSum
<1>2. PICK g : IsPrefixSum(g, u, r) /\ Sum(u, r) = g[Len(b)]
  BY SumIsPrefixSum
<1>3. PICK k \in Nat : k + 1 = Len(b) /\ k = Len(b) - 1
  BY DEF Windows
<1>4. Len(b) \in 1..Len(b) /\ Len(b) \in 1..Len(u) /\ k <= Len(b)
  BY <1>3
<1>5. f[k] = g[k] /\ g[k] \in Nat
  <2>1. k <= Len(b) /\ k <= Len(u)
    BY <1>3, <1>4
  <2>2. \A i \in 1..k : u[i].counts[r] = b[i].counts[r]
    BY <1>3
  <2>3. IsPrefixSum(f, b, r) /\ IsPrefixSum(g, u, r)
    BY <1>1, <1>2
  <2> QED
    BY <2>1, <2>2, <2>3, SameFront
<1>6. f[Len(b)] = f[k] + b[Len(b)].counts[r] /\ g[Len(b)] = g[k] + u[Len(b)].counts[r]
  BY <1>1, <1>2, <1>3, <1>4 DEF IsPrefixSum
<1>7. b[Len(b)].counts[r] \in Nat
  BY <1>4, CountIn
<1> QED
  BY <1>1, <1>2, <1>5, <1>6, <1>7

\* One more result in the newest window.
Bump(b, q) == [b EXCEPT ![Len(b)].counts = Count(@, q)]

LEMMA Bumped ==
  ASSUME NEW b \in Windows, b # <<>>, NEW q \in Results
  PROVE  /\ Bump(b, q) \in Windows /\ Len(Bump(b, q)) = Len(b)
         /\ \A i \in 1..Len(b) : Bump(b, q)[i].at = b[i].at
         /\ \A r \in Results : /\ Sum(b, r) \in Nat
                               /\ Sum(Bump(b, q), r) = Sum(b, r) + (IF r = q THEN 1 ELSE 0)
<1> DEFINE L == Len(b)
           u == Bump(b, q)
<1>1. L \in Nat /\ L >= 1 /\ DOMAIN b = 1..L /\ \A i \in 1..L : b[i] \in Window
  BY DEF Windows
<1>2. Count(b[L].counts, q) \in Counts
      /\ \A r \in Results : Count(b[L].counts, q)[r] = b[L].counts[r] + (IF r = q THEN 1 ELSE 0)
  <2>1. b[L].counts \in Counts
    BY <1>1 DEF Window
  <2> QED
    BY <2>1 DEF Count, Counts
<1>3. DOMAIN u = 1..L /\ u[L] = [b[L] EXCEPT !.counts = Count(@, q)]
      /\ \A i \in 1..L : i # L => u[i] = b[i]
  BY <1>1 DEF Bump
<1>4. u[L].at = b[L].at /\ u[L].counts = Count(b[L].counts, q) /\ u[L] \in Window
  BY <1>1, <1>2, <1>3 DEF Window
<1>5. \A i \in 1..L : u[i] \in Window /\ u[i].at = b[i].at
  BY <1>1, <1>3, <1>4
<1>6. u \in Windows /\ Len(u) = L
  <2>1. u = [i \in 1..L |-> u[i]]
    BY <1>1 DEF Bump
  <2> HIDE DEF u
  <2>2. u \in [1..L -> Window]
    BY <1>5, <2>1
  <2> QED
    BY <1>1, <2>2 DEF Windows
<1>7. \A r \in Results : u[L].counts[r] = b[L].counts[r] + (IF r = q THEN 1 ELSE 0)
  BY <1>2, <1>4
<1>8. \A i \in 1..L - 1 : u[i].counts = b[i].counts
  BY <1>1, <1>3
<1> HIDE DEF u
<1>9. \A r \in Results : /\ Sum(b, r) \in Nat
                         /\ Sum(u, r) = Sum(b, r) + (IF r = q THEN 1 ELSE 0)
  BY <1>6, <1>7, <1>8, BumpedSum
<1> QED
  BY <1>5, <1>6, <1>9 DEF u

Width(s) == s \div WindowCount

\* The beginnings of the windows are at least a width apart.
Spaced(ws, width) == \A i \in 2..Len(ws) : ws[i].at >= ws[i - 1].at + width

MetricsInv(m, s) ==
  /\ m \in [windows : Windows, counts : Counts]
  /\ \A r \in Results : m.counts[r] = Sum(m.windows, r)
  /\ Spaced(m.windows, Width(s))
  /\ Len(m.windows) <= 1 + s \div Width(s)

LEMMA WidthIsPositive ==
  ASSUME NEW s \in {Sampling, StageDuration}
  PROVE  s \in Nat /\ Width(s) \in Nat /\ Width(s) >= 1 /\ s \div Width(s) \in Nat
<1>1. s \in Nat /\ WindowCount \in Nat /\ WindowCount >= 1 /\ s >= WindowCount
  <2>1. WindowCount \in Nat /\ WindowCount >= 1
    BY BreakerAssumption
  <2>2. s \in Nat /\ s >= WindowCount
    BY BreakerAssumption, Zenon
  <2> QED
    BY <2>1, <2>2
<1>2. s \div WindowCount \in Nat /\ s \div WindowCount >= 1
  BY <1>1
<1>3. \A w \in Nat : w >= 1 => s \div w \in Nat
  BY <1>1
<1> QED
  BY <1>1, <1>2, <1>3 DEF Width

LEMMA Divided ==
  ASSUME NEW l \in Nat, NEW w \in Nat, w >= 1, NEW s \in Nat, l * w <= s
  PROVE  l <= s \div w
<1> DEFINE d == s \div w
<1>1. d \in Nat /\ s < (d + 1) * w
  OBVIOUS
<1> HIDE DEF d
<1>2. ASSUME l >= d + 1 PROVE FALSE
  <2>1. l * w >= (d + 1) * w
    BY <1>1, <1>2
  <2> QED
    BY <1>1, <2>1
<1>3. l <= d
  BY <1>1, <1>2
<1> QED
  BY <1>3 DEF d

\* The windows span as many widths as there are windows after the first.
LEMMA SpacedSpan ==
  ASSUME NEW ws \in Windows, NEW w \in Nat, Spaced(ws, w), ws # <<>>
  PROVE  ws[Len(ws)].at >= ws[1].at + (Len(ws) - 1) * w
<1> DEFINE T == {k \in Nat : k + 1 <= Len(ws) => ws[k + 1].at >= ws[1].at + k * w}
<1>1. Len(ws) \in Nat /\ Len(ws) >= 1 /\ \A i \in 1..Len(ws) : ws[i].at \in Nat
  <2>1. Len(ws) \in Nat /\ Len(ws) >= 1 /\ \A i \in 1..Len(ws) : ws[i] \in Window
    BY DEF Windows
  <2> QED
    BY <2>1 DEF Window
<1>2. 0 \in T
  <2>1. ws[1].at \in Nat /\ 0 * w = 0 /\ 0 + 1 = 1
    BY <1>1
  <2> QED
    BY <2>1
<1>3. ASSUME NEW k \in Nat, k \in T PROVE k + 1 \in T
  <2> SUFFICES ASSUME (k + 1) + 1 <= Len(ws) PROVE ws[(k + 1) + 1].at >= ws[1].at + (k + 1) * w
    OBVIOUS
  <2>1. (k + 1) + 1 \in 2..Len(ws) /\ ((k + 1) + 1) - 1 = k + 1 /\ k + 1 <= Len(ws)
        /\ k + 1 \in 1..Len(ws) /\ (k + 1) + 1 \in 1..Len(ws) /\ 1 \in 1..Len(ws)
    BY <1>1
  <2>2. ws[k + 1].at >= ws[1].at + k * w
    BY <1>3, <2>1
  <2>3. ws[(k + 1) + 1].at >= ws[k + 1].at + w
    BY <2>1 DEF Spaced
  <2>4. (k + 1) * w = k * w + w /\ k * w \in Nat
    OBVIOUS
  <2>5. ws[1].at \in Nat /\ ws[k + 1].at \in Nat /\ ws[(k + 1) + 1].at \in Nat
    BY <1>1, <2>1
  <2> HIDE DEF T
  <2> QED
    BY ONLY <2>2, <2>3, <2>4, <2>5
<1>4. \A k \in Nat : k \in T
  <2> HIDE DEF T
  <2> QED
    BY <1>2, <1>3, Induction
<1>5. PICK k \in Nat : k = Len(ws) - 1 /\ k + 1 = Len(ws)
  BY <1>1
<1>6. k \in T
  BY <1>4
<1>7. ws[k + 1].at >= ws[1].at + k * w
  BY <1>1, <1>5, <1>6
<1> QED
  BY <1>5, <1>7

\* The windows that stay.
LEMMA RestOfWindows ==
  ASSUME NEW ws \in Windows, NEW n \in 0..Len(ws), NEW w \in Nat, Spaced(ws, w)
  PROVE  LET vs == SubSeq(ws, n + 1, Len(ws)) IN
           /\ vs \in Windows /\ Len(vs) = Len(ws) - n
           /\ \A i \in 1..Len(ws) - n : vs[i] = ws[n + i]
           /\ Spaced(vs, w)
<1> DEFINE vs == SubSeq(ws, n + 1, Len(ws))
<1>1. Len(ws) \in Nat /\ n \in Nat /\ n <= Len(ws)
  BY DEF Windows
<1>2. vs \in Windows /\ Len(vs) = Len(ws) - n
  BY <1>1 DEF Windows
<1>3. \A i \in 1..Len(ws) - n : vs[i] = ws[n + i]
  BY <1>1 DEF Windows
<1> HIDE DEF vs
<1>4. ASSUME NEW i \in 2..Len(vs) PROVE vs[i].at >= vs[i - 1].at + w
  <2>1. i \in 1..Len(ws) - n /\ i - 1 \in 1..Len(ws) - n /\ n + i \in 2..Len(ws)
        /\ (n + i) - 1 = n + (i - 1)
    BY <1>1, <1>2
  <2>2. vs[i] = ws[n + i] /\ vs[i - 1] = ws[(n + i) - 1]
    BY <1>3, <2>1
  <2> QED
    BY <2>1, <2>2 DEF Spaced
<1>5. Spaced(vs, w)
  BY <1>4 DEF Spaced
<1> QED
  BY <1>2, <1>3, <1>5 DEF vs

\* A window without results adds nothing.
LEMMA AppendedSum ==
  ASSUME NEW vs \in Windows, NEW b \in Windows, Len(b) = Len(vs) + 1,
         \A i \in 1..Len(vs) : b[i] = vs[i],
         \A r \in Results : b[Len(vs) + 1].counts[r] = 0
  PROVE  \A r \in Results : Sum(b, r) = Sum(vs, r)
<1> TAKE r \in Results
<1>1. PICK f : IsPrefixSum(f, b, r) /\ Sum(b, r) = f[Len(b)]
  BY SumIsPrefixSum
<1>2. PICK g : IsPrefixSum(g, vs, r) /\ Sum(vs, r) = g[Len(vs)]
  BY SumIsPrefixSum
<1>3. PICK k \in Nat : k = Len(vs)
  BY DEF Windows
<1>4. k + 1 \in 1..Len(b) /\ (k + 1) - 1 = k /\ k <= Len(b) /\ k <= Len(vs)
      /\ \A i \in 1..k : vs[i].counts[r] = b[i].counts[r]
  BY <1>3
<1>5. f[k] = g[k] /\ g[k] \in Nat
  BY <1>1, <1>2, <1>4, SameFront
<1>6. f[k + 1] = f[k] + b[k + 1].counts[r]
  BY <1>1, <1>4 DEF IsPrefixSum
<1> QED
  BY <1>1, <1>2, <1>3, <1>5, <1>6

\* The rest of current_window, and update.
LEMMA UpdatedWindows ==
  ASSUME NEW s \in {Sampling, StageDuration}, NEW vs \in Windows, NEW q \in Results,
         NEW now \in Nat, Spaced(vs, Width(s)), Len(vs) <= 1 + s \div Width(s),
         vs # <<>> => Since(now, vs[1].at) <= s
  PROVE  LET u == Updated(vs, q, now, s) IN
           /\ u \in Windows /\ Spaced(u, Width(s)) /\ Len(u) <= 1 + s \div Width(s)
           /\ \A r \in Results : /\ Sum(vs, r) \in Nat
                                 /\ Sum(u, r) = Sum(vs, r) + (IF r = q THEN 1 ELSE 0)
<1> DEFINE open == vs # <<>> /\ Since(now, Last(vs).at) < s \div WindowCount
           zero == [at |-> now, counts |-> NoCounts]
           base == IF open THEN vs ELSE Append(vs, zero)
           u    == Updated(vs, q, now, s)
           w    == Width(s)
           D    == s \div w
<1>1. s \in Nat /\ w \in Nat /\ w >= 1 /\ D \in Nat
  BY WidthIsPositive
<1>2. Len(vs) \in Nat /\ \A i \in 1..Len(vs) : vs[i] \in Window /\ vs[i].at \in Nat
  <2>1. Len(vs) \in Nat /\ \A i \in 1..Len(vs) : vs[i] \in Window
    BY DEF Windows
  <2> QED
    BY <2>1 DEF Window
<1>3. zero \in Window /\ \A r \in Results : zero.counts[r] = 0
  BY DEF Window, Counts, NoCounts
<1>4. u = Bump(base, q)
  BY DEF Updated, Bump
<1>5. /\ base \in Windows /\ base # <<>> /\ Spaced(base, w) /\ Len(base) <= 1 + D
      /\ \A r \in Results : Sum(base, r) = Sum(vs, r)
  <2>1. CASE open
    BY <2>1
  <2>2. CASE ~open
    <3>1. base = Append(vs, zero)
      BY <2>2
    <3> HIDE DEF zero, base, u, D
    <3>2. base \in Windows /\ Len(base) = Len(vs) + 1 /\ base[Len(vs) + 1] = zero
          /\ (\A i \in 1..Len(vs) : base[i] = vs[i]) /\ base # <<>>
      BY <1>3, <3>1 DEF Windows
    <3>3. CASE vs = <<>>
      <4>1. Len(vs) = 0
        BY <3>3
      <4>2. Spaced(base, w) /\ Len(base) <= 1 + D
        BY <1>1, <3>2, <4>1 DEF Spaced
      <4> QED
        BY <1>3, <3>2, <4>2, AppendedSum
    <3>4. CASE vs # <<>>
      <4>1. Last(vs) = vs[Len(vs)] /\ Len(vs) \in 1..Len(vs) /\ 1 \in 1..Len(vs)
        BY <1>2, <3>4 DEF Last, Windows
      <4>2. ~(Since(now, vs[Len(vs)].at) < w)
        BY <2>2, <3>4, <4>1 DEF Width
      <4>3. vs[Len(vs)].at \in Nat /\ vs[1].at \in Nat
        BY <1>2, <4>1
      <4>4. now >= vs[Len(vs)].at + w
        BY <1>1, <4>2, <4>3 DEF Since
      <4>5. vs[Len(vs)].at >= vs[1].at + (Len(vs) - 1) * w
        BY <1>1, <3>4, SpacedSpan
      <4>6. PICK k \in Nat : k + 1 = Len(vs) /\ k = Len(vs) - 1
        BY <1>2, <4>1
      <4>7. k * w \in Nat /\ (k + 1) * w = k * w + w
        BY <1>1
      <4>8. now - vs[1].at <= s
        BY <1>1, <3>4, <4>3, <4>4 DEF Since
      <4>9. (k + 1) * w <= s
        <5>1. vs[Len(vs)].at >= vs[1].at + k * w /\ now \in Nat
          BY <4>5, <4>6
        <5>2. now - vs[1].at >= k * w + w
          BY <1>1, <4>3, <4>4, <4>7, <5>1, Chained
        <5> QED
          BY <1>1, <4>3, <4>7, <4>8, <5>1, <5>2, Between, Zenon
      <4>10. k + 1 <= D
        BY <1>1, <4>9, Divided DEF D
      <4>11. Len(base) <= 1 + D
        BY <1>1, <3>2, <4>6, <4>10
      <4>12. ASSUME NEW i \in 2..Len(base) PROVE base[i].at >= base[i - 1].at + w
        <5>1. CASE i = Len(vs) + 1
          <6>1. base[i] = zero /\ base[i - 1] = vs[Len(vs)]
            BY <1>2, <3>2, <4>1, <5>1
          <6> QED
            BY <4>4, <6>1 DEF zero
        <5>2. CASE i # Len(vs) + 1
          <6>1. i \in 2..Len(vs) /\ i \in 1..Len(vs) /\ i - 1 \in 1..Len(vs)
            BY <1>2, <3>2, <5>2
          <6>2. base[i] = vs[i] /\ base[i - 1] = vs[i - 1]
            BY <3>2, <6>1
          <6> QED
            BY <6>1, <6>2 DEF Spaced
        <5> QED
          BY <5>1, <5>2
      <4>13. Spaced(base, w)
        BY <4>12 DEF Spaced
      <4> QED
        BY <1>3, <3>2, <4>11, <4>13, AppendedSum
    <3> QED
      BY <3>3, <3>4
  <2> QED
    BY <2>1, <2>2
<1> HIDE DEF base, u, D, w, zero
<1>6. /\ u \in Windows /\ Len(u) = Len(base) /\ \A i \in 1..Len(base) : u[i].at = base[i].at
      /\ \A r \in Results : /\ Sum(base, r) \in Nat
                            /\ Sum(u, r) = Sum(base, r) + (IF r = q THEN 1 ELSE 0)
  <2>1. base \in Windows /\ base # <<>>
    BY <1>5
  <2> QED
    BY <1>4, <2>1, Bumped
<1>7. Spaced(u, w)
  <2> SUFFICES ASSUME NEW i \in 2..Len(u) PROVE u[i].at >= u[i - 1].at + w
    BY DEF Spaced
  <2>1. i \in 1..Len(base) /\ i - 1 \in 1..Len(base) /\ i \in 2..Len(base)
    BY <1>5, <1>6 DEF Windows
  <2>2. u[i].at = base[i].at /\ u[i - 1].at = base[i - 1].at
    BY <1>6, <2>1
  <2> QED
    BY <1>5, <2>1, <2>2 DEF Spaced
<1> QED
  BY <1>5, <1>6, <1>7 DEF u, w, D

\* HealthMetrics::record keeps the aggregate equal to the sum of the windows, and
\* the windows spaced and few.  No count of the aggregate grows but the one of the
\* result.
LEMMA RecordKeeps ==
  ASSUME NEW s \in {Sampling, StageDuration}, NEW m, MetricsInv(m, s), NEW q \in Results,
         NEW now \in Nat
  PROVE  /\ MetricsInv(Record(m, q, now, s), s)
         /\ Record(m, q, now, s).counts[q] >= 1
         /\ \A r \in Results : r # q => Record(m, q, now, s).counts[r] <= m.counts[r]
<1> DEFINE ws == m.windows
           n  == Cardinality(Expired(ws, now, s))
           vs == SubSeq(ws, n + 1, Len(ws))
           c  == Subtracted(m.counts, ws, n)
           u  == Updated(vs, q, now, s)
<1>1. ws \in Windows /\ m.counts \in Counts /\ Spaced(ws, Width(s))
      /\ Len(ws) <= 1 + s \div Width(s) /\ Len(ws) \in Nat
      /\ \A r \in Results : m.counts[r] = Sum(ws, r)
  BY DEF MetricsInv, Windows
<1>2. s \in Nat /\ Width(s) \in Nat /\ s \div Width(s) \in Nat
  BY WidthIsPositive
<1>3. Record(m, q, now, s) = [windows |-> u, counts |-> Count(c, q)]
  BY DEF Record
<1> HIDE DEF ws, vs, c, u
<1>4. n \in 0..Len(ws) /\ (n < Len(ws) => Since(now, ws[n + 1].at) <= s)
  BY <1>1, <1>2, ExpiredAreFirst
<1> HIDE DEF n
<1>5. /\ vs \in Windows /\ Len(vs) = Len(ws) - n /\ Spaced(vs, Width(s))
      /\ \A i \in 1..Len(ws) - n : vs[i] = ws[n + i]
  BY <1>1, <1>2, <1>4, RestOfWindows DEF vs
<1>6. Len(vs) <= 1 + s \div Width(s) /\ (vs # <<>> => Since(now, vs[1].at) <= s)
  <2>1. Len(vs) <= 1 + s \div Width(s)
    BY <1>1, <1>2, <1>4, <1>5
  <2>2. ASSUME vs # <<>> PROVE Since(now, vs[1].at) <= s
    <3>1. Len(vs) # 0
      BY <1>5, <2>2 DEF Windows
    <3>2. n < Len(ws) /\ vs[1] = ws[n + 1]
      BY <1>1, <1>4, <1>5, <3>1
    <3> QED
      BY <1>4, <3>2
  <2> QED
    BY <2>1, <2>2
<1>7. /\ u \in Windows /\ Spaced(u, Width(s)) /\ Len(u) <= 1 + s \div Width(s)
      /\ \A r \in Results : /\ Sum(vs, r) \in Nat
                            /\ Sum(u, r) = Sum(vs, r) + (IF r = q THEN 1 ELSE 0)
  BY <1>5, <1>6, UpdatedWindows DEF u
<1> DEFINE F == [r \in Results |-> CHOOSE f : IsPrefixSum(f, ws, r) /\ Sum(ws, r) = f[Len(ws)]]
<1>8. \A r \in Results : IsPrefixSum(F[r], ws, r) /\ m.counts[r] = F[r][Len(ws)]
  <2> SUFFICES ASSUME NEW r \in Results
               PROVE  IsPrefixSum(F[r], ws, r) /\ m.counts[r] = F[r][Len(ws)]
    OBVIOUS
  <2>1. \E f : IsPrefixSum(f, ws, r) /\ Sum(ws, r) = f[Len(ws)]
    BY <1>1, SumIsPrefixSum
  <2>2. F[r] = CHOOSE f : IsPrefixSum(f, ws, r) /\ Sum(ws, r) = f[Len(ws)]
    OBVIOUS
  <2>3. IsPrefixSum(F[r], ws, r) /\ Sum(ws, r) = F[r][Len(ws)]
    <3> HIDE DEF F
    <3> QED
      BY <2>1, <2>2, Zenon
  <2> QED
    BY <1>1, <2>3
<1> HIDE DEF F
<1>9. c \in Counts /\ \A r \in Results : c[r] = F[r][Len(ws)] - F[r][n]
  BY <1>1, <1>4, <1>8, SubtractedIsRest DEF c
<1>10. ASSUME NEW r \in Results PROVE c[r] = Sum(vs, r) /\ c[r] <= m.counts[r] /\ c[r] \in Nat
  <2>1. PICK g : IsPrefixSum(g, vs, r) /\ Sum(vs, r) = g[Len(vs)]
    BY <1>5, SumIsPrefixSum
  <2>2. PICK k \in Nat : k = Len(ws) - n /\ k = Len(vs) /\ n + k = Len(ws)
    <3>1. Len(ws) - n \in Nat /\ n + (Len(ws) - n) = Len(ws)
      BY <1>1, <1>4
    <3> QED
      BY <1>5, <3>1
  <2>3. n \in Nat /\ n + k <= Len(ws) /\ k <= Len(vs)
        /\ \A i \in 1..k : vs[i].counts[r] = ws[n + i].counts[r]
    BY <1>1, <1>4, <1>5, <2>2
  <2>4. IsPrefixSum(F[r], ws, r)
    BY <1>8
  <2>5. g[k] \in Nat /\ F[r][n] \in Nat /\ F[r][n + k] = F[r][n] + g[k]
    <3>1. PICK f : f = F[r]
      OBVIOUS
    <3>2. ws \in Windows /\ vs \in Windows /\ IsPrefixSum(f, ws, r) /\ IsPrefixSum(g, vs, r)
      BY <1>1, <1>5, <2>1, <2>4, <3>1
    <3>3. g[k] \in Nat /\ f[n] \in Nat /\ f[n + k] = f[n] + g[k]
      BY <2>3, <3>2, SameCounts
    <3> QED
      BY <3>1, <3>3
  <2>6. F[r][Len(ws)] = F[r][n] + g[k] /\ Sum(vs, r) = g[k]
    BY <2>1, <2>2, <2>5
  <2>7. c[r] = F[r][Len(ws)] - F[r][n] /\ m.counts[r] = F[r][Len(ws)]
    BY <1>8, <1>9
  <2> QED
    BY <2>5, <2>6, <2>7
<1>11. Count(c, q) \in Counts
       /\ \A r \in Results : Count(c, q)[r] = c[r] + (IF r = q THEN 1 ELSE 0)
  BY <1>9 DEF Count, Counts
<1>12. \A r \in Results : Count(c, q)[r] = Sum(u, r)
  BY <1>7, <1>10, <1>11
<1>13. MetricsInv(Record(m, q, now, s), s)
  BY <1>3, <1>7, <1>11, <1>12 DEF MetricsInv
<1>14. Count(c, q)[q] >= 1 /\ \A r \in Results : r # q => Count(c, q)[r] <= m.counts[r]
  BY <1>10, <1>11
<1> QED
  BY <1>3, <1>13, <1>14

LEMMA NoMetricsKeep == ASSUME NEW s \in {Sampling, StageDuration} PROVE MetricsInv(NoMetrics, s)
<1>1. NoMetrics.windows = <<>> /\ <<>> \in Windows /\ Len(<<>>) = 0
      /\ NoMetrics \in [windows : Windows, counts : Counts]
      /\ \A r \in Results : NoMetrics.counts[r] = 0
  BY DEF NoMetrics, NoCounts, Windows, Counts
<1>2. \A r \in Results : Sum(<<>>, r) = 0
  <2> TAKE r \in Results
  <2>1. PICK f : IsPrefixSum(f, <<>>, r) /\ Sum(<<>>, r) = f[Len(<<>>)]
    BY <1>1, SumIsPrefixSum
  <2> QED
    BY <1>1, <2>1 DEF IsPrefixSum
<1>3. s \div Width(s) \in Nat
  BY WidthIsPositive
<1>4. Spaced(<<>>, Width(s))
  BY <1>1 DEF Spaced
<1> QED
  BY <1>1, <1>2, <1>3, <1>4 DEF MetricsInv

-----------------------------------------------------------------------------
(* The inductive invariant. *)

Metrics == [windows : Windows, counts : Counts]

\* A probe of stage s at time t: its times are not further ahead than a stage
\* lasts, and what it has recorded agrees with itself.
ProbeOK(s, p, t) ==
  /\ p \in [at : Int, fallback : Int, metrics : Metrics]
  /\ p.at <= t + StageDuration /\ p.fallback <= t + StageDuration
  /\ s = 1 => p.at <= t
  /\ MetricsInv(p.metrics, StageDuration)

\* No call has a reading of the clock that is ahead of it.
CallsOK ==
  /\ clock \in Nat /\ policy \in Policies
  /\ pc \in [Calls -> {"idle", "entering", "running", "exiting", "done"}]
  /\ seen \in [Calls -> Nat] /\ \A c \in Calls : seen[c] <= clock
  /\ mode \in [Calls -> {"normal", "probe"}] /\ result \in [Calls -> Results]

CircuitOK ==
  /\ circuit \in {"closed", "open", "halfopen"} /\ stage \in Stages
  /\ circuit # "halfopen" => stage = 1
  /\ openUntil \in Nat /\ openUntil <= clock + BreakDuration
  /\ MetricsInv(health, Sampling) /\ ProbeOK(stage, probe, clock)

\* The stages that are behind recorded a success, and so did the current one if
\* its metrics count any.
EarnedOK ==
  /\ circuit = "open" => earned = {}
  /\ circuit = "halfopen" =>
       /\ earned \subseteq 1..stage /\ 1..stage - 1 \subseteq earned
       /\ probe.metrics.counts["success"] > 0 => stage \in earned

BreakerInv == CallsOK /\ CircuitOK /\ EarnedOK

LEMMA NewProbeOK == ASSUME NEW s, NEW t \in Nat PROVE ProbeOK(s, NewProbe, t)
<1>1. MetricsInv(NoMetrics, StageDuration) /\ StageDuration \in Nat
  BY NoMetricsKeep, BreakerAssumption
<1>2. NoMetrics \in Metrics
  BY <1>1 DEF MetricsInv, Metrics
<1> QED
  BY <1>1, <1>2 DEF ProbeOK, NewProbe, Never

LEMMA NewProbeEmpty == NewProbe.metrics.counts["success"] = 0
BY DEF NewProbe, NoMetrics, NoCounts, Results

LEMMA Durations == StageDuration \in Nat /\ BreakDuration \in Nat /\ HealthStages \in Nat
BY BreakerAssumption

LEMMA ProbeOKLater ==
  ASSUME NEW s, NEW p, NEW t \in Nat, NEW u \in Nat, t <= u, ProbeOK(s, p, t)
  PROVE  ProbeOK(s, p, u)
BY Durations DEF ProbeOK

\* allow_probe keeps the probe as it should be.
LEMMA AllowKeeps ==
  ASSUME NEW s, NEW p, NEW t \in Nat, ProbeOK(s, p, t), NEW now \in Nat, now <= t,
         NEW a \in Allow(s, p, now)
  PROVE  ProbeOK(s, a.probe, t) /\ a.ok \in BOOLEAN /\ a.probe.metrics = p.metrics
<1>1. p.at \in Int /\ p.fallback \in Int /\ p.metrics \in Metrics
      /\ p = [at |-> p.at, fallback |-> p.fallback, metrics |-> p.metrics]
  BY DEF ProbeOK
<1>2. CASE s = 1
  <2>1. a = AllowSingle(p, now)
    BY <1>2 DEF Allow
  <2>2. a.ok \in BOOLEAN /\ (a.probe = p \/ a.probe = [p EXCEPT !.at = now])
    BY <2>1 DEF AllowSingle
  <2>3. ProbeOK(s, [p EXCEPT !.at = now], t) /\ [p EXCEPT !.at = now].metrics = p.metrics
    BY <1>1, Durations DEF ProbeOK
  <2> QED
    BY <2>2, <2>3
<1>3. CASE s # 1
  <2> DEFINE until    == IF p.at = Never THEN now + StageDuration ELSE p.at
             fallback == IF p.fallback = Never THEN until ELSE p.fallback
             timed    == [p EXCEPT !.at = until, !.fallback = fallback]
             later    == [timed EXCEPT !.fallback = now + StageDuration]
  <2>1. a \in AllowHealth(p, now)
    BY <1>3 DEF Allow
  <2>2. a.ok \in BOOLEAN /\ (a.probe = timed \/ a.probe = later)
    <3>1. a \in {[ok |-> TRUE, probe |-> timed], [ok |-> TRUE, probe |-> later],
                 [ok |-> FALSE, probe |-> timed]}
      BY <2>1, Zenon DEF AllowHealth
    <3> HIDE DEF timed, later
    <3>2. CASE a = [ok |-> TRUE, probe |-> timed]
      BY <3>2
    <3>3. CASE a = [ok |-> TRUE, probe |-> later]
      BY <3>3
    <3>4. CASE a = [ok |-> FALSE, probe |-> timed]
      BY <3>4
    <3> QED
      BY <3>1, <3>2, <3>3, <3>4
  <2>3. until \in Int /\ until <= t + StageDuration /\ fallback \in Int
        /\ fallback <= t + StageDuration
    BY <1>1, Durations DEF ProbeOK
  <2> HIDE DEF until, fallback
  <2>4. /\ timed \in [at : Int, fallback : Int, metrics : Metrics]
        /\ timed.at = until /\ timed.fallback = fallback /\ timed.metrics = p.metrics
    BY <2>3 DEF ProbeOK
  <2> HIDE DEF timed
  <2>5. ProbeOK(s, timed, t) /\ timed.metrics = p.metrics
    BY <1>1, <1>3, <2>3, <2>4 DEF ProbeOK
  <2>6. ProbeOK(s, later, t) /\ later.metrics = p.metrics
    <3>1. /\ later \in [at : Int, fallback : Int, metrics : Metrics] /\ later.at = until
          /\ later.fallback = now + StageDuration /\ later.metrics = p.metrics
      BY <2>4, Durations
    <3> HIDE DEF later
    <3> QED
      BY <1>3, <2>3, <3>1, Durations DEF ProbeOK
  <2> QED
    BY <2>2, <2>5, <2>6
<1> QED
  BY <1>2, <1>3

LEMMA RecordedKeeps ==
  ASSUME NEW s, NEW p, NEW t \in Nat, ProbeOK(s, p, t), NEW r \in Results, NEW now \in Nat
  PROVE  /\ ProbeOK(s, Recorded(s, p, r, now), t)
         /\ r # "success" =>
              Recorded(s, p, r, now).metrics.counts["success"] <= p.metrics.counts["success"]
         /\ s # 1 /\ r = "failure" => Recorded(s, p, r, now).metrics.counts["failure"] >= 1
<1> DEFINE m == Record(p.metrics, r, now, StageDuration)
<1>1. "success" \in Results
  BY DEF Results
<1>2. CASE s = 1
  <2>1. p.metrics.counts["success"] \in Nat
    BY <1>1 DEF ProbeOK, Metrics, Counts
  <2> QED
    BY <1>2, <2>1 DEF Recorded
<1>3. CASE s # 1
  <2>1. MetricsInv(m, StageDuration) /\ m.counts[r] >= 1
        /\ \A q \in Results : q # r => m.counts[q] <= p.metrics.counts[q]
    BY RecordKeeps DEF ProbeOK
  <2> HIDE DEF m
  <2>2. m \in Metrics
    BY <2>1 DEF MetricsInv, Metrics
  <2>3. Recorded(s, p, r, now) = [p EXCEPT !.metrics = m]
    BY <1>3 DEF Recorded, m
  <2>4. ProbeOK(s, [p EXCEPT !.metrics = m], t) /\ [p EXCEPT !.metrics = m].metrics = m
    BY <2>1, <2>2 DEF ProbeOK
  <2> QED
    BY <1>1, <2>1, <2>3, <2>4
<1> QED
  BY <1>2, <1>3

\* A failure is outweighed only by successes.
LEMMA Outweighed ==
  ASSUME NEW x \in Nat, NEW y \in Nat, x >= 1, ~Reached(x, y + x, 1, FailurePercent)
  PROVE  y >= 1
<1>1. FailurePercent \in Nat /\ FailurePercent <= 99
  BY BreakerAssumption
<1> SUFFICES ASSUME y = 0 PROVE FALSE
  OBVIOUS
<1>2. y + x = x
  OBVIOUS
<1>3. 100 * x >= FailurePercent * x
  BY <1>1
<1> QED
  BY <1>2, <1>3 DEF Reached

LEMMA HealthyHasSuccess ==
  ASSUME NEW c \in Counts, c["failure"] >= 1, ~Unhealthy(c, 1)
  PROVE  c["success"] >= 1
<1>1. c["failure"] \in Nat /\ c["abandoned"] \in Nat /\ c["success"] \in Nat
  BY DEF Counts, Results
<1>2. CASE ~Reached(c["failure"], c["success"] + c["failure"], 1, FailurePercent)
  BY <1>1, <1>2, Outweighed
<1>3. CASE ~Reached(c["failure"] + c["abandoned"], Total(c), 1, FailurePercent)
  <2>1. Total(c) = c["success"] + (c["failure"] + c["abandoned"])
    BY <1>1 DEF Total
  <2>2. c["failure"] + c["abandoned"] \in Nat /\ c["failure"] + c["abandoned"] >= 1
    BY <1>1
  <2> QED
    BY <1>1, <1>3, <2>1, <2>2, Outweighed
<1> QED
  BY <1>2, <1>3 DEF Unhealthy

\* A stage that a probe ends with success has recorded one, by this probe or before.
LEMMA PassedIsEarned ==
  ASSUME CallsOK, CircuitOK, EarnedOK, circuit = "halfopen", NEW c \in Calls,
         LET after == Recorded(stage, probe, result[c], seen[c])
         IN  Conclusive(Verdict(stage, after, result[c], seen[c]), result[c]) = "success"
  PROVE  stage \in earned \/ result[c] = "success"
<1> DEFINE after == Recorded(stage, probe, result[c], seen[c])
<1>1. result[c] \in Results /\ seen[c] \in Nat /\ clock \in Nat
  BY DEF CallsOK
<1>2. result[c] # "abandoned"
  BY DEF Conclusive
<1> SUFFICES ASSUME result[c] = "failure" PROVE stage \in earned
  BY <1>1, <1>2 DEF Results
<1>3. Verdict(stage, after, "failure", seen[c]) = "success"
  BY DEF Conclusive
<1>4. stage # 1
  BY <1>3 DEF Verdict, SingleVerdict
<1>5. ProbeOK(stage, after, clock) /\ after.metrics.counts["failure"] >= 1
      /\ after.metrics.counts["success"] <= probe.metrics.counts["success"]
  BY <1>1, <1>4, RecordedKeeps DEF CircuitOK
<1> HIDE DEF after
<1>6. ~Unhealthy(after.metrics.counts, 1)
  BY <1>3, <1>4 DEF Verdict, HealthVerdict
<1>7. after.metrics.counts \in Counts /\ probe.metrics.counts \in Counts
  BY <1>5 DEF CircuitOK, ProbeOK, Metrics
<1>8. after.metrics.counts["success"] >= 1
  BY <1>5, <1>6, <1>7, HealthyHasSuccess
<1>9. after.metrics.counts["success"] \in Nat /\ probe.metrics.counts["success"] \in Nat
  BY <1>7 DEF Counts, Results
<1>10. probe.metrics.counts["success"] > 0
  BY <1>5, <1>8, <1>9
<1> QED
  BY <1>10 DEF EarnedOK

-----------------------------------------------------------------------------
(* One step of the breaker. *)

LEMMA InitBreaker == Init => BreakerInv
<1> SUFFICES ASSUME Init PROVE BreakerInv
  OBVIOUS
<1>1. MetricsInv(NoMetrics, Sampling) /\ ProbeOK(1, NewProbe, 0)
  BY NoMetricsKeep, NewProbeOK
<1>2. CallsOK
  BY DEF Init, CallsOK, Results
<1>3. CircuitOK
  BY <1>1, Durations DEF Init, CircuitOK, Stages
<1>4. EarnedOK
  BY DEF Init, EarnedOK
<1> QED
  BY <1>2, <1>3, <1>4 DEF BreakerInv

LEMMA StepCalls ==
  ASSUME CallsOK, Tick \/ \E c \in Calls : Step(c)
  PROVE  CallsOK' /\ clock' \in Nat /\ clock <= clock'
<1> USE DEF CallsOK
<1>1. CASE Tick
  BY <1>1 DEF Tick, callVars, circuitVars
<1>2. ASSUME NEW c \in Calls, Done(c), UNCHANGED <<clock, policy>> PROVE CallsOK'
  BY <1>2 DEF Done, Results
<1>3. ASSUME NEW c \in Calls, NEW m \in {"normal", "probe"}, Run(c, m), UNCHANGED <<clock, policy>>
      PROVE  CallsOK'
  BY <1>3 DEF Run
<1>4. ASSUME NEW c \in Calls, BeforeExecute(c) \/ \E r \in Results : Complete(c, r)
      PROVE  CallsOK'
  BY <1>4 DEF BeforeExecute, Complete
<1>5. ASSUME NEW c \in Calls, Step(c) PROVE CallsOK' /\ UNCHANGED clock
  <2>1. UNCHANGED <<clock, policy>>
    BY <1>5 DEF Step, BeforeExecute, EnterClosed, EnterRejected, EnterOpen, EnterHalfOpen, Complete,
                Panic, ExitClosed, ExitIgnored, ExitProbe
  <2>2. \/ Done(c) \/ Run(c, "normal") \/ Run(c, "probe")
        \/ BeforeExecute(c) \/ \E r \in Results : Complete(c, r)
    BY <1>5 DEF Step, EnterClosed, EnterRejected, EnterOpen, EnterHalfOpen, Ask,
                Panic, ExitClosed, ExitIgnored, ExitProbe
  <2> QED
    BY <1>2, <1>3, <1>4, <2>1, <2>2
<1> QED
  BY <1>1, <1>5

\* Steps that leave the circuit alone.
LEMMA QuietCircuit ==
  ASSUME CallsOK, CircuitOK, EarnedOK, UNCHANGED circuitVars, clock' \in Nat, clock <= clock'
  PROVE  CircuitOK' /\ EarnedOK'
<1>1. ProbeOK(stage, probe, clock')
  BY ProbeOKLater DEF CallsOK, CircuitOK
<1>2. openUntil <= clock' + BreakDuration
  <2>1. clock \in Nat /\ openUntil \in Nat /\ openUntil <= clock + BreakDuration
    BY DEF CallsOK, CircuitOK
  <2>2. \A t \in Nat : clock <= t => openUntil <= t + BreakDuration
    BY <2>1, Durations
  <2> QED
    BY <2>2
<1> QED
  BY <1>1, <1>2 DEF CircuitOK, EarnedOK, circuitVars

LEMMA OpenCircuit ==
  ASSUME CallsOK, NEW c \in Calls, Open(seen[c]), UNCHANGED clock
  PROVE  CircuitOK' /\ EarnedOK'
<1>1. MetricsInv(NoMetrics, Sampling) /\ ProbeOK(1, NewProbe, clock) /\ 1 \in Stages
  BY NoMetricsKeep, NewProbeOK, Durations DEF CallsOK, Stages
<1>2. openUntil' \in Nat /\ openUntil' <= clock' + BreakDuration
  BY Durations DEF Open, CallsOK
<1> QED
  BY <1>1, <1>2 DEF CircuitOK, EarnedOK, Open

LEMMA CloseCircuit ==
  ASSUME CallsOK, NEW s, Close(s), UNCHANGED clock
  PROVE  CircuitOK' /\ EarnedOK'
<1>1. MetricsInv(NoMetrics, Sampling) /\ ProbeOK(1, NewProbe, clock) /\ 1 \in Stages
  BY NoMetricsKeep, NewProbeOK, Durations DEF CallsOK, Stages
<1>2. openUntil' \in Nat /\ openUntil' <= clock' + BreakDuration
  BY Durations DEF Close, CallsOK
<1> QED
  BY <1>1, <1>2 DEF CircuitOK, EarnedOK, Close

LEMMA EnterCircuit ==
  ASSUME CallsOK, CircuitOK, EarnedOK, NEW c \in Calls, EnterOpen(c) \/ EnterHalfOpen(c)
  PROVE  CircuitOK' /\ EarnedOK'
<1>1. clock \in Nat /\ seen[c] \in Nat /\ seen[c] <= clock
  BY DEF CallsOK
<1>2. CASE EnterOpen(c)
  <2>1. PICK a \in Allow(1, NewProbe, seen[c]) : probe' = a.probe
    BY <1>2 DEF EnterOpen, Ask
  <2>2. ProbeOK(1, a.probe, clock) /\ a.probe.metrics = NewProbe.metrics
    BY <1>1, NewProbeOK, AllowKeeps
  <2>3. circuit' = "halfopen" /\ openUntil' = 0 /\ stage = 1 /\ earned = {}
        /\ UNCHANGED <<clock, health, stage, earned>>
    BY <1>2 DEF EnterOpen, CircuitOK, EarnedOK
  <2>4. CircuitOK'
    BY <1>1, <2>1, <2>2, <2>3, Durations DEF CircuitOK
  <2>5. ~(probe'.metrics.counts["success"] > 0)
    BY <2>1, <2>2, NewProbeEmpty
  <2> QED
    BY <2>3, <2>4, <2>5 DEF EarnedOK
<1>3. CASE EnterHalfOpen(c)
  <2>1. PICK a \in Allow(stage, probe, seen[c]) : probe' = a.probe
    BY <1>3 DEF EnterHalfOpen, Ask
  <2>2. ProbeOK(stage, a.probe, clock) /\ a.probe.metrics = probe.metrics
    BY <1>1, AllowKeeps DEF CircuitOK
  <2>3. circuit = "halfopen" /\ UNCHANGED <<clock, circuit, openUntil, health, stage, earned>>
    BY <1>3 DEF EnterHalfOpen
  <2> QED
    BY <2>1, <2>2, <2>3 DEF CircuitOK, EarnedOK
<1> QED
  BY <1>2, <1>3

LEMMA ExitClosedCircuit ==
  ASSUME CallsOK, CircuitOK, EarnedOK, NEW c \in Calls, ExitClosed(c)
  PROVE  CircuitOK' /\ EarnedOK'
<1>1. CASE Open(seen[c])
  BY <1>1, OpenCircuit DEF ExitClosed
<1>2. CASE health' = Record(health, result[c], seen[c], Sampling)
           /\ UNCHANGED <<circuit, openUntil, stage, probe, current, earned>>
  <2>1. result[c] \in Results /\ seen[c] \in Nat /\ UNCHANGED clock
    BY DEF CallsOK, ExitClosed
  <2>2. MetricsInv(health', Sampling)
    BY <1>2, <2>1, RecordKeeps DEF CircuitOK
  <2> QED
    BY <1>2, <2>1, <2>2 DEF CircuitOK, EarnedOK
<1> QED
  BY <1>1, <1>2 DEF ExitClosed

LEMMA ExitProbeCircuit ==
  ASSUME CallsOK, CircuitOK, EarnedOK, NEW c \in Calls, ExitProbe(c)
  PROVE  /\ CircuitOK' /\ EarnedOK'
         /\ circuit' = "closed" => earned' = Stages
<1> DEFINE after   == Recorded(stage, probe, result[c], seen[c])
           verdict == Conclusive(Verdict(stage, after, result[c], seen[c]), result[c])
           success == IF result[c] = "success" THEN {stage} ELSE {}
<1>1. /\ circuit = "halfopen" /\ UNCHANGED clock /\ clock \in Nat /\ stage \in Stages
      /\ stage \in Nat /\ stage >= 1 /\ earned \subseteq 1..stage /\ 1..stage - 1 \subseteq earned
      /\ result[c] \in Results /\ seen[c] \in Nat /\ Stages = 1..1 + HealthStages
      /\ HealthStages \in Nat
  BY Durations DEF ExitProbe, CallsOK, CircuitOK, EarnedOK, Stages
<1>2. \/ verdict = "failure" /\ Open(seen[c])
      \/ verdict = "success" /\ stage + 1 \notin Stages /\ Close(success)
      \/ verdict = "success" /\ stage + 1 \in Stages /\ stage' = stage + 1 /\ probe' = NewProbe
         /\ earned' = earned \union success /\ UNCHANGED <<circuit, health, openUntil>>
      \/ verdict = "pending" /\ probe' = after /\ stage' = stage
         /\ earned' = earned \union success /\ UNCHANGED <<circuit, health, openUntil>>
  BY DEF ExitProbe
<1>3. verdict = "success" => stage \in earned \union success
  BY <1>1, PassedIsEarned
<1>4. CASE verdict = "failure" /\ Open(seen[c])
  BY <1>1, <1>4, OpenCircuit DEF Open
<1>5. CASE verdict = "success" /\ stage + 1 \notin Stages /\ Close(success)
  <2>1. stage = 1 + HealthStages
    BY <1>1, <1>5
  <2>2. earned' = earned \union success
    BY <1>5 DEF Close
  <2>3. success \subseteq {stage}
    OBVIOUS
  <2>4. 1..stage = (1..stage - 1) \union {stage}
    BY <1>1
  <2> HIDE DEF success, verdict
  <2>5. earned' = Stages
    BY <1>1, <1>3, <1>5, <2>1, <2>2, <2>3, <2>4
  <2> QED
    BY <1>1, <1>5, <2>5, CloseCircuit
<1>6. CASE verdict = "success" /\ stage + 1 \in Stages /\ stage' = stage + 1 /\ probe' = NewProbe
           /\ earned' = earned \union success /\ UNCHANGED <<circuit, health, openUntil>>
  <2>1. ProbeOK(stage', probe', clock') /\ ~(probe'.metrics.counts["success"] > 0)
    BY <1>1, <1>6, NewProbeOK, NewProbeEmpty
  <2>2. success \subseteq {stage}
    OBVIOUS
  <2>3. (stage + 1) - 1 = stage /\ 1..stage = (1..stage - 1) \union {stage}
        /\ 1..stage \subseteq 1..stage + 1
    BY <1>1
  <2> HIDE DEF success, verdict
  <2>4. earned' \subseteq 1..stage' /\ 1..stage' - 1 \subseteq earned'
    BY <1>1, <1>3, <1>6, <2>2, <2>3
  <2> QED
    BY <1>1, <1>6, <2>1, <2>4 DEF CircuitOK, EarnedOK
<1>7. CASE verdict = "pending" /\ probe' = after /\ stage' = stage
           /\ earned' = earned \union success /\ UNCHANGED <<circuit, health, openUntil>>
  <2>1. /\ ProbeOK(stage, after, clock)
        /\ result[c] # "success" =>
             after.metrics.counts["success"] <= probe.metrics.counts["success"]
    BY <1>1, RecordedKeeps DEF CircuitOK
  <2> HIDE DEF after, verdict
  <2>2. after.metrics.counts["success"] \in Nat /\ probe.metrics.counts["success"] \in Nat
    BY <2>1 DEF CircuitOK, ProbeOK, Metrics, Counts, Results
  <2>3. after.metrics.counts["success"] > 0 => stage \in earned \union success
    BY <1>1, <2>1, <2>2 DEF EarnedOK
  <2>4. earned' \subseteq 1..stage /\ 1..stage - 1 \subseteq earned'
    <3>1. success \subseteq {stage} /\ stage \in 1..stage
      BY <1>1
    <3> HIDE DEF success
    <3> QED
      BY <1>1, <1>7, <3>1
  <2>5. CircuitOK'
    BY <1>1, <1>7, <2>1 DEF CircuitOK
  <2> QED
    BY <1>1, <1>7, <2>3, <2>4, <2>5 DEF EarnedOK
<1> QED
  BY <1>2, <1>4, <1>5, <1>6, <1>7

LEMMA NextBreaker ==
  ASSUME BreakerInv, [Next]_vars
  PROVE  BreakerInv' /\ (circuit = "halfopen" /\ circuit' = "closed" => earned' = Stages)
<1>1. CASE UNCHANGED vars
  BY <1>1 DEF vars, circuitVars, callVars, BreakerInv, CallsOK, CircuitOK, EarnedOK
<1>2. CASE Tick
  <2>1. CallsOK' /\ clock' \in Nat /\ clock <= clock' /\ UNCHANGED circuitVars
    BY <1>2, StepCalls DEF BreakerInv, Tick
  <2> QED
    BY <2>1, QuietCircuit DEF BreakerInv, circuitVars
<1>3. ASSUME NEW c \in Calls, Step(c)
      PROVE  BreakerInv' /\ (circuit = "halfopen" /\ circuit' = "closed" => earned' = Stages)
  <2>1. CallsOK' /\ clock' \in Nat /\ clock <= clock'
    BY <1>3, StepCalls DEF BreakerInv
  <2>2. CASE UNCHANGED circuitVars
    BY <2>1, <2>2, QuietCircuit DEF BreakerInv, circuitVars
  <2>3. CASE EnterOpen(c) \/ EnterHalfOpen(c)
    <3>1. circuit' = "halfopen"
      BY <2>3 DEF EnterOpen, EnterHalfOpen
    <3> QED
      BY <2>1, <2>3, <3>1, EnterCircuit DEF BreakerInv
  <2>4. CASE ExitClosed(c)
    <3>1. circuit = "closed"
      BY <2>4 DEF ExitClosed
    <3> QED
      BY <2>1, <2>4, <3>1, ExitClosedCircuit DEF BreakerInv
  <2>5. CASE ExitProbe(c)
    BY <2>1, <2>5, ExitProbeCircuit DEF BreakerInv
  <2>6. UNCHANGED circuitVars \/ EnterOpen(c) \/ EnterHalfOpen(c) \/ ExitClosed(c) \/ ExitProbe(c)
    BY <1>3 DEF Step, BeforeExecute, EnterClosed, EnterRejected, Complete, Panic, ExitIgnored
  <2> QED
    BY <2>2, <2>3, <2>4, <2>5, <2>6
<1> QED
  BY <1>1, <1>2, <1>3 DEF Next

LEMMA BreakerInduction == Spec => []BreakerInv
<1>1. BreakerInv /\ [Next]_vars => BreakerInv'
  BY NextBreaker
<1> QED
  BY <1>1, InitBreaker, PTL DEF Spec

-----------------------------------------------------------------------------
(* The theorems. *)

LEMMA MetricsAreOK ==
  ASSUME NEW s \in {Sampling, StageDuration}, NEW m, MetricsInv(m, s)
  PROVE  MetricsOK(m, s)
<1> DEFINE ws == m.windows
<1>1. ws \in Windows /\ Spaced(ws, Width(s)) /\ Width(s) \in Nat /\ Width(s) >= 1
  BY WidthIsPositive DEF MetricsInv
<1>2. Len(ws) \in Nat /\ DOMAIN ws = 1..Len(ws) /\ \A i \in 1..Len(ws) : ws[i] \in Window
  BY <1>1 DEF Windows
<1>3. ASSUME NEW i \in DOMAIN ws, i > 1 PROVE ws[i].at > ws[i - 1].at
  <2>1. i \in 2..Len(ws) /\ i \in 1..Len(ws) /\ i - 1 \in 1..Len(ws)
    BY <1>2, <1>3
  <2>2. ws[i].at \in Nat /\ ws[i - 1].at \in Nat
    BY <1>2, <2>1 DEF Window
  <2>3. ws[i].at >= ws[i - 1].at + Width(s)
    BY <1>1, <2>1 DEF Spaced
  <2> QED
    BY <1>1, <2>2, <2>3
<1> QED
  BY <1>3 DEF MetricsInv, MetricsOK, Width

\* HealthMetrics of the closed circuit and of every probe: the aggregate that
\* evaluate reads is the sum of the windows in the deque, which are in the order of
\* time and bounded in number, although exit records with readings of the clock
\* taken before the lock.
THEOREM AggregatesAreExact == Spec => []AggregateExact
<1>1. BreakerInv => AggregateExact
  BY MetricsAreOK DEF BreakerInv, CircuitOK, ProbeOK, AggregateExact
<1> QED
  BY <1>1, BreakerInduction, PTL

\* Whatever probes are abandoned, panic or never return, allow_probe lets one of
\* two calls in that come after the durations have passed.
THEOREM BreakerIsNeverStuck == Spec => []NeverStuck
<1>1. BreakerInv => NeverStuck
  <2> SUFFICES ASSUME BreakerInv PROVE NeverStuck
    OBVIOUS
  <2> DEFINE wait == 1 + BreakDuration + StageDuration
             now  == clock + wait
  <2>1. clock \in Nat /\ openUntil \in Nat /\ openUntil <= clock + BreakDuration
        /\ ProbeOK(stage, probe, clock) /\ wait \in Nat /\ wait > StageDuration /\ now \in Nat
        /\ wait > BreakDuration
    BY Durations DEF BreakerInv, CallsOK, CircuitOK
  <2>2. probe \in [at : Int, fallback : Int, metrics : Metrics]
        /\ probe.at <= clock + StageDuration /\ probe.fallback <= clock + StageDuration
        /\ (stage = 1 => probe.at <= clock)
    BY <2>1 DEF ProbeOK
  <2>3. openUntil <= clock + wait
    BY <2>1, Durations
  <2>4. ASSUME NEW a \in Allow(stage, probe, now)
        PROVE  a.ok \/ \A b \in Allow(stage, a.probe, now + wait) : b.ok
    <3>1. CASE stage = 1
      <4>1. Since(now, probe.at) > StageDuration
        BY <2>1, <2>2, <3>1, Durations DEF Since
      <4>2. a = AllowSingle(probe, now)
        BY <3>1 DEF Allow
      <4> QED
        BY <4>1, <4>2 DEF AllowSingle
    <3>2. CASE stage # 1
      <4> DEFINE until    == IF probe.at = Never THEN now + StageDuration ELSE probe.at
                 fallback == IF probe.fallback = Never THEN until ELSE probe.fallback
                 timed    == [probe EXCEPT !.at = until, !.fallback = fallback]
      <4>1. until \in Int /\ until <= now + StageDuration /\ fallback \in Int
            /\ fallback <= now + StageDuration /\ until # Never /\ fallback # Never
        BY <2>1, <2>2, Durations DEF Never
      <4>2. a.ok \/ a = [ok |-> FALSE, probe |-> timed]
        <5>1. a \in AllowHealth(probe, now)
          BY <3>2 DEF Allow
        <5> QED
          BY <5>1 DEF AllowHealth
      <4> HIDE DEF until, fallback
      <4>3. timed.fallback = fallback /\ timed.at = until
        BY <2>2
      <4>4. fallback < now + wait
        BY <2>1, <4>1, Durations
      <4> HIDE DEF timed
      <4>5. ASSUME a.probe = timed, NEW b \in Allow(stage, a.probe, now + wait) PROVE b.ok
        <5>1. b \in AllowHealth(timed, now + wait)
          BY <3>2, <4>5 DEF Allow
        <5>2. now + wait > fallback
          BY <2>1, <4>1, <4>4
        <5>3. PICK x, y : b = [ok |-> TRUE, probe |-> x] \/ b = [ok |-> TRUE, probe |-> y]
          BY <4>1, <4>3, <5>1, <5>2 DEF AllowHealth
        <5> QED
          BY <5>3
      <4> QED
        BY <4>2, <4>5
    <3> QED
      BY <3>1, <3>2
  <2> QED
    BY <2>3, <2>4 DEF NeverStuck
<1> QED
  BY <1>1, BreakerInduction, PTL

\* The circuit never closes before every stage of Probes has recorded a success
\* since the circuit became half-open.
THEOREM RecoveryIsEarned == Spec => RecoveryEarned
<1>1. BreakerInv /\ [Next]_vars
        => [circuit = "halfopen" /\ circuit' = "closed" => earned' = Stages]_vars
  BY NextBreaker
<1> QED
  BY <1>1, BreakerInduction, PTL DEF Spec, RecoveryEarned
=============================================================================
