---------------------------- MODULE UpkeepProofs ----------------------------
(***************************************************************************)
(* What planning and running agree on, for any number of partitions, files *)
(* and writes, whatever the thresholds, and whichever groups fail: what is *)
(* planned is worth a run, a run reads no more than the plan was charged,  *)
(* and a plan grown stale does no harm.                                    *)
(*                                                                         *)
(* Sums and chunks are recursive over the places of a sequence; what they  *)
(* are at every place is shown by induction over sets (Upwards).           *)
(***************************************************************************)
EXTENDS Upkeep, FiniteSetTheorems, FunctionTheorems, WellFoundedInduction, SequenceTheorems, TLAPS

-----------------------------------------------------------------------------
(* Induction and recursion over places *)

(* Of finite sets, some has none of the others strictly within it.          *)
LEMMA Smallest ==
    ASSUME NEW F, F # {}, \A s \in F : IsFiniteSet(s)
    PROVE  \E s \in F : \A r \in F : r \subseteq s => r = s
<1> DEFINE U == UNION F
<1>1. IsWellFoundedOn(StrictSubsetOrdering(U), FiniteSubsetsOf(U))
  BY FS_StrictSubsetOrderingWellFounded, Zenon
<1>2. F \subseteq FiniteSubsetsOf(U)
  <2> SUFFICES ASSUME NEW s \in F PROVE s \in FiniteSubsetsOf(U)
    OBVIOUS
  <2>1. s \in SUBSET U /\ IsFiniteSet(s)
    OBVIOUS
  <2> QED
    BY <2>1, Zenon DEF FiniteSubsetsOf
<1>3. PICK s \in F : \A r \in F : ~(<<r, s>> \in StrictSubsetOrdering(U))
  BY <1>1, <1>2, WFMin, Zenon
<1>4. ASSUME NEW r \in F, r \subseteq s PROVE r = s
  <2>1. r \in SUBSET U /\ s \in SUBSET U
    OBVIOUS
  <2>2. ~(<<r, s>> \in StrictSubsetOrdering(U))
    BY <1>3
  <2> QED
    BY <1>4, <2>1, <2>2 DEF StrictSubsetOrdering
<1> QED
  BY <1>3, <1>4

LEMMA Least ==
    ASSUME NEW S \in SUBSET Nat, S # {}
    PROVE  \E x \in S : \A y \in S : x <= y
<1> DEFINE F == {0 .. x : x \in S}
<1>1. \A s \in F : IsFiniteSet(s)
  BY FS_Interval
<1>2. F # {}
  OBVIOUS
<1> HIDE DEF F
<1>3. PICK s \in F : \A r \in F : r \subseteq s => r = s
  BY <1>1, <1>2, Smallest
<1>4. PICK x \in S : s = 0 .. x
  BY DEF F
<1>5. ASSUME NEW y \in S PROVE x <= y
  <2>1. 0 .. y \subseteq 0 .. x => 0 .. y = 0 .. x
    BY <1>3, <1>4 DEF F
  <2>2. y < x => 0 .. y \subseteq 0 .. x /\ x \in 0 .. x /\ x \notin 0 .. y
    OBVIOUS
  <2> QED
    BY <2>1, <2>2
<1> QED
  BY <1>5

(* Induction, over a set of numbers.                                        *)
LEMMA Upwards ==
    ASSUME NEW S \in SUBSET Nat, 0 \in S, \A n \in S : n + 1 \in S
    PROVE  \A n \in Nat : n \in S
<1> SUFFICES ASSUME Nat \ S # {} PROVE FALSE
  OBVIOUS
<1>1. PICK m \in Nat \ S : \A y \in Nat \ S : m <= y
  <2>1. Nat \ S \in SUBSET Nat
    OBVIOUS
  <2> QED
    BY <2>1, Least
<1>2. m - 1 \in Nat /\ (m - 1) + 1 = m
  OBVIOUS
<1>3. m - 1 \in S
  BY <1>1, <1>2
<1> QED
  BY <1>2, <1>3

LEMMA Counted ==
    ASSUME NEW n \in Nat
    PROVE  IsFiniteSet(1 .. n) /\ Cardinality(1 .. n) = n
<1>1. 1 \in Int /\ n \in Int
  OBVIOUS
<1>2. IsFiniteSet(1 .. n) /\ Cardinality(1 .. n) = IF 1 > n THEN 0 ELSE n - 1 + 1
  BY <1>1, FS_Interval, Zenon
<1> QED
  BY <1>2

(* A recursion over places has a solution: G takes each step.               *)
Solves(f, a, G, n) == f[0] = a /\ \A i \in 1 .. n : f[i] = G[i][f[i - 1]]

LEMMA StepsExist ==
    ASSUME NEW N \in Nat, NEW S, NEW a \in S, NEW G \in [1 .. N -> [S -> S]]
    PROVE  \E f \in [0 .. N -> S] : Solves(f, a, G, N)
<1> DEFINE Can(n) == n <= N => \E f \in [0 .. n -> S] : Solves(f, a, G, n)
           P == {n \in Nat : Can(n)}
<1>1. Can(0)
  <2> DEFINE f == [i \in 0 .. 0 |-> a]
  <2>1. f \in [0 .. 0 -> S] /\ Solves(f, a, G, 0)
    BY DEF Solves
  <2> QED
    BY <2>1
<1>2. ASSUME NEW n \in Nat, Can(n) PROVE Can(n + 1)
  <2> SUFFICES ASSUME n + 1 <= N PROVE \E f \in [0 .. n + 1 -> S] : Solves(f, a, G, n + 1)
    OBVIOUS
  <2>1. PICK g \in [0 .. n -> S] : Solves(g, a, G, n)
    BY <1>2
  <2> DEFINE f == [i \in 0 .. n + 1 |-> IF i = n + 1 THEN G[n + 1][g[n]] ELSE g[i]]
  <2>2. n + 1 \in 1 .. N /\ g[n] \in S
    OBVIOUS
  <2>3. G[n + 1][g[n]] \in S
    BY <2>2
  <2>4. f \in [0 .. n + 1 -> S]
    BY <2>3
  <2>5. f[0] = a
    BY <2>1 DEF Solves
  <2>6. ASSUME NEW i \in 1 .. n + 1 PROVE f[i] = G[i][f[i - 1]]
    <3>1. i - 1 \in 0 .. n /\ f[i - 1] = g[i - 1]
      OBVIOUS
    <3>2. CASE i = n + 1
      BY <3>1, <3>2
    <3>3. CASE i # n + 1
      <4>1. i \in 1 .. n /\ f[i] = g[i]
        BY <3>3
      <4> QED
        BY <2>1, <3>1, <4>1 DEF Solves
    <3> QED
      BY <3>2, <3>3
  <2> HIDE DEF f
  <2> QED
    BY <2>4, <2>5, <2>6 DEF Solves
<1> HIDE DEF Can
<1>3. \A n \in Nat : n \in P
  <2>1. 0 \in P /\ \A n \in P : n + 1 \in P
    BY <1>1, <1>2
  <2>2. P \in SUBSET Nat
    OBVIOUS
  <2> HIDE DEF P
  <2> QED
    BY <2>1, <2>2, Upwards
<1>4. Can(N)
  BY <1>3
<1> QED
  BY <1>4 DEF Can

-----------------------------------------------------------------------------
(* Sums *)

Sums(s, numbers) ==
    /\ s \in [0 .. Len(numbers) -> Nat]
    /\ s[0] = 0
    /\ \A i \in 1 .. Len(numbers) : s[i] = s[i - 1] + numbers[i]

LEMMA Summed ==
    ASSUME NEW numbers \in Seq(Nat)
    PROVE  \E s : Sums(s, numbers) /\ Total(numbers) = s[Len(numbers)]
<1> DEFINE N == Len(numbers)
           Eq(g) == g = [i \in 0 .. N |-> IF i = 0 THEN 0 ELSE g[i - 1] + numbers[i]]
           sum == CHOOSE g : Eq(g)
           G == [i \in 1 .. N |-> [x \in Nat |-> x + numbers[i]]]
<1>0. N \in Nat /\ \A i \in 1 .. N : numbers[i] \in Nat
  OBVIOUS
<1>1. Total(numbers) = sum[N]
  BY DEF Total
<1> HIDE DEF N
<1>2. G \in [1 .. N -> [Nat -> Nat]]
  BY <1>0
<1>3. \A i \in 1 .. N, x \in Nat : G[i][x] = x + numbers[i]
  OBVIOUS
<1> HIDE DEF G
<1>4. PICK f \in [0 .. N -> Nat] : Solves(f, 0, G, N)
  BY <1>0, <1>2, StepsExist
<1>5. \A i \in 1 .. N : i - 1 \in 0 .. N /\ f[i] = f[i - 1] + numbers[i]
  <2> SUFFICES ASSUME NEW i \in 1 .. N PROVE i - 1 \in 0 .. N /\ f[i] = f[i - 1] + numbers[i]
    OBVIOUS
  <2>1. i - 1 \in 0 .. N
    BY <1>0
  <2>2. f[i - 1] \in Nat
    BY <2>1
  <2>3. f[i] = G[i][f[i - 1]]
    BY <1>4 DEF Solves
  <2>4. G[i][f[i - 1]] = f[i - 1] + numbers[i]
    BY <1>3, <2>2
  <2> QED
    BY <2>1, <2>3, <2>4, Zenon
<1>6. Eq(f)
  <2>1. f = [i \in 0 .. N |-> f[i]]
    OBVIOUS
  <2>2. \A i \in 0 .. N : f[i] = IF i = 0 THEN 0 ELSE f[i - 1] + numbers[i]
    <3>1. f[0] = 0
      BY <1>4 DEF Solves
    <3>2. \A i \in 0 .. N : i = 0 \/ (i # 0 /\ i \in 1 .. N)
      BY <1>0
    <3> QED
      BY <1>5, <3>1, <3>2, Zenon
  <2>3. [i \in 0 .. N |-> f[i]] = [i \in 0 .. N |-> IF i = 0 THEN 0 ELSE f[i - 1] + numbers[i]]
    BY <2>2, Zenon
  <2> QED
    BY <2>1, <2>3, Zenon
<1>7. Eq(sum)
  BY <1>6
<1> HIDE DEF sum
<1>8. sum[0] = 0 /\ \A i \in 1 .. N : sum[i] = sum[i - 1] + numbers[i]
  <2>1. \A i \in 0 .. N : sum[i] = IF i = 0 THEN 0 ELSE sum[i - 1] + numbers[i]
    BY <1>7
  <2>2. 0 \in 0 .. N /\ \A i \in 1 .. N : i \in 0 .. N /\ i # 0
    BY <1>0
  <2> QED
    BY <2>1, <2>2
<1>9. \A i \in 0 .. N : sum[i] \in Nat
  <2> DEFINE P == {i \in Nat : i <= N => sum[i] \in Nat}
  <2>1. 0 \in P
    BY <1>8
  <2>2. ASSUME NEW i \in P PROVE i + 1 \in P
    <3> SUFFICES ASSUME i + 1 <= N PROVE sum[i + 1] \in Nat
      OBVIOUS
    <3>1. i + 1 \in 1 .. N /\ (i + 1) - 1 = i /\ sum[i] \in Nat
      BY <1>0
    <3>2. sum[i + 1] = sum[i] + numbers[i + 1]
      BY <1>8, <3>1
    <3> QED
      BY <1>0, <3>1, <3>2
  <2>3. P \in SUBSET Nat
    OBVIOUS
  <2> HIDE DEF P
  <2>4. \A i \in Nat : i \in P
    BY <2>1, <2>2, <2>3, Upwards
  <2> QED
    BY <2>4 DEF P
<1>10. sum = [i \in 0 .. N |-> sum[i]]
  BY <1>7
<1>11. sum \in [0 .. N -> Nat]
  BY <1>9, <1>10
<1> QED
  BY <1>1, <1>8, <1>11 DEF Sums, N

LEMMA TotalType == ASSUME NEW numbers \in Seq(Nat) PROVE Total(numbers) \in Nat
<1>1. PICK s : Sums(s, numbers) /\ Total(numbers) = s[Len(numbers)]
  BY Summed
<1> QED
  BY <1>1 DEF Sums

(* More in every place, more in all.                                        *)
LEMMA SumsOrdered ==
    ASSUME NEW x \in Nat, NEW y \in Nat, NEW u \in Nat, NEW v \in Nat, x <= y, u <= v
    PROVE  x + u <= y + v
OBVIOUS

LEMMA TotalMonotone ==
    ASSUME NEW a \in Seq(Nat), NEW b \in Seq(Nat), Len(a) = Len(b), \A i \in 1 .. Len(a) : a[i] <= b[i]
    PROVE  Total(a) <= Total(b)
<1>1. PICK s : Sums(s, a) /\ Total(a) = s[Len(a)]
  BY Summed
<1>2. PICK t : Sums(t, b) /\ Total(b) = t[Len(b)]
  BY Summed
<1> DEFINE N == Len(a)
           P == {i \in Nat : i <= N => s[i] <= t[i]}
<1>3. N \in Nat /\ \A i \in 1 .. N : a[i] \in Nat /\ b[i] \in Nat /\ a[i] <= b[i]
  OBVIOUS
<1>4. /\ s[0] = 0 /\ t[0] = 0 /\ \A i \in 0 .. N : s[i] \in Nat /\ t[i] \in Nat
      /\ \A i \in 1 .. N : s[i] = s[i - 1] + a[i] /\ t[i] = t[i - 1] + b[i]
  BY <1>1, <1>2 DEF Sums
<1> HIDE DEF N
<1>5. 0 \in P
  BY <1>4
<1>6. ASSUME NEW i \in P PROVE i + 1 \in P
  <2> SUFFICES ASSUME i + 1 <= N PROVE s[i + 1] <= t[i + 1]
    OBVIOUS
  <2>1. i + 1 \in 1 .. N /\ (i + 1) - 1 = i /\ i \in 0 .. N /\ s[i] <= t[i]
    BY <1>3
  <2>2. s[i + 1] = s[i] + a[i + 1] /\ t[i + 1] = t[i] + b[i + 1]
    BY <1>4, <2>1
  <2>3. s[i] \in Nat /\ t[i] \in Nat /\ a[i + 1] \in Nat /\ b[i + 1] \in Nat /\ a[i + 1] <= b[i + 1]
    BY <1>3, <1>4, <2>1
  <2>4. s[i] + a[i + 1] <= t[i] + b[i + 1]
    BY <2>1, <2>3, SumsOrdered
  <2> QED
    BY <2>2, <2>4
<1>7. P \in SUBSET Nat
  OBVIOUS
<1> HIDE DEF P
<1>8. \A i \in Nat : i \in P
  BY <1>5, <1>6, <1>7, Upwards
<1>9. s[N] <= t[N]
  BY <1>3, <1>8 DEF P
<1> QED
  BY <1>1, <1>2, <1>9 DEF N

(* Four numbers, added two by two.                                         *)
LEMMA FourSummands ==
    ASSUME NEW x \in Nat, NEW y \in Nat, NEW d \in Nat, NEW e \in Nat
    PROVE  (x + y) + (d + e) = (x + d) + (y + e)
OBVIOUS

(* The total of sums is the sum of the totals.                              *)
LEMMA TotalAdds ==
    ASSUME NEW a \in Seq(Nat), NEW b \in Seq(Nat), NEW c \in Seq(Nat), Len(a) = Len(c), Len(b) = Len(c),
           \A i \in 1 .. Len(c) : c[i] = a[i] + b[i]
    PROVE  Total(c) = Total(a) + Total(b)
<1>1. PICK s : Sums(s, a) /\ Total(a) = s[Len(a)]
  BY Summed
<1>2. PICK t : Sums(t, b) /\ Total(b) = t[Len(b)]
  BY Summed
<1>3. PICK u : Sums(u, c) /\ Total(c) = u[Len(c)]
  BY Summed
<1> DEFINE N == Len(c)
           P == {i \in Nat : i <= N => u[i] = s[i] + t[i]}
<1>4. N \in Nat /\ \A i \in 1 .. N : a[i] \in Nat /\ b[i] \in Nat /\ c[i] = a[i] + b[i]
  OBVIOUS
<1>5. /\ s[0] = 0 /\ t[0] = 0 /\ u[0] = 0 /\ \A i \in 0 .. N : s[i] \in Nat /\ t[i] \in Nat /\ u[i] \in Nat
      /\ \A i \in 1 .. N : s[i] = s[i - 1] + a[i] /\ t[i] = t[i - 1] + b[i] /\ u[i] = u[i - 1] + c[i]
  BY <1>1, <1>2, <1>3 DEF Sums
<1> HIDE DEF N
<1>6. 0 \in P
  BY <1>5
<1>7. ASSUME NEW i \in P PROVE i + 1 \in P
  <2> SUFFICES ASSUME i + 1 <= N PROVE u[i + 1] = s[i + 1] + t[i + 1]
    OBVIOUS
  <2>1. i + 1 \in 1 .. N /\ (i + 1) - 1 = i /\ i \in 0 .. N /\ u[i] = s[i] + t[i]
    BY <1>4
  <2>2. u[i + 1] = u[i] + c[i + 1] /\ s[i + 1] = s[i] + a[i + 1] /\ t[i + 1] = t[i] + b[i + 1]
    BY <1>5, <2>1
  <2>3. s[i] \in Nat /\ t[i] \in Nat /\ a[i + 1] \in Nat /\ b[i + 1] \in Nat
    BY <1>4, <1>5, <2>1
  <2>4. c[i + 1] = a[i + 1] + b[i + 1]
    BY <1>4, <2>1
  <2>5. PICK x \in Nat, y \in Nat, d \in Nat, e \in Nat : x = s[i] /\ y = t[i] /\ d = a[i + 1] /\ e = b[i + 1]
    BY <2>3
  <2>6. s[i + 1] = x + d /\ t[i + 1] = y + e /\ u[i + 1] = (x + y) + (d + e)
    BY <2>1, <2>2, <2>4, <2>5, Zenon
  <2>7. x \in Nat /\ y \in Nat /\ d \in Nat /\ e \in Nat
    BY <2>5, Zenon
  <2>8. (x + y) + (d + e) = (x + d) + (y + e)
    BY <2>7, FourSummands
  <2> QED
    BY <2>6, <2>8, Zenon
<1>8. P \in SUBSET Nat
  OBVIOUS
<1> HIDE DEF P
<1>9. \A i \in Nat : i \in P
  BY <1>6, <1>7, <1>8, Upwards
<1>10. u[N] = s[N] + t[N]
  BY <1>4, <1>9 DEF P
<1> QED
  BY <1>1, <1>2, <1>3, <1>10 DEF N

(* No place holds more than all.                                            *)
LEMMA TotalCovers ==
    ASSUME NEW a \in Seq(Nat), NEW k \in 1 .. Len(a)
    PROVE  a[k] <= Total(a)
<1>1. PICK s : Sums(s, a) /\ Total(a) = s[Len(a)]
  BY Summed
<1> DEFINE N == Len(a)
           P == {i \in Nat : i <= N /\ k <= i => a[k] <= s[i]}
<1>3. N \in Nat /\ k \in Nat /\ 1 <= k /\ k <= N /\ \A i \in 1 .. N : a[i] \in Nat
  OBVIOUS
<1>4. /\ \A i \in 0 .. N : s[i] \in Nat
      /\ \A i \in 1 .. N : s[i] = s[i - 1] + a[i]
  BY <1>1 DEF Sums
<1> HIDE DEF N
<1>5. 0 \in P
  BY <1>3
<1>6. ASSUME NEW i \in P PROVE i + 1 \in P
  <2> SUFFICES ASSUME i + 1 <= N, k <= i + 1 PROVE a[k] <= s[i + 1]
    OBVIOUS
  <2>1. i + 1 \in 1 .. N /\ (i + 1) - 1 = i /\ i \in 0 .. N
    BY <1>3
  <2>2. s[i + 1] = s[i] + a[i + 1] /\ s[i] \in Nat /\ a[i + 1] \in Nat
    BY <1>3, <1>4, <2>1
  <2>3. CASE k = i + 1
    BY <2>2, <2>3
  <2>4. CASE k # i + 1
    <3>1. k <= i /\ i <= N
      BY <1>3, <2>4
    <3> QED
      BY <1>3, <2>2, <3>1
  <2> QED
    BY <2>3, <2>4
<1>7. P \in SUBSET Nat
  OBVIOUS
<1> HIDE DEF P
<1>8. \A i \in Nat : i \in P
  BY <1>5, <1>6, <1>7, Upwards
<1>9. a[k] <= s[N]
  BY <1>3, <1>8 DEF P
<1> QED
  BY <1>1, <1>9 DEF N

(* Where all but two places are empty, there is what those two hold.        *)
LEMMA TotalOfTwo ==
    ASSUME NEW a \in Seq(Nat), NEW k \in 1 .. Len(a), NEW m \in 1 .. Len(a), k < m,
           \A i \in 1 .. Len(a) : i # k /\ i # m => a[i] = 0
    PROVE  Total(a) <= a[k] + a[m]
<1>1. PICK s : Sums(s, a) /\ Total(a) = s[Len(a)]
  BY Summed
<1> DEFINE N == Len(a)
           P == {i \in Nat : i <= N => s[i] <= (IF k <= i THEN a[k] ELSE 0) + (IF m <= i THEN a[m] ELSE 0)}
<1>3. /\ N \in Nat /\ k \in Nat /\ m \in Nat /\ 1 <= k /\ k < m /\ m <= N
      /\ \A i \in 1 .. N : a[i] \in Nat /\ (i # k /\ i # m => a[i] = 0)
  OBVIOUS
<1>4. /\ s[0] = 0 /\ \A i \in 0 .. N : s[i] \in Nat
      /\ \A i \in 1 .. N : s[i] = s[i - 1] + a[i]
  BY <1>1 DEF Sums
<1>0. a[k] \in Nat /\ a[m] \in Nat
  BY <1>3
<1> HIDE DEF N
<1>5. 0 \in P
  BY <1>3, <1>4
<1>6. ASSUME NEW i \in P PROVE i + 1 \in P
  <2> SUFFICES ASSUME i + 1 <= N
               PROVE  s[i + 1] <= (IF k <= i + 1 THEN a[k] ELSE 0) + (IF m <= i + 1 THEN a[m] ELSE 0)
    OBVIOUS
  <2>1. i + 1 \in 1 .. N /\ (i + 1) - 1 = i /\ i \in 0 .. N
    BY <1>3
  <2>2. s[i + 1] = s[i] + a[i + 1] /\ s[i] \in Nat /\ a[i + 1] \in Nat
    BY <1>3, <1>4, <2>1
  <2>3. s[i] <= (IF k <= i THEN a[k] ELSE 0) + (IF m <= i THEN a[m] ELSE 0)
    BY <1>3, <2>1
  <2>4. i + 1 # k /\ i + 1 # m => a[i + 1] = 0
    BY <1>3, <2>1
  <2>5. i \in Nat /\ k \in Nat /\ m \in Nat /\ k < m
    BY <1>3
  <2>6. CASE i + 1 < k
    <3>1. a[i + 1] = 0 /\ ~ (k <= i) /\ ~ (m <= i) /\ ~ (k <= i + 1) /\ ~ (m <= i + 1)
      BY <2>4, <2>5, <2>6
    <3> QED
      BY <2>2, <2>3, <3>1
  <2>7. CASE i + 1 = k
    <3>1. ~ (k <= i) /\ ~ (m <= i) /\ k <= i + 1 /\ ~ (m <= i + 1)
      BY <2>5, <2>7
    <3> QED
      BY <1>0, <2>2, <2>3, <2>7, <3>1
  <2>8. CASE k < i + 1 /\ i + 1 < m
    <3>1. a[i + 1] = 0 /\ k <= i /\ ~ (m <= i) /\ k <= i + 1 /\ ~ (m <= i + 1)
      BY <2>4, <2>5, <2>8
    <3> QED
      BY <1>0, <2>2, <2>3, <3>1
  <2>9. CASE i + 1 = m
    <3>1. k <= i /\ ~ (m <= i) /\ k <= i + 1 /\ m <= i + 1
      BY <2>5, <2>9
    <3>2. s[i] <= a[k]
      BY <1>0, <2>3, <3>1
    <3>3. s[i + 1] = s[i] + a[m] /\ s[i] \in Nat
      BY <2>2, <2>9
    <3>4. a[m] <= a[m]
      BY <1>0
    <3>5. s[i + 1] <= a[k] + a[m]
      BY <1>0, <3>2, <3>3, <3>4, SumsOrdered
    <3> QED
      BY <3>1, <3>5
  <2>10. CASE m < i + 1
    <3>1. a[i + 1] = 0 /\ k <= i /\ m <= i /\ k <= i + 1 /\ m <= i + 1
      BY <2>4, <2>5, <2>10
    <3> QED
      BY <1>0, <2>2, <2>3, <3>1
  <2> QED
    BY <2>5, <2>6, <2>7, <2>8, <2>9, <2>10
<1>7. P \in SUBSET Nat
  OBVIOUS
<1> HIDE DEF P
<1>8. \A i \in Nat : i \in P
  BY <1>5, <1>6, <1>7, Upwards
<1>9. s[N] <= a[k] + a[m]
  <2>1. s[N] <= (IF k <= N THEN a[k] ELSE 0) + (IF m <= N THEN a[m] ELSE 0)
    BY <1>3, <1>8 DEF P
  <2> QED
    BY <1>0, <1>3, <2>1
<1> QED
  BY <1>1, <1>9 DEF N

-----------------------------------------------------------------------------
(* Files in order *)

(* The order of files as one of numbers.                                    *)
Weight(f) == 2 * f.size + (IF f.hit THEN 0 ELSE 1)

LEMMA Weighs ==
    ASSUME NEW f \in File, NEW g \in File
    PROVE  /\ Weight(f) \in Nat /\ Weight(g) \in Nat
           /\ Precedes(f, g) <=> Weight(f) < Weight(g)
           /\ Weight(f) = Weight(g) => f = g
<1>1. /\ f.size \in Nat /\ g.size \in Nat /\ f.hit \in BOOLEAN /\ g.hit \in BOOLEAN
      /\ f = [size |-> f.size, hit |-> f.hit] /\ g = [size |-> g.size, hit |-> g.hit]
  BY DEF File, Sizes
<1> HIDE DEF File, Sizes
<1>2. Weight(f) \in Nat /\ Weight(g) \in Nat
  BY <1>1 DEF Weight
<1>3. Precedes(f, g) <=> Weight(f) < Weight(g)
  BY <1>1 DEF Weight, Precedes
<1>4. Weight(f) = Weight(g) => f.size = g.size /\ f.hit = g.hit
  BY <1>1 DEF Weight
<1> QED
  BY <1>1, <1>2, <1>3, <1>4

Pairs(F) == IsFiniteSet(F) /\ \A x \in F : x[2] \in File

Before(F, f) == {x \in F : Precedes(x[2], f)}
UpTo(F, f) == {x \in F : ~ Precedes(f, x[2])}

(* Of some files, one is largest.                                           *)
LEMMA Largest ==
    ASSUME NEW F, Pairs(F), F # {}
    PROVE  \E x \in F : \A y \in F : ~ Precedes(x[2], y[2])
<1> DEFINE after(x) == {y \in F : Precedes(x[2], y[2])}
           A == {after(x) : x \in F}
<1>0. \A x \in F : x[2] \in File
  BY DEF Pairs
<1>1. \A s \in A : IsFiniteSet(s)
  BY FS_Subset DEF Pairs
<1>2. A # {}
  OBVIOUS
<1>3. PICK s \in A : \A r \in A : r \subseteq s => r = s
  <2> HIDE DEF A
  <2> QED
    BY <1>1, <1>2, Smallest
<1>4. PICK x \in F : s = after(x)
  OBVIOUS
<1> SUFFICES ASSUME NEW y \in F, Precedes(x[2], y[2]) PROVE FALSE
  OBVIOUS
<1>5. after(y) \subseteq after(x)
  <2> SUFFICES ASSUME NEW z \in F, Precedes(y[2], z[2]) PROVE Precedes(x[2], z[2])
    OBVIOUS
  <2>1. /\ Weight(x[2]) \in Nat /\ Weight(y[2]) \in Nat /\ Weight(z[2]) \in Nat
        /\ Weight(x[2]) < Weight(y[2]) /\ Weight(y[2]) < Weight(z[2])
    BY <1>0, Weighs
  <2>2. Weight(x[2]) < Weight(z[2])
    BY <2>1
  <2> QED
    BY <1>0, <2>2, Weighs
<1>6. y \in after(x) /\ y \notin after(y)
  BY <1>0, Weighs
<1> QED
  BY <1>3, <1>4, <1>5, <1>6

(* For each place there is a file with few enough before it and enough up   *)
(* to it.                                                                   *)
LEMMA PlaceFilled ==
    ASSUME NEW F, Pairs(F), NEW k \in 1 .. Cardinality(F)
    PROVE  \E x \in F : Cardinality(Before(F, x[2])) < k /\ k <= Cardinality(UpTo(F, x[2]))
<1>0. /\ IsFiniteSet(F) /\ (\A x \in F : x[2] \in File) /\ Cardinality(F) \in Nat
      /\ (\A x \in F : Weight(x[2]) \in Nat)
      /\ (\A x, y \in F : Precedes(x[2], y[2]) <=> Weight(x[2]) < Weight(y[2]))
  BY FS_CardinalityType, Weighs DEF Pairs
<1>1. F # {}
  BY FS_EmptySet
<1> DEFINE A == {UpTo(F, x[2]) : x \in {y \in F : k <= Cardinality(UpTo(F, y[2]))}}
<1>2. \A x \in F : IsFiniteSet(UpTo(F, x[2])) /\ IsFiniteSet(Before(F, x[2]))
                   /\ Cardinality(UpTo(F, x[2])) \in Nat /\ Cardinality(Before(F, x[2])) \in Nat
  <2> SUFFICES ASSUME NEW x \in F
               PROVE  IsFiniteSet(UpTo(F, x[2])) /\ IsFiniteSet(Before(F, x[2]))
                      /\ Cardinality(UpTo(F, x[2])) \in Nat /\ Cardinality(Before(F, x[2])) \in Nat
    OBVIOUS
  <2>1. UpTo(F, x[2]) \in SUBSET F /\ Before(F, x[2]) \in SUBSET F
    BY DEF UpTo, Before
  <2> QED
    BY <1>0, <2>1, FS_Subset, FS_CardinalityType
<1>3. A # {}
  <2>1. PICK x \in F : \A y \in F : ~ Precedes(x[2], y[2])
    BY <1>1, Largest
  <2>2. UpTo(F, x[2]) = F
    BY <2>1 DEF UpTo
  <2>3. k <= Cardinality(UpTo(F, x[2]))
    BY <1>0, <2>2
  <2> QED
    BY <2>3
<1>4. PICK s \in A : \A r \in A : r \subseteq s => r = s
  <2>1. \A s \in A : IsFiniteSet(s)
    BY <1>2
  <2> HIDE DEF A
  <2> QED
    BY <1>3, <2>1, Smallest
<1>5. PICK x \in F : k <= Cardinality(UpTo(F, x[2])) /\ s = UpTo(F, x[2])
  OBVIOUS
<1>6. ASSUME ~ (Cardinality(Before(F, x[2])) < k) PROVE FALSE
  <2> DEFINE B == Before(F, x[2])
  <2>0. IsFiniteSet(B) /\ Cardinality(B) \in Nat
    BY <1>2
  <2>1. IsFiniteSet(B) /\ Cardinality(B) \in Nat /\ k <= Cardinality(B) /\ B \subseteq F
    <3>1. B \subseteq F
      BY DEF Before
    <3> QED
      BY <1>0, <1>6, <2>0, <3>1
  <2>2. B # {}
    <3>1. Cardinality(B) # 0
      BY <1>0, <2>1
    <3> QED
      BY <2>1, <3>1, FS_EmptySet
  <2>3. Pairs(B)
    BY <1>0, <2>1 DEF Pairs
  <2> HIDE DEF B
  <2>4. PICK y \in B : \A z \in B : ~ Precedes(y[2], z[2])
    BY <2>2, <2>3, Largest
  <2>5. y \in F /\ Weight(y[2]) < Weight(x[2])
    BY <1>0, <2>1 DEF B, Before
  <2>6. B \subseteq UpTo(F, y[2])
    BY <2>1, <2>4 DEF UpTo
  <2>7. k <= Cardinality(UpTo(F, y[2]))
    <3>1. Cardinality(B) <= Cardinality(UpTo(F, y[2]))
      BY <1>2, <2>5, <2>6, FS_Subset
    <3> QED
      BY <1>0, <1>2, <2>1, <2>5, <3>1
  <2>8. UpTo(F, y[2]) \in A
    BY <2>5, <2>7
  <2>9. UpTo(F, y[2]) \subseteq UpTo(F, x[2])
    <3> SUFFICES ASSUME NEW z \in F, ~ Precedes(y[2], z[2]) PROVE ~ Precedes(x[2], z[2])
      BY DEF UpTo
    <3>1. Weight(z[2]) \in Nat /\ Weight(y[2]) \in Nat /\ Weight(x[2]) \in Nat /\ ~ (Weight(y[2]) < Weight(z[2]))
      BY <1>0, <2>5
    <3>2. ~ (Weight(x[2]) < Weight(z[2]))
      BY <2>5, <3>1
    <3> QED
      BY <1>0, <3>2
  <2>10. x \in UpTo(F, x[2]) /\ x \notin UpTo(F, y[2])
    <3>1. ~ (Weight(x[2]) < Weight(x[2]))
      BY <1>0
    <3> QED
      BY <1>0, <2>5, <3>1 DEF UpTo
  <2> QED
    BY <1>4, <1>5, <2>8, <2>9, <2>10
<1> QED
  BY <1>5, <1>6

Sorted(files) == \A i, j \in DOMAIN files : i < j => ~ Precedes(files[j], files[i])

(* What is put in order is in order, and nothing else.                      *)
LEMMA PutInOrder ==
    ASSUME NEW F, Pairs(F)
    PROVE  /\ BySize(F) \in Seq(File) /\ Len(BySize(F)) = Cardinality(F) /\ Sorted(BySize(F))
           /\ \A k \in 1 .. Cardinality(F) :
                /\ BySize(F)[k] \in {x[2] : x \in F}
                /\ Cardinality(Before(F, BySize(F)[k])) < k /\ k <= Cardinality(UpTo(F, BySize(F)[k]))
<1> DEFINE N == Cardinality(F)
           S == {x[2] : x \in F}
           Fills(f, k) == Cardinality(Before(F, f)) < k /\ k <= Cardinality(UpTo(F, f))
           s == BySize(F)
<1>0. IsFiniteSet(F) /\ N \in Nat /\ S \subseteq File
  BY FS_CardinalityType DEF Pairs
<1>1. s = [k \in 1 .. N |-> CHOOSE f \in S : Fills(f, k)]
  BY DEF BySize, Before, UpTo
<1>2. \A k \in 1 .. N : \E f \in S : Fills(f, k)
  <2> SUFFICES ASSUME NEW k \in 1 .. N PROVE \E f \in S : Fills(f, k)
    OBVIOUS
  <2>1. PICK x \in F : Cardinality(Before(F, x[2])) < k /\ k <= Cardinality(UpTo(F, x[2]))
    BY PlaceFilled
  <2> QED
    BY <2>1
<1> HIDE DEF Fills, S, N, s
<1>3. \A k \in 1 .. N : s[k] \in S /\ Fills(s[k], k)
  BY <1>1, <1>2
<1>4. s \in Seq(File) /\ Len(s) = N
  <2>1. s \in [1 .. N -> File]
    BY <1>0, <1>1, <1>3
  <2> QED
    BY <1>0, <2>1
<1>5. ASSUME NEW i \in 1 .. N, NEW j \in 1 .. N, i < j, Precedes(s[j], s[i]) PROVE FALSE
  <2>1. s[i] \in File /\ s[j] \in File /\ \A x \in F : x[2] \in File
    BY <1>0, <1>3 DEF Pairs
  <2>2. UpTo(F, s[j]) \subseteq Before(F, s[i])
    <3> SUFFICES ASSUME NEW x \in F, ~ Precedes(s[j], x[2]) PROVE Precedes(x[2], s[i])
      BY DEF UpTo, Before
    <3>1. /\ Weight(s[i]) \in Nat /\ Weight(s[j]) \in Nat /\ Weight(x[2]) \in Nat
          /\ Weight(s[j]) < Weight(s[i]) /\ ~ (Weight(s[j]) < Weight(x[2]))
      BY <1>5, <2>1, Weighs
    <3>2. Weight(x[2]) < Weight(s[i])
      BY <3>1
    <3> QED
      BY <2>1, <3>2, Weighs
  <2>3. IsFiniteSet(Before(F, s[i])) /\ IsFiniteSet(UpTo(F, s[j]))
    BY <1>0, FS_Subset DEF Before, UpTo
  <2>4. Cardinality(UpTo(F, s[j])) <= Cardinality(Before(F, s[i]))
    BY <2>2, <2>3, FS_Subset
  <2>5. Cardinality(UpTo(F, s[j])) \in Nat /\ Cardinality(Before(F, s[i])) \in Nat
    BY <2>3, FS_CardinalityType
  <2>6. Cardinality(Before(F, s[i])) < i /\ j <= Cardinality(UpTo(F, s[j]))
    BY <1>3 DEF Fills
  <2>7. i \in Nat /\ j \in Nat
    BY <1>0
  <2> QED
    BY <1>5, <2>4, <2>5, <2>6, <2>7
<1>6. Sorted(s)
  BY <1>0, <1>4, <1>5 DEF Sorted
<1> QED
  BY <1>3, <1>4, <1>6 DEF s, N, S, Fills

(* Files that are in order stay as they are.                                *)
LEMMA OrderStays ==
    ASSUME NEW files \in Seq(File), Sorted(files), NEW tag, tag = [i \in DOMAIN files |-> tag[i]],
           \A i, j \in DOMAIN files : tag[i] = tag[j] => i = j
    PROVE  BySize({<<tag[i], files[i]>> : i \in DOMAIN files}) = files
<1> DEFINE N == Len(files)
           F == {<<tag[i], files[i]>> : i \in DOMAIN files}
           S == {x[2] : x \in F}
           Fills(f, k) == Cardinality(Before(F, f)) < k /\ k <= Cardinality(UpTo(F, f))
           pair == [i \in 1 .. N |-> <<tag[i], files[i]>>]
<1>0. /\ N \in Nat /\ DOMAIN files = 1 .. N /\ (\A i \in 1 .. N : files[i] \in File)
      /\ files = [i \in 1 .. N |-> files[i]]
  OBVIOUS
<1>1. F = {pair[i] : i \in 1 .. N} /\ \A i \in 1 .. N : pair[i][1] = tag[i] /\ pair[i][2] = files[i]
  BY <1>0
<1>11. \A i, j \in 1 .. N : pair[i] = pair[j] => i = j
  BY <1>0, <1>1
<1>2. pair \in Bijection(1 .. N, F)
  <2>1. pair = [i \in 1 .. N |-> pair[i]]
    OBVIOUS
  <2> HIDE DEF F, pair
  <2>3. pair \in [1 .. N -> F] /\ \A x \in F : \E i \in 1 .. N : pair[i] = x
    BY <1>1, <2>1
  <2>4. pair \in Injection(1 .. N, F)
    BY <1>11, <2>3, Fun_IsInj
  <2>5. pair \in Surjection(1 .. N, F)
    BY <2>3 DEF Surjection
  <2> QED
    BY <2>4, <2>5 DEF Bijection
<1>3. IsFiniteSet(F) /\ Cardinality(F) = N
  <2>1. IsFiniteSet(1 .. N) /\ Cardinality(1 .. N) = N
    BY <1>0, Counted
  <2>2. ExistsBijection(1 .. N, F)
    BY <1>2 DEF ExistsBijection
  <2> QED
    BY <2>1, <2>2, FS_Bijection
<1>4. S = {files[i] : i \in 1 .. N}
  <2> HIDE DEF F, pair, N
  <2>2. \A x \in F : \E i \in 1 .. N : x = pair[i] /\ x[2] = files[i]
    BY <1>1
  <2>3. \A i \in 1 .. N : pair[i] \in F /\ pair[i][2] = files[i]
    BY <1>1
  <2>1. \A f : f \in S <=> \E i \in 1 .. N : f = files[i]
    BY <2>2, <2>3
  <2> HIDE DEF S
  <2>4. \A f : f \in S <=> f \in {files[i] : i \in 1 .. N}
    BY <2>1, Zenon
  <2> QED
    BY <2>4, Zenon
<1>5. \A f : Before(F, f) = {pair[i] : i \in {n \in 1 .. N : Precedes(files[n], f)}}
             /\ UpTo(F, f) = {pair[i] : i \in {n \in 1 .. N : ~ Precedes(f, files[n])}}
  <2> SUFFICES ASSUME NEW f
               PROVE  Before(F, f) = {pair[i] : i \in {n \in 1 .. N : Precedes(files[n], f)}}
                      /\ UpTo(F, f) = {pair[i] : i \in {n \in 1 .. N : ~ Precedes(f, files[n])}}
    OBVIOUS
  <2> HIDE DEF F, pair, N
  <2>1. \A x : x \in Before(F, f) <=> \E n \in 1 .. N : Precedes(files[n], f) /\ x = pair[n]
    <3>1. \A x : x \in Before(F, f) <=> \E n \in 1 .. N : x = pair[n] /\ Precedes(pair[n][2], f)
      BY <1>1 DEF Before
    <3>2. \A n \in 1 .. N : pair[n][2] = files[n]
      BY <1>1
    <3> QED
      BY <3>1, <3>2, Zenon
  <2>2. \A x : x \in UpTo(F, f) <=> \E n \in 1 .. N : ~ Precedes(f, files[n]) /\ x = pair[n]
    <3>1. \A x : x \in UpTo(F, f) <=> \E n \in 1 .. N : x = pair[n] /\ ~ Precedes(f, pair[n][2])
      BY <1>1 DEF UpTo
    <3>2. \A n \in 1 .. N : pair[n][2] = files[n]
      BY <1>1
    <3> QED
      BY <3>1, <3>2, Zenon
  <2> QED
    BY <2>1, <2>2
<1>6. BySize(F) = [k \in 1 .. N |-> CHOOSE f \in S : Fills(f, k)]
  BY <1>3 DEF BySize, Before, UpTo
<1> HIDE DEF N, F, S, pair
<1>7. ASSUME NEW A \in SUBSET (1 .. N)
      PROVE  /\ IsFiniteSet({pair[i] : i \in A})
             /\ Cardinality({pair[i] : i \in A}) = Cardinality(A)
             /\ IsFiniteSet(A) /\ Cardinality(A) \in Nat
  <2>1. IsFiniteSet(A) /\ Cardinality(A) \in Nat
    BY <1>0, Counted, FS_Subset, FS_CardinalityType
  <2> DEFINE g == [i \in A |-> pair[i]]
  <2>2. g \in Bijection(A, {pair[i] : i \in A})
    <3>2. \A i, j \in A : g[i] = g[j] => i = j
      BY <1>11
    <3>3. g \in [A -> {pair[i] : i \in A}] /\ \A x \in {pair[i] : i \in A} : \E i \in A : g[i] = x
      OBVIOUS
    <3> DEFINE T == {pair[i] : i \in A}
    <3> HIDE DEF g, T
    <3>4. g \in [A -> T] /\ \A x \in T : \E i \in A : g[i] = x
      BY <3>3 DEF T
    <3>5. g \in Injection(A, T)
      BY <3>2, <3>4, Fun_IsInj
    <3>6. g \in Surjection(A, T)
      BY <3>4 DEF Surjection
    <3>7. g \in Bijection(A, T)
      BY <3>5, <3>6 DEF Bijection
    <3> QED
      BY <3>7 DEF T
  <2>3. ExistsBijection(A, {pair[i] : i \in A})
    BY <2>2 DEF ExistsBijection
  <2> QED
    BY <2>1, <2>3, FS_Bijection
<1>8. ASSUME NEW k \in 1 .. N, NEW i \in 1 .. N PROVE Fills(files[i], k) <=> files[i] = files[k]
  <2> DEFINE lower(n) == {j \in 1 .. N : Precedes(files[j], files[n])}
             upper(n) == {j \in 1 .. N : ~ Precedes(files[n], files[j])}
             w(n) == Weight(files[n])
  <2>0. k \in Nat /\ i \in Nat /\ 1 <= k /\ k <= N
    BY <1>0
  <2>1. \A n, j \in 1 .. N : w(n) \in Nat /\ (Precedes(files[n], files[j]) <=> w(n) < w(j))
                             /\ (w(n) = w(j) => files[n] = files[j])
    BY <1>0, Weighs
  <2>2. \A n, j \in 1 .. N : n < j => w(n) <= w(j)
    <3> SUFFICES ASSUME NEW n \in 1 .. N, NEW j \in 1 .. N, n < j PROVE w(n) <= w(j)
      OBVIOUS
    <3>1. ~ (w(j) < w(n))
      BY <1>0, <2>1 DEF Sorted
    <3> QED
      BY <2>1, <3>1
  <2>3. Fills(files[i], k) <=> Cardinality(lower(i)) < k /\ k <= Cardinality(upper(i))
    <3>1. Cardinality(Before(F, files[i])) = Cardinality(lower(i))
      BY <1>5, <1>7
    <3>2. Cardinality(UpTo(F, files[i])) = Cardinality(upper(i))
      BY <1>5, <1>7
    <3> QED
      BY <3>1, <3>2
  <2> HIDE DEF w, Fills
  <2>4. \A n \in 1 .. N : IsFiniteSet(lower(n)) /\ IsFiniteSet(upper(n))
                          /\ Cardinality(lower(n)) \in Nat /\ Cardinality(upper(n)) \in Nat
    BY <1>7
  <2>10. \A n, j : /\ j \in lower(n) <=> j \in 1 .. N /\ Precedes(files[j], files[n])
                   /\ j \in upper(n) <=> j \in 1 .. N /\ ~ Precedes(files[n], files[j])
    OBVIOUS
  <2> HIDE DEF lower, upper
  <2>5. ASSUME w(i) = w(k) PROVE Fills(files[i], k)
    <3>1. lower(i) \subseteq 1 .. k - 1
      <4> SUFFICES ASSUME NEW j \in 1 .. N, w(j) < w(i) PROVE j \in 1 .. k - 1
        BY <1>0, <2>1, <2>10
      <4>1. ~ (k < j) /\ j # k
        BY <2>0, <2>1, <2>2, <2>5
      <4> QED
        BY <1>0, <2>0, <4>1
    <3>2. Cardinality(lower(i)) <= k - 1
      <4>1. k - 1 \in Nat
        BY <2>0
      <4>2. IsFiniteSet(1 .. k - 1) /\ Cardinality(1 .. k - 1) = k - 1
        BY <4>1, Counted
      <4> QED
        BY <3>1, <4>2, FS_Subset
    <3>3. 1 .. k \subseteq upper(i)
      <4> SUFFICES ASSUME NEW j \in 1 .. k PROVE j \in 1 .. N /\ ~ (w(i) < w(j))
        BY <1>0, <2>1, <2>10
      <4>1. j \in 1 .. N /\ (j < k \/ j = k)
        BY <1>0, <2>0
      <4> QED
        BY <2>1, <2>2, <2>5, <4>1
    <3>4. k <= Cardinality(upper(i))
      <4>1. Cardinality(1 .. k) = k
        BY <2>0, Counted
      <4> QED
        BY <2>4, <3>3, <4>1, FS_Subset
    <3> QED
      BY <2>0, <2>3, <2>4, <3>2, <3>4
  <2>6. ASSUME w(i) < w(k) PROVE ~ Fills(files[i], k)
    <3>1. upper(i) \subseteq 1 .. k - 1
      <4> SUFFICES ASSUME NEW j \in 1 .. N, ~ (w(i) < w(j)) PROVE j \in 1 .. k - 1
        BY <1>0, <2>1, <2>10
      <4>1. ~ (k < j) /\ j # k
        BY <2>0, <2>1, <2>2, <2>6
      <4> QED
        BY <1>0, <2>0, <4>1
    <3>2. Cardinality(upper(i)) <= k - 1
      <4>1. k - 1 \in Nat
        BY <2>0
      <4>2. IsFiniteSet(1 .. k - 1) /\ Cardinality(1 .. k - 1) = k - 1
        BY <4>1, Counted
      <4> QED
        BY <3>1, <4>2, FS_Subset
    <3> QED
      BY <2>0, <2>3, <2>4, <3>2
  <2>7. ASSUME w(k) < w(i) PROVE ~ Fills(files[i], k)
    <3>1. 1 .. k \subseteq lower(i)
      <4> SUFFICES ASSUME NEW j \in 1 .. k PROVE j \in 1 .. N /\ w(j) < w(i)
        BY <1>0, <2>1, <2>10
      <4>1. j \in 1 .. N /\ (j < k \/ j = k)
        BY <1>0, <2>0
      <4> QED
        BY <2>1, <2>2, <2>7, <4>1
    <3>2. k <= Cardinality(lower(i))
      <4>1. Cardinality(1 .. k) = k
        BY <2>0, Counted
      <4> QED
        BY <2>4, <3>1, <4>1, FS_Subset
    <3> QED
      BY <2>0, <2>3, <2>4, <3>2
  <2>8. w(i) = w(k) \/ w(i) < w(k) \/ w(k) < w(i)
    BY <2>1
  <2>9. files[i] = files[k] <=> w(i) = w(k)
    BY <2>1 DEF w
  <2> QED
    BY <2>1, <2>5, <2>6, <2>7, <2>8, <2>9
<1> HIDE DEF Fills
<1>9. \A k \in 1 .. N : (CHOOSE f \in S : Fills(f, k)) = files[k]
  <2> SUFFICES ASSUME NEW k \in 1 .. N PROVE (CHOOSE f \in S : Fills(f, k)) = files[k]
    OBVIOUS
  <2>1. \A f \in S : Fills(f, k) <=> f = files[k]
    BY <1>4, <1>8
  <2>2. files[k] \in S
    BY <1>4
  <2> QED
    BY <2>1, <2>2
<1>10. BySize(F) = [k \in 1 .. N |-> files[k]]
  BY <1>6, <1>9
<1> QED
  BY <1>0, <1>10 DEF F

-----------------------------------------------------------------------------
(* The files of a partition *)

FilesOK == table.files \in [Partitions -> Seq(File)]

LEMMA Thresholds ==
    /\ SmallBelow \in Nat /\ Target \in Nat /\ LargeAbove \in Nat /\ 1 <= SmallBelow /\ 1 <= Target
    /\ SmallBelow <= Target /\ Target < LargeAbove
    /\ MaxInputFiles \in Nat /\ MaxGroupBytes \in Nat /\ MinInputFiles \in Nat
  BY UpkeepAssumption DEF Sizes

LEMMA FilesOf ==
    ASSUME FilesOK, NEW p \in Partitions
    PROVE  /\ table.files[p] \in Seq(File) /\ Len(table.files[p]) \in Nat
           /\ Places(p) = 1 .. Len(table.files[p])
           /\ IsFiniteSet(Places(p))
           /\ \A i \in Places(p) : /\ table.files[p][i] \in File
                                   /\ table.files[p][i].size \in Nat /\ table.files[p][i].size >= 1
                                   /\ table.files[p][i].hit \in BOOLEAN
<1>1. table.files[p] \in Seq(File) /\ Len(table.files[p]) \in Nat
  BY DEF FilesOK
<1>2. Places(p) = 1 .. Len(table.files[p])
  BY <1>1 DEF Places
<1>3. \A i \in Places(p) : table.files[p][i] \in File
  BY <1>1, <1>2
<1>4. \A f \in File : f.size \in Nat /\ f.size >= 1 /\ f.hit \in BOOLEAN
  BY DEF File, Sizes
<1> QED
  BY <1>1, <1>2, <1>3, <1>4, Counted

(* What each place adds to the bytes of some.                               *)
Share(p, places) == [i \in Places(p) |-> IF i \in places THEN table.files[p][i].size ELSE 0]

LEMMA Shares ==
    ASSUME FilesOK, NEW p \in Partitions, NEW places
    PROVE  /\ Share(p, places) \in Seq(Nat)
           /\ Len(Share(p, places)) = Len(table.files[p])
           /\ \A i \in Places(p) : Share(p, places)[i] = IF i \in places THEN table.files[p][i].size ELSE 0
           /\ BytesOf(p, places) = Total(Share(p, places))
<1> DEFINE n == Len(table.files[p])
<1>1. n \in Nat /\ Places(p) = 1 .. n /\ \A i \in Places(p) : table.files[p][i].size \in Nat
  BY FilesOf
<1>2. \A i \in Places(p) : Share(p, places)[i] = IF i \in places THEN table.files[p][i].size ELSE 0
  BY DEF Share
<1>3. Share(p, places) \in [1 .. n -> Nat]
  BY <1>1 DEF Share
<1> HIDE DEF n
<1>4. Share(p, places) \in Seq(Nat) /\ Len(Share(p, places)) = n
  BY <1>1, <1>3
<1> QED
  BY <1>2, <1>4 DEF BytesOf, Share, n

LEMMA BytesType == ASSUME FilesOK, NEW p \in Partitions, NEW places PROVE BytesOf(p, places) \in Nat
  BY Shares, TotalType

LEMMA BytesMonotone ==
    ASSUME FilesOK, NEW p \in Partitions, NEW some, NEW more, \A i \in Places(p) : i \in some => i \in more
    PROVE  BytesOf(p, some) <= BytesOf(p, more)
<1> DEFINE a == Share(p, some)
           b == Share(p, more)
           n == Len(table.files[p])
<1>1. /\ a \in Seq(Nat) /\ b \in Seq(Nat) /\ Len(a) = n /\ Len(b) = n
      /\ BytesOf(p, some) = Total(a) /\ BytesOf(p, more) = Total(b)
  BY Shares
<1>2. \A i \in Places(p) : /\ a[i] = IF i \in some THEN table.files[p][i].size ELSE 0
                           /\ b[i] = IF i \in more THEN table.files[p][i].size ELSE 0
  BY Shares
<1> HIDE DEF a, b, n
<1>3. \A i \in 1 .. n : a[i] <= b[i]
  BY <1>2, FilesOf DEF n
<1> QED
  BY <1>1, <1>3, TotalMonotone

LEMMA BytesApart ==
    ASSUME FilesOK, NEW p \in Partitions, NEW some, NEW others, \A i \in Places(p) : ~ (i \in some /\ i \in others)
    PROVE  BytesOf(p, some \cup others) = BytesOf(p, some) + BytesOf(p, others)
<1> DEFINE a == Share(p, some)
           b == Share(p, others)
           c == Share(p, some \cup others)
           n == Len(table.files[p])
<1>1. /\ a \in Seq(Nat) /\ b \in Seq(Nat) /\ c \in Seq(Nat) /\ Len(a) = n /\ Len(b) = n /\ Len(c) = n
      /\ BytesOf(p, some) = Total(a) /\ BytesOf(p, others) = Total(b) /\ BytesOf(p, some \cup others) = Total(c)
  BY Shares
<1>2. \A i \in Places(p) : /\ a[i] = IF i \in some THEN table.files[p][i].size ELSE 0
                           /\ b[i] = IF i \in others THEN table.files[p][i].size ELSE 0
                           /\ c[i] = IF i \in some \cup others THEN table.files[p][i].size ELSE 0
  BY Shares
<1> HIDE DEF a, b, c, n
<1>3. ASSUME NEW i \in 1 .. n PROVE c[i] = a[i] + b[i]
  <2>1. i \in Places(p) /\ table.files[p][i].size \in Nat
    BY FilesOf DEF n
  <2>2. CASE i \in some
    <3>1. a[i] = table.files[p][i].size /\ b[i] = 0 /\ c[i] = table.files[p][i].size
      BY <1>2, <2>1, <2>2
    <3> QED BY <2>1, <3>1
  <2>3. CASE i \notin some
    <3>1. a[i] = 0 /\ c[i] = b[i] /\ b[i] \in Nat
      BY <1>2, <2>1, <2>3
    <3> QED BY <3>1
  <2> QED BY <2>2, <2>3
<1>4. Len(a) = Len(c) /\ Len(b) = Len(c) /\ \A i \in 1 .. Len(c) : c[i] = a[i] + b[i]
  BY <1>1, <1>3, Zenon
<1>5. Total(c) = Total(a) + Total(b)
  BY <1>1, <1>4, TotalAdds, Zenon
<1> QED
  BY <1>1, <1>5, Zenon

LEMMA BytesCover ==
    ASSUME FilesOK, NEW p \in Partitions, NEW places, NEW i \in Places(p), i \in places
    PROVE  table.files[p][i].size <= BytesOf(p, places)
<1> DEFINE a == Share(p, places)
<1>1. a \in Seq(Nat) /\ Len(a) = Len(table.files[p]) /\ BytesOf(p, places) = Total(a) /\ a[i] = table.files[p][i].size
  BY Shares
<1> HIDE DEF a
<1>2. i \in 1 .. Len(a)
  BY <1>1, FilesOf
<1> QED
  BY <1>1, <1>2, TotalCovers

LEMMA BytesOfTwo ==
    ASSUME FilesOK, NEW p \in Partitions, NEW i \in Places(p), NEW j \in Places(p), i < j
    PROVE  BytesOf(p, {i, j}) <= table.files[p][i].size + table.files[p][j].size
<1> DEFINE a == Share(p, {i, j})
<1>1. /\ a \in Seq(Nat) /\ Len(a) = Len(table.files[p]) /\ BytesOf(p, {i, j}) = Total(a)
      /\ a[i] = table.files[p][i].size /\ a[j] = table.files[p][j].size
      /\ \A k \in Places(p) : k # i /\ k # j => a[k] = 0
  BY Shares
<1> HIDE DEF a
<1>2. i \in 1 .. Len(a) /\ j \in 1 .. Len(a) /\ \A k \in 1 .. Len(a) : k # i /\ k # j => a[k] = 0
  BY <1>1, FilesOf
<1> QED
  BY <1>1, <1>2, TotalOfTwo

-----------------------------------------------------------------------------
(* Chunks *)

LEMMA PackSteps ==
    ASSUME FilesOK, NEW p \in Partitions
    PROVE  /\ Pack(p)[0] = 0
           /\ \A i \in Places(p) : Pack(p)[i] =
                    IF i \in Input(p) /\ (Pack(p)[i - 1] = 0 \/ ~ Fits(p, Pack(p)[i - 1], i)) THEN i ELSE Pack(p)[i - 1]
<1> DEFINE N == Len(table.files[p])
           step(i, open) == IF i \in Input(p) /\ (open = 0 \/ ~ Fits(p, open, i)) THEN i ELSE open
           Eq(g) == g = [i \in 0 .. N |-> IF i = 0 THEN 0 ELSE step(i, g[i - 1])]
           first == CHOOSE g : Eq(g)
           G == [i \in 1 .. N |-> [open \in 0 .. N |-> step(i, open)]]
<1>0. N \in Nat /\ Places(p) = 1 .. N
  BY FilesOf
<1>1. Pack(p) = first
  BY DEF Pack
<1>2. \A i \in 1 .. N, open \in 0 .. N : step(i, open) \in 0 .. N
  BY <1>0
<1> HIDE DEF N, step
<1>3. G \in [1 .. N -> [0 .. N -> 0 .. N]]
  BY <1>2
<1>4. \A i \in 1 .. N, open \in 0 .. N : G[i][open] = step(i, open)
  OBVIOUS
<1> HIDE DEF G
<1>5. PICK f \in [0 .. N -> 0 .. N] : Solves(f, 0, G, N)
  <2>1. 0 \in 0 .. N
    BY <1>0
  <2> QED
    BY <1>0, <1>3, <2>1, StepsExist
<1>6. \A i \in 1 .. N : f[i] = step(i, f[i - 1])
  <2> SUFFICES ASSUME NEW i \in 1 .. N PROVE f[i] = step(i, f[i - 1])
    OBVIOUS
  <2>1. i - 1 \in 0 .. N
    BY <1>0
  <2>2. f[i - 1] \in 0 .. N
    BY <2>1
  <2>3. f[i] = G[i][f[i - 1]]
    BY <1>5 DEF Solves
  <2> QED
    BY <1>4, <2>2, <2>3
<1>7. Eq(f)
  <2>1. f = [i \in 0 .. N |-> f[i]]
    OBVIOUS
  <2>2. \A i \in 0 .. N : f[i] = IF i = 0 THEN 0 ELSE step(i, f[i - 1])
    BY <1>0, <1>5, <1>6 DEF Solves
  <2> QED
    BY <2>1, <2>2
<1>8. Eq(first)
  BY <1>7
<1> HIDE DEF first
<1>9. first[0] = 0 /\ \A i \in 1 .. N : first[i] = step(i, first[i - 1])
  <2>1. \A i \in 0 .. N : first[i] = IF i = 0 THEN 0 ELSE step(i, first[i - 1])
    BY <1>8
  <2>2. 0 \in 0 .. N /\ \A i \in 1 .. N : i \in 0 .. N /\ i # 0
    BY <1>0
  <2> QED
    BY <2>1, <2>2
<1> QED
  BY <1>0, <1>1, <1>9 DEF step

ChunkAt(p, i) == {j \in Input(p) : Pack(p)[j] = Pack(p)[i]}

LEMMA ChunksAre ==
    ASSUME NEW p
    PROVE  Chunks(p) = {c \in {ChunkAt(p, i) : i \in Input(p)} : WorthRewriting(p, c)}
  BY DEF Chunks, ChunkAt

LEMMA InputType == ASSUME NEW p PROVE Input(p) \subseteq Places(p)
  BY DEF Input

(* A file that deletes apply to, or that is oversized, is worth its chunk.  *)
LEMMA WorthAlone ==
    ASSUME NEW p, NEW i \in Places(p), table.files[p][i].hit \/ IsLarge(table.files[p][i])
    PROVE  Chunks(p) # {}
<1>1. i \in Input(p)
  BY DEF Input, Rewritable, Misfit
<1>2. i \in ChunkAt(p, i)
  BY <1>1 DEF ChunkAt
<1>3. WorthRewriting(p, ChunkAt(p, i))
  BY <1>2 DEF WorthRewriting
<1> QED
  BY <1>1, <1>3, ChunksAre

LEMMA Pair ==
    ASSUME NEW x, NEW y, x # y
    PROVE  IsFiniteSet({x, y}) /\ Cardinality({x, y}) = 2
<1> DEFINE S == {x}
<1>1. IsFiniteSet(S) /\ Cardinality(S) = 1 /\ y \notin S
  BY FS_Singleton
<1>2. S \cup {y} = {x, y}
  OBVIOUS
<1> HIDE DEF S
<1>3. IsFiniteSet(S \cup {y}) /\ Cardinality(S \cup {y}) = IF y \in S THEN Cardinality(S) ELSE Cardinality(S) + 1
  BY <1>1, FS_AddElement, Zenon
<1> QED
  BY <1>1, <1>2, <1>3

LEMMA CardinalityOfTwo ==
    ASSUME NEW S, IsFiniteSet(S), NEW x \in S, NEW y \in S, x # y
    PROVE  Cardinality(S) \in Nat /\ Cardinality(S) >= 2
<1>1. Cardinality({x, y}) = 2
  BY Pair
<1>2. {x, y} \subseteq S
  OBVIOUS
<1>3. Cardinality({x, y}) <= Cardinality(S) /\ Cardinality(S) \in Nat
  BY <1>2, FS_Subset, FS_CardinalityType
<1> QED
  BY <1>1, <1>3

(* The first two files of the input are merged if they are small.           *)
LEMMA FirstTwo ==
    ASSUME RoomForTwo, FilesOK, NEW p \in Partitions, NEW i \in Input(p), NEW j \in Input(p), i < j,
           \A k \in Input(p) : k = i \/ j <= k,
           IsSmall(table.files[p][i]), IsSmall(table.files[p][j])
    PROVE  Pack(p)[j] = Pack(p)[i]
<1> DEFINE N == Len(table.files[p])
           f == Pack(p)
           P == {k \in Nat : k < j => f[k] = IF k < i THEN 0 ELSE i}
<1>0. N \in Nat /\ Places(p) = 1 .. N /\ i \in 1 .. N /\ j \in 1 .. N
  BY FilesOf, InputType
<1>1. f[0] = 0 /\ \A k \in 1 .. N : f[k] =
            IF k \in Input(p) /\ (f[k - 1] = 0 \/ ~ Fits(p, f[k - 1], k)) THEN k ELSE f[k - 1]
  BY <1>0, PackSteps
<1> HIDE DEF f, N
<1>2. 0 \in P
  BY <1>0, <1>1
<1>3. ASSUME NEW k \in P PROVE k + 1 \in P
  <2> SUFFICES ASSUME k + 1 < j PROVE f[k + 1] = IF k + 1 < i THEN 0 ELSE i
    OBVIOUS
  <2>1. k + 1 \in 1 .. N /\ (k + 1) - 1 = k /\ k < j
    BY <1>0
  <2>2. f[k] = IF k < i THEN 0 ELSE i
    BY <2>1
  <2>3. f[k + 1] = IF k + 1 \in Input(p) /\ (f[k] = 0 \/ ~ Fits(p, f[k], k + 1)) THEN k + 1 ELSE f[k]
    BY <1>1, <2>1
  <2>4. CASE k + 1 = i
    BY <1>0, <2>2, <2>3, <2>4
  <2>5. CASE k + 1 # i
    <3>1. k + 1 \notin Input(p)
      BY <1>0, <2>5
    <3> QED
      BY <1>0, <2>2, <2>3, <2>5, <3>1
  <2> QED
    BY <2>4, <2>5
<1>4. P \in SUBSET Nat
  OBVIOUS
<1> HIDE DEF P
<1>5. \A k \in Nat : k \in P
  BY <1>2, <1>3, <1>4, Upwards
<1>6. f[i] = i /\ f[j - 1] = i
  BY <1>0, <1>5 DEF P
<1>7. Fits(p, i, j)
  <2>1. Input(p) \cap (i .. j) = {i, j}
    BY <1>0
  <2>2. Cardinality({i, j}) = 2
    <3>1. i # j
      BY <1>0
    <3> QED
      BY <3>1, Pair
  <2>3. BytesOf(p, {i, j}) <= table.files[p][i].size + table.files[p][j].size
    BY <1>0, BytesOfTwo
  <2>4. /\ table.files[p][i].size \in Nat /\ table.files[p][j].size \in Nat
        /\ table.files[p][i].size < SmallBelow /\ table.files[p][j].size < SmallBelow
    BY <1>0, FilesOf DEF IsSmall
  <2>5. BytesOf(p, {i, j}) <= MaxGroupBytes /\ 2 <= MaxInputFiles
    BY <2>3, <2>4, BytesType, Thresholds DEF RoomForTwo
  <2> QED
    BY <2>1, <2>2, <2>5 DEF Fits
<1>8. f[j] = i
  <2>1. i # 0
    BY <1>0
  <2> QED
    BY <1>0, <1>1, <1>6, <1>7, <2>1
<1> QED
  BY <1>6, <1>8 DEF f

(* Where two files or more may be read, and all are small, two are merged.  *)
LEMMA WorthTogether ==
    ASSUME RoomForTwo, FilesOK, NEW p \in Partitions, \A i \in Input(p) : IsSmall(table.files[p][i]),
           NEW x \in Input(p), NEW y \in Input(p), x # y
    PROVE  Chunks(p) # {}
<1>0. Input(p) \in SUBSET Nat /\ IsFiniteSet(Input(p))
  BY FilesOf, InputType, FS_Subset
<1>1. PICK i \in Input(p) : \A k \in Input(p) : i <= k
  BY <1>0, Least
<1>2. Input(p) \ {i} # {} /\ Input(p) \ {i} \in SUBSET Nat
  BY <1>0
<1>3. PICK j \in Input(p) \ {i} : \A k \in Input(p) \ {i} : j <= k
  BY <1>2, Least
<1>4. i < j /\ \A k \in Input(p) : k = i \/ j <= k
  BY <1>0, <1>1, <1>3
<1>5. Pack(p)[j] = Pack(p)[i]
  BY <1>4, FirstTwo
<1>6. i \in ChunkAt(p, i) /\ j \in ChunkAt(p, i) /\ i # j
  BY <1>3, <1>5 DEF ChunkAt
<1>7. IsFiniteSet(ChunkAt(p, i))
  BY <1>0, FS_Subset DEF ChunkAt
<1>8. Cardinality(ChunkAt(p, i)) > 1
  BY <1>6, <1>7, CardinalityOfTwo
<1> QED
  BY <1>8, ChunksAre DEF WorthRewriting

-----------------------------------------------------------------------------
(* What is planned is worth a run *)

LEMMA Division ==
    ASSUME NEW a \in Nat, NEW b \in Nat, 1 <= b
    PROVE  /\ a \div b \in Nat /\ a % b \in Nat /\ a % b < b
           /\ a = b * (a \div b) + (a % b)
  OBVIOUS

LEMMA AtLeastOne ==
    ASSUME NEW a \in Nat, NEW b \in Nat, 1 <= b, b <= a
    PROVE  a \div b >= 1
<1>1. a \div b \in Nat /\ a % b \in Nat /\ a % b < b /\ a = b * (a \div b) + (a % b)
  BY Division
<1>2. a \div b # 0
  <2> SUFFICES ASSUME a \div b = 0 PROVE FALSE
    OBVIOUS
  <2>1. b * 0 = 0
    OBVIOUS
  <2> QED
    BY <1>1, <2>1
<1> QED
  BY <1>1, <1>2

(* Something is left of anything that is rewritten.                         *)
LEMMA SomethingLeft ==
    ASSUME FilesOK, NEW p \in Partitions, Named(p) \in Nat, NEW eligible, BytesOf(p, eligible) # 0
    PROVE  OutputFileEstimate(p, eligible) \in Nat /\ OutputFileEstimate(p, eligible) >= 1
<1> DEFINE bytes == BytesOf(p, eligible)
           records == Records(p)
           named == IF Named(p) > records THEN records ELSE Named(p)
           live == (bytes * (records - named)) \div records
           files == (live + Target - 1) \div Target
<1>1. bytes \in Nat /\ records \in Nat /\ bytes <= records
  BY BytesType, BytesMonotone DEF Records
<1>2. OutputFileEstimate(p, eligible) = IF bytes = 0 THEN 0 ELSE IF live = 0 THEN 1 ELSE files
  BY DEF OutputFileEstimate
<1> HIDE DEF bytes, records
<1>3. bytes # 0 /\ 1 <= records
  BY <1>1 DEF bytes
<1>4. named \in Nat /\ named <= records
  BY <1>1
<1> HIDE DEF named
<1>5. records - named \in Nat
  BY <1>1, <1>4
<1>6. bytes * (records - named) \in Nat
  BY <1>1, <1>5
<1>7. live \in Nat
  BY <1>1, <1>3, <1>6, Division
<1> HIDE DEF live
<1>8. CASE live = 0
  BY <1>2, <1>3, <1>8
<1>9. CASE live # 0
  <2>1. live + Target - 1 \in Nat /\ Target <= live + Target - 1 /\ Target \in Nat /\ 1 <= Target
    BY <1>7, <1>9, Thresholds
  <2>2. files \in Nat /\ files >= 1
    BY <2>1, Division, AtLeastOne
  <2> QED
    BY <1>2, <1>3, <1>9, <2>2
<1> QED
  BY <1>8, <1>9

LEMMA Promised ==
    ASSUME RoomForTwo, FilesOK, NEW p \in Partitions, Named(p) \in Nat, Triggered(p)
    PROVE  \/ Chunks(p) # {}
           \/ ByDeletes(p) /\ ~ StillHits({})
           \/ Lingers(p)
<1> SUFFICES ASSUME Chunks(p) = {} PROVE (ByDeletes(p) /\ ~ StillHits({})) \/ Lingers(p)
  OBVIOUS
<1>1. ~ \E i \in Places(p) : table.files[p][i].hit \/ IsLarge(table.files[p][i])
  BY WorthAlone
<1>2. CASE ByDeletes(p)
  BY <1>1, <1>2 DEF Lingers
<1>3. CASE ByOversized(p)
  BY <1>1, <1>3 DEF ByOversized
<1>4. CASE BySmallFiles(p) /\ LeavesFewer(p)
  <2> DEFINE E == SizeEligible(p)
  <2>1. E = Input(p) /\ \A i \in Input(p) : IsSmall(table.files[p][i])
    BY <1>1 DEF SizeEligible, Input, Rewritable, Misfit
  <2>2. IsFiniteSet(E) /\ E \subseteq Places(p)
    BY FilesOf, FS_Subset DEF SizeEligible
  <2>3. Cardinality(E) \in Nat
    BY <2>2, FS_CardinalityType
  <2>4. OutputFileEstimate(p, E) < Cardinality(E)
    BY <1>4 DEF LeavesFewer
  <2> HIDE DEF E
  <2>5. E # {}
    <3> SUFFICES ASSUME E = {} PROVE FALSE
      OBVIOUS
    <3>1. Cardinality(E) = 0
      BY FS_EmptySet
    <3>2. BytesOf(p, E) = 0 => OutputFileEstimate(p, E) = 0
      BY DEF OutputFileEstimate
    <3>3. BytesOf(p, E) # 0 => OutputFileEstimate(p, E) \in Nat /\ OutputFileEstimate(p, E) >= 1
      BY SomethingLeft
    <3> QED
      BY <2>4, <3>1, <3>2, <3>3
  <2>6. PICK x \in E : TRUE
    BY <2>5
  <2>7. BytesOf(p, E) # 0
    <3>1. x \in Places(p) /\ table.files[p][x].size <= BytesOf(p, E)
      BY <2>2, BytesCover
    <3>2. table.files[p][x].size \in Nat /\ table.files[p][x].size >= 1
      BY <3>1, FilesOf
    <3> QED
      BY <3>1, <3>2, BytesType
  <2>8. OutputFileEstimate(p, E) \in Nat /\ OutputFileEstimate(p, E) >= 1
    BY <2>7, SomethingLeft
  <2>9. Cardinality(E) # 1
    BY <2>3, <2>4, <2>8
  <2>10. PICK y \in E : y # x
    <3>1. E # {x}
      BY <2>9, FS_Singleton
    <3> QED
      BY <2>6, <3>1
  <2> QED
    BY <2>1, <2>6, <2>10, WorthTogether
<1> QED
  BY <1>2, <1>3, <1>4 DEF Triggered

-----------------------------------------------------------------------------
(* A run reads no more than was charged *)

LEMMA GroupsAre ==
    ASSUME NEW keys, NEW g
    PROVE  g \in Groups(keys) <=>
                \E p \in keys : p.spec = table.spec /\ \E c \in Chunks(p) : g = <<p, c>>
  BY DEF Groups

(* A file is read for one group at most, and not without cause.             *)
LEMMA ReadOnce ==
    ASSUME NEW keys, NEW p, NEW i
    PROVE  LET readers == {g \in Groups(keys) : g[1] = p /\ i \in g[2]}
           IN  /\ Cardinality(readers) = 0 \/ Cardinality(readers) = 1
               /\ i \notin Input(p) => Cardinality(readers) = 0
<1> DEFINE readers == {g \in Groups(keys) : g[1] = p /\ i \in g[2]}
<1>1. ASSUME NEW g \in readers PROVE i \in Input(p) /\ g = <<p, ChunkAt(p, i)>>
  <2>1. PICK q \in keys : \E c \in Chunks(q) : g = <<q, c>>
    BY GroupsAre
  <2>2. PICK c \in Chunks(q) : g = <<q, c>>
    BY <2>1
  <2>3. q = p /\ i \in c
    BY <2>2
  <2>4. PICK j \in Input(p) : c = ChunkAt(p, j)
    BY <2>2, <2>3, ChunksAre
  <2>5. i \in Input(p) /\ Pack(p)[i] = Pack(p)[j]
    BY <2>3, <2>4 DEF ChunkAt
  <2>6. ChunkAt(p, i) = ChunkAt(p, j)
    BY <2>5 DEF ChunkAt
  <2> QED
    BY <2>2, <2>3, <2>4, <2>5, <2>6
<1> HIDE DEF readers
<1>2. readers = {} \/ readers = {<<p, ChunkAt(p, i)>>}
  BY <1>1
<1>3. i \notin Input(p) => readers = {}
  BY <1>1
<1>4. Cardinality({}) = 0 /\ Cardinality({<<p, ChunkAt(p, i)>>}) = 1
  BY FS_EmptySet, FS_Singleton
<1> QED
  BY <1>2, <1>3, <1>4 DEF readers

LEMMA WithinCharge ==
    ASSUME FilesOK, NEW p \in Partitions, NEW keys
    PROVE  BytesRead(p, Groups(keys)) <= Charge(p) + Uncounted(p)
<1> DEFINE n == Len(table.files[p])
           more == {i \in Places(p) \ Eligible(p) : table.files[p][i].hit}
           readers(i) == {g \in Groups(keys) : g[1] = p /\ i \in g[2]}
           a == [i \in Places(p) |-> table.files[p][i].size * Cardinality(readers(i))]
           b == Share(p, Eligible(p) \cup more)
<1>1. n \in Nat /\ Places(p) = 1 .. n
  BY FilesOf
<1>2. /\ b \in Seq(Nat) /\ Len(b) = n /\ Charge(p) + Uncounted(p) = Total(b)
      /\ \A i \in Places(p) : b[i] = IF i \in Eligible(p) \cup more THEN table.files[p][i].size ELSE 0
  <2>1. BytesOf(p, Eligible(p) \cup more) = BytesOf(p, Eligible(p)) + BytesOf(p, more)
    BY BytesApart
  <2> QED
    BY <2>1, Shares DEF Charge, Uncounted, HitBytes
<1>3. BytesRead(p, Groups(keys)) = Total(a)
  BY DEF BytesRead
<1>4. \A i \in Places(p) : /\ Cardinality(readers(i)) = 0 \/ Cardinality(readers(i)) = 1
                           /\ i \notin Input(p) => Cardinality(readers(i)) = 0
  BY ReadOnce
<1>5. Input(p) \subseteq Eligible(p) \cup more
  <2> SUFFICES ASSUME NEW i \in Input(p), i \notin Eligible(p) PROVE table.files[p][i].hit
    BY DEF Input
  <2>1. i \in Places(p) /\ Rewritable(table.files[p][i])
    BY DEF Input
  <2> QED
    BY <2>1 DEF Eligible, SizeEligible, Rewritable
<1> HIDE DEF n, b, readers, more
<1>6. \A i \in 1 .. n : a[i] \in Nat /\ a[i] <= b[i]
  <2> SUFFICES ASSUME NEW i \in 1 .. n PROVE a[i] \in Nat /\ a[i] <= b[i]
    OBVIOUS
  <2>1. a[i] = table.files[p][i].size * Cardinality(readers(i)) /\ table.files[p][i].size \in Nat
    BY <1>1, FilesOf
  <2>2. CASE Cardinality(readers(i)) = 0
    <3>1. b[i] \in Nat
      BY <1>1, <1>2, <2>1
    <3>2. a[i] = 0
      BY <2>1, <2>2
    <3> QED
      BY <3>1, <3>2
  <2>3. CASE Cardinality(readers(i)) = 1
    <3>1. i \in Eligible(p) \cup more
      BY <1>1, <1>4, <1>5, <2>3
    <3>2. b[i] = table.files[p][i].size
      BY <1>1, <1>2, <3>1
    <3>3. a[i] = table.files[p][i].size
      BY <2>1, <2>3
    <3> QED
      BY <2>1, <3>2, <3>3
  <2> QED
    BY <1>1, <1>4, <2>2, <2>3
<1>7. a \in Seq(Nat) /\ Len(a) = n
  <2>1. a \in [1 .. n -> Nat]
    BY <1>1, <1>6
  <2> HIDE DEF a
  <2> QED
    BY <1>1, <2>1
<1> HIDE DEF a
<1> QED
  BY <1>2, <1>3, <1>6, <1>7, TotalMonotone

-----------------------------------------------------------------------------
(* Types *)

Delete == [key : Partitions, named : Sizes]

Tables ==
    [spec : Specs, format : {"parquet", "orc"}, delete : Delete \cup {NoDelete},
     files : [Partitions -> Seq(File)]]

Plans ==
    UNION {[targets : {T}, charged : [T -> Nat], fresh : BOOLEAN] : T \in SUBSET Partitions}

TypeOK ==
    /\ table \in Tables
    /\ hot \in SUBSET Partitions
    /\ plan \in Plans \cup {NoPlan}
    /\ counts \in [writes : Nat, failures : Nat]

LEMMA DeleteType ==
    ASSUME TypeOK
    PROVE  /\ FilesOK /\ table.delete \in Delete \cup {NoDelete}
           /\ table.delete # NoDelete => table.delete.key \in Partitions /\ table.delete.named \in Nat
           /\ \A p : Named(p) \in Nat
<1>1. FilesOK /\ table.delete \in Delete \cup {NoDelete}
  BY DEF TypeOK, Tables, FilesOK
<1>2. table.delete # NoDelete => table.delete.key \in Partitions /\ table.delete.named \in Nat
  BY <1>1 DEF Delete, Sizes
<1> QED
  BY <1>1, <1>2 DEF Named

-----------------------------------------------------------------------------
(* What a rewrite leaves *)

LEMMA Times == ASSUME NEW a \in Nat, NEW b \in Nat, NEW c \in Nat, a <= b PROVE a * c <= b * c /\ a * c \in Nat
  OBVIOUS

LEMMA RolledType == ASSUME NEW size \in Nat PROVE Rolled(size) \in Seq(File)
<1> DEFINE n == (size + Target - 1) \div Target
           q == size \div Target
           closed(i) == [size |-> IF i * Target <= size THEN Target ELSE size % Target, hit |-> FALSE]
<1>0. Target \in Nat /\ 1 <= Target
  BY Thresholds
<1>1. /\ size + Target - 1 \in Nat /\ n \in Nat /\ (size + Target - 1) % Target \in Nat
      /\ size + Target - 1 = Target * n + ((size + Target - 1) % Target)
  BY <1>0, Division
<1>2. q \in Nat /\ size % Target \in Nat /\ size = Target * q + (size % Target)
  BY <1>0, Division
<1>3. ASSUME NEW i \in 1 .. n, ~ (i * Target <= size) PROVE size % Target # 0
  <2> HIDE DEF n, q
  <2> SUFFICES ASSUME size = Target * q PROVE FALSE
    BY <1>0, <1>2
  <2>1. i \in Nat /\ i <= n
    BY <1>1
  <2>2. CASE i <= q
    BY <1>0, <1>2, <1>3, <2>1, <2>2, Times
  <2>3. CASE q + 1 <= i
    <3>1. (q + 1) * Target <= n * Target
      BY <1>0, <1>1, <1>2, <2>1, <2>3, Times
    <3>2. (q + 1) * Target = Target * q + Target /\ n * Target = Target * n
      BY <1>0, <1>1, <1>2
    <3> QED
      BY <1>0, <1>1, <1>2, <3>1, <3>2
  <2> QED
    BY <1>2, <2>1, <2>2, <2>3
<1>4. \A i \in 1 .. n : closed(i) \in File
  BY <1>0, <1>2, <1>3 DEF File, Sizes
<1> HIDE DEF n, closed
<1>5. Rolled(size) = [i \in 1 .. n |-> closed(i)]
  BY DEF Rolled, n, closed
<1>6. Rolled(size) \in [1 .. n -> File]
  BY <1>4, <1>5
<1> QED
  BY <1>1, <1>6

LEMMA MinOfTwo ==
    ASSUME NEW a \in Nat, NEW b \in Nat
    PROVE  Min({a, b}) \in Nat /\ Min({a, b}) <= a
<1>1. \E x \in {a, b} : \A y \in {a, b} : x <= y
  <2>1. CASE a <= b
    BY <2>1
  <2>2. CASE b <= a
    BY <2>2
  <2> QED
    BY <2>1, <2>2
<1>2. Min({a, b}) \in {a, b} /\ \A y \in {a, b} : Min({a, b}) <= y
  BY <1>1 DEF Min
<1> QED
  BY <1>2

LEMMA RewrittenType ==
    ASSUME TypeOK, NEW p \in Partitions, NEW chunk, NEW toll \in Tolls
    PROVE  /\ Rewritten(p, chunk, toll) \in Seq(File)
           /\ BytesOf(p, chunk) - Taken(p, chunk, toll) \in Nat
<1>1. FilesOK /\ (table.delete # NoDelete => table.delete.named \in Nat)
  BY DeleteType
<1> DEFINE hits == HitBytes(p, chunk)
           named == IF table.delete = NoDelete THEN 0 ELSE table.delete.named
<1>2. hits \in Nat /\ BytesOf(p, chunk) \in Nat /\ hits <= BytesOf(p, chunk)
  BY <1>1, BytesType, BytesMonotone DEF HitBytes
<1>3. named \in Nat
  BY <1>1
<1>4. Taken(p, chunk, toll) = CASE toll = "none" -> 0 [] toll = "all" -> hits [] toll = "named" -> Min({hits, named})
  BY DEF Taken
<1> HIDE DEF hits, named
<1>5. Min({hits, named}) \in Nat /\ Min({hits, named}) <= hits
  BY <1>2, <1>3, MinOfTwo
<1>6. Taken(p, chunk, toll) \in Nat /\ Taken(p, chunk, toll) <= hits
  BY <1>2, <1>4, <1>5 DEF Tolls
<1>7. BytesOf(p, chunk) - Taken(p, chunk, toll) \in Nat
  BY <1>2, <1>6
<1> QED
  BY <1>7, RolledType DEF Rewritten

LEMMA FiniteImage ==
    ASSUME NEW S, IsFiniteSet(S), NEW f, f = [x \in S |-> f[x]]
    PROVE  IsFiniteSet({f[x] : x \in S})
<1>1. f \in Surjection(S, {f[x] : x \in S})
  BY DEF Surjection
<1> QED
  BY <1>1, FS_Surjection

LEMMA ChunksFinite ==
    ASSUME FilesOK, NEW p \in Partitions
    PROVE  IsFiniteSet(Chunks(p))
<1> DEFINE f == [i \in Input(p) |-> ChunkAt(p, i)]
           S == {f[i] : i \in Input(p)}
<1>1. IsFiniteSet(Input(p))
  BY FilesOf, InputType, FS_Subset
<1>2. f = [i \in Input(p) |-> f[i]]
  OBVIOUS
<1>3. S = {ChunkAt(p, i) : i \in Input(p)}
  OBVIOUS
<1> HIDE DEF f
<1>4. IsFiniteSet(S)
  BY <1>1, <1>2, FiniteImage
<1>5. Chunks(p) \subseteq S
  BY <1>3, ChunksAre
<1> QED
  BY <1>4, <1>5, FS_Subset

LEMMA GroupsFinite ==
    ASSUME FilesOK, NEW keys \in SUBSET Partitions
    PROVE  IsFiniteSet(Groups(keys))
<1> DEFINE Q == {q \in keys : q.spec = table.spec}
           f == [q \in Q |-> {q} \X Chunks(q)]
           S == {f[q] : q \in Q}
<1>1. IsFiniteSet(Q)
  BY UpkeepAssumption, FS_Subset
<1>2. f = [q \in Q |-> f[q]] /\ \A q \in Q : f[q] = {q} \X Chunks(q)
  OBVIOUS
<1>3. Groups(keys) = UNION S
  BY DEF Groups
<1>4. \A q \in Q : IsFiniteSet(f[q])
  <2> SUFFICES ASSUME NEW q \in Q PROVE IsFiniteSet({q} \X Chunks(q))
    BY <1>2
  <2>1. IsFiniteSet({q}) /\ IsFiniteSet(Chunks(q))
    BY ChunksFinite, FS_Singleton
  <2> QED
    BY <2>1, FS_Product
<1> HIDE DEF f, Q
<1>5. IsFiniteSet(S)
  BY <1>1, <1>2, FiniteImage
<1>6. \A s \in S : IsFiniteSet(s)
  BY <1>4
<1> HIDE DEF S
<1> QED
  BY <1>3, <1>5, <1>6, FS_UNION

LEMMA DoneAre ==
    ASSUME NEW keys, NEW done \in SUBSET Groups(keys), NEW p
    PROVE  /\ Done(p, done) \subseteq Chunks(p)
           /\ p.spec # table.spec => Done(p, done) = {}
<1>1. \A g \in done : \E q \in keys : q.spec = table.spec /\ \E c \in Chunks(q) : g = <<q, c>>
  BY GroupsAre
<1>2. \A c \in Done(p, done) : p.spec = table.spec /\ c \in Chunks(p)
  <2> SUFFICES ASSUME NEW c \in Done(p, done) PROVE p.spec = table.spec /\ c \in Chunks(p)
    OBVIOUS
  <2>1. PICK g \in done : g[1] = p /\ g[2] = c
    BY DEF Done
  <2>2. PICK q \in keys : q.spec = table.spec /\ \E d \in Chunks(q) : g = <<q, d>>
    BY <1>1
  <2>3. q = p /\ c \in Chunks(q)
    BY <2>1, <2>2
  <2> QED
    BY <2>2, <2>3
<1> QED
  BY <1>2

Left(p, read) == {<<<<{i}, 0>>, table.files[p][i]>> : i \in Places(p) \ read}
OutOf(p, c, toll) == {<<<<c, n>>, Rewritten(p, c, toll)[n]>> : n \in DOMAIN Rewritten(p, c, toll)}

LEMMA FilesAfterAre ==
    ASSUME NEW p, NEW done, NEW toll
    PROVE  FilesAfter(p, done, toll) =
                BySize(Left(p, UNION Done(p, done)) \cup UNION {OutOf(p, c, toll) : c \in Done(p, done)})
  BY DEF FilesAfter, Left, OutOf

(* After a run a partition's files are files in order.                      *)
LEMMA AfterType ==
    ASSUME TypeOK, NEW keys \in SUBSET Partitions, NEW done \in SUBSET Groups(keys), NEW p \in Partitions, NEW toll \in Tolls
    PROVE  /\ FilesAfter(p, done, toll) \in Seq(File) /\ Sorted(FilesAfter(p, done, toll))
           /\ Pairs(Left(p, UNION Done(p, done)) \cup UNION {OutOf(p, c, toll) : c \in Done(p, done)})
<1> DEFINE D == Done(p, done)
           left == Left(p, UNION D)
           f == [c \in D |-> OutOf(p, c, toll)]
           outs == {f[c] : c \in D}
           F == left \cup UNION outs
<1>0. FilesOK
  BY DeleteType
<1>1. IsFiniteSet(D)
  BY <1>0, DoneAre, ChunksFinite, FS_Subset
<1>2. IsFiniteSet(left) /\ \A x \in left : x[2] \in File
  <2> DEFINE S == Places(p) \ UNION D
             g == [i \in S |-> <<<<{i}, 0>>, table.files[p][i]>>]
  <2>1. IsFiniteSet(S) /\ \A i \in S : table.files[p][i] \in File
    BY <1>0, FilesOf, FS_Difference
  <2>2. g = [i \in S |-> g[i]] /\ \A i \in S : g[i] = <<<<{i}, 0>>, table.files[p][i]>>
    OBVIOUS
  <2>3. left = {g[i] : i \in S}
    BY DEF Left
  <2>4. \A x \in left : x[2] \in File
    BY <2>1 DEF Left
  <2> HIDE DEF g, S
  <2>5. IsFiniteSet({g[i] : i \in S})
    BY <2>1, <2>2, FiniteImage
  <2> QED
    BY <2>3, <2>4, <2>5
<1>3. ASSUME NEW c PROVE IsFiniteSet(OutOf(p, c, toll)) /\ \A x \in OutOf(p, c, toll) : x[2] \in File
  <2> DEFINE s == Rewritten(p, c, toll)
             g == [n \in 1 .. Len(s) |-> <<<<c, n>>, s[n]>>]
  <2>1. s \in Seq(File)
    BY RewrittenType
  <2>2. Len(s) \in Nat /\ DOMAIN s = 1 .. Len(s) /\ \A n \in 1 .. Len(s) : s[n] \in File
    BY <2>1
  <2>3. OutOf(p, c, toll) = {g[n] : n \in 1 .. Len(s)} /\ \A x \in OutOf(p, c, toll) : x[2] \in File
    BY <2>2 DEF OutOf
  <2>4. g = [n \in 1 .. Len(s) |-> g[n]]
    OBVIOUS
  <2> HIDE DEF g, s
  <2>5. IsFiniteSet({g[n] : n \in 1 .. Len(s)})
    BY <2>2, <2>4, FiniteImage, Counted
  <2> QED
    BY <2>3, <2>5
<1>4. f = [c \in D |-> f[c]] /\ \A c \in D : f[c] = OutOf(p, c, toll)
  OBVIOUS
<1>50. outs = {OutOf(p, c, toll) : c \in D}
  OBVIOUS
<1>5. FilesAfter(p, done, toll) = BySize(F)
  BY <1>50, FilesAfterAre
<1>51. F = Left(p, UNION D) \cup UNION {OutOf(p, c, toll) : c \in D}
  BY <1>50
<1> HIDE DEF D, f, left
<1>6. IsFiniteSet(outs)
  BY <1>1, <1>4, FiniteImage
<1>7. \A s \in outs : IsFiniteSet(s) /\ \A x \in s : x[2] \in File
  BY <1>3, <1>4
<1> HIDE DEF outs
<1>8. IsFiniteSet(UNION outs) /\ \A x \in UNION outs : x[2] \in File
  BY <1>6, <1>7, FS_UNION
<1>9. Pairs(F)
  BY <1>2, <1>8, FS_Union DEF Pairs
<1>10. FilesAfter(p, done, toll) \in Seq(File) /\ Sorted(FilesAfter(p, done, toll))
  BY <1>5, <1>9, PutInOrder
<1> HIDE DEF F
<1> QED
  BY <1>9, <1>10, <1>51 DEF D

(* A partition none of whose groups was rewritten keeps its files.          *)
LEMMA Untouched ==
    ASSUME TypeOK, NEW p \in Partitions, NEW done, Done(p, done) = {}, NEW toll, Sorted(table.files[p])
    PROVE  FilesAfter(p, done, toll) = table.files[p]
<1> DEFINE files == table.files[p]
           tag == [i \in DOMAIN files |-> <<{i}, 0>>]
<1>1. files \in Seq(File) /\ Places(p) = DOMAIN files
  BY DeleteType, FilesOf DEF Places
<1>2. FilesAfter(p, done, toll) = BySize(Left(p, {}))
  <2>1. UNION Done(p, done) = {} /\ UNION {OutOf(p, c, toll) : c \in Done(p, done)} = {}
    OBVIOUS
  <2>2. Left(p, {}) \cup {} = Left(p, {})
    OBVIOUS
  <2> QED
    BY <2>1, <2>2, FilesAfterAre
<1>3. Left(p, {}) = {<<tag[i], files[i]>> : i \in DOMAIN files}
  BY <1>1 DEF Left
<1>4. tag = [i \in DOMAIN files |-> tag[i]]
  OBVIOUS
<1>5. \A i, j \in DOMAIN files : tag[i] = tag[j] => i = j
  <2> SUFFICES ASSUME NEW i \in DOMAIN files, NEW j \in DOMAIN files, <<{i}, 0>> = <<{j}, 0>> PROVE i = j
    OBVIOUS
  <2>1. {i} = {j}
    OBVIOUS
  <2> QED
    BY <2>1
<1> HIDE DEF files, tag
<1>6. Sorted(files)
  BY DEF files
<1>7. BySize({<<tag[i], files[i]>> : i \in DOMAIN files}) = files
  BY <1>1, <1>4, <1>5, <1>6, OrderStays
<1>8. FilesAfter(p, done, toll) = files
  BY <1>2, <1>3, <1>7
<1> QED
  BY <1>8 DEF files

-----------------------------------------------------------------------------
(* The inductive invariant *)

(* While nobody else has changed the table, what is planned is what would   *)
(* be planned, but for the age of files, and at what it would be charged.   *)
PlanOK ==
    plan # NoPlan /\ plan.fresh =>
        \A p \in plan.targets :
            /\ table.format = "parquet" /\ p.spec = table.spec
            /\ Triggered(p) /\ plan.charged[p] = Charge(p)

Inv ==
    /\ TypeOK
    /\ \A p \in Partitions : Sorted(table.files[p])
    /\ PlanOK

LEMMA FiledPairs == ASSUME NEW files \in Seq(File) PROVE Pairs(Filed(files))
<1> DEFINE n == Len(files)
           g == [i \in 1 .. n |-> <<i, files[i]>>]
<1>1. n \in Nat /\ DOMAIN files = 1 .. n /\ \A i \in 1 .. n : files[i] \in File
  OBVIOUS
<1>2. Filed(files) = {g[i] : i \in 1 .. n} /\ \A x \in Filed(files) : x[2] \in File
  BY <1>1 DEF Filed
<1>3. g = [i \in 1 .. n |-> g[i]]
  OBVIOUS
<1> HIDE DEF g, n
<1>4. IsFiniteSet({g[i] : i \in 1 .. n})
  BY <1>1, <1>3, FiniteImage, Counted
<1> QED
  BY <1>2, <1>4 DEF Pairs

LEMMA InitInv == Init => Inv
<1> SUFFICES ASSUME Init PROVE Inv
  OBVIOUS
<1> DEFINE seed(p) == {<<i, [size |-> SeedFiles[p][i], hit |-> FALSE]>> : i \in DOMAIN SeedFiles[p]}
<1>1. ASSUME NEW p \in Partitions PROVE BySize(seed(p)) \in Seq(File) /\ Sorted(BySize(seed(p)))
  <2> DEFINE s == [i \in DOMAIN SeedFiles[p] |-> [size |-> SeedFiles[p][i], hit |-> FALSE]]
             n == Len(SeedFiles[p])
  <2>1. n \in Nat /\ DOMAIN SeedFiles[p] = 1 .. n /\ \A i \in 1 .. n : SeedFiles[p][i] \in Sizes
    BY UpkeepAssumption
  <2>2. s \in [1 .. n -> File]
    BY <2>1 DEF File
  <2>3. seed(p) = Filed(s)
    BY DEF Filed
  <2> HIDE DEF s, n
  <2>4. s \in Seq(File)
    BY <2>1, <2>2
  <2> QED
    BY <2>3, <2>4, FiledPairs, PutInOrder
<1>2. table = [spec |-> FirstSpec, format |-> "parquet", delete |-> NoDelete,
               files |-> [p \in Partitions |-> BySize(seed(p))]]
      /\ hot = {} /\ plan = NoPlan /\ counts = [writes |-> 0, failures |-> 0]
  BY DEF Init
<1> HIDE DEF seed
<1>3. table.files = [p \in Partitions |-> BySize(seed(p))]
  BY <1>2
<1>4. table.files \in [Partitions -> Seq(File)] /\ \A p \in Partitions : Sorted(table.files[p])
  BY <1>1, <1>3
<1>5. FirstSpec \in Specs
  BY UpkeepAssumption
<1>6. TypeOK
  BY <1>2, <1>4, <1>5 DEF TypeOK, Tables
<1>7. PlanOK
  BY <1>2 DEF PlanOK
<1> QED
  BY <1>4, <1>6, <1>7 DEF Inv

LEMMA SameTable ==
    ASSUME table' = table, NEW p
    PROVE  (Triggered(p)' <=> Triggered(p)) /\ Charge(p)' = Charge(p)
<1>1. \A q : Places(q)' = Places(q)
  BY DEF Places
<1>2. \A q, places : BytesOf(q, places)' = BytesOf(q, places)
  BY DEF BytesOf, Places
<1>3. \A q : Records(q)' = Records(q) /\ Named(q)' = Named(q)
  BY <1>1, <1>2 DEF Records, Named
<1>4. \A q : SizeEligible(q)' = SizeEligible(q) /\ SmallFiles(q)' = SmallFiles(q)
  BY DEF SizeEligible, SmallFiles, Places
<1>5. \A q : ByDeletes(q)' <=> ByDeletes(q)
  BY <1>3 DEF ByDeletes
<1> QED
  BY <1>1, <1>2, <1>3, <1>4, <1>5
  DEF Triggered, ByOversized, BySmallFiles, LeavesFewer, OutputFileEstimate, Charge, Eligible

LEMMA PlanStep == Inv /\ Plan => Inv'
<1> SUFFICES ASSUME Inv, Plan PROVE Inv'
  OBVIOUS
<1>0. TypeOK /\ \A p \in Partitions : Sorted(table.files[p])
  BY DEF Inv
<1>1. /\ plan' = [targets |-> Targets, charged |-> [p \in Targets |-> Charge(p)], fresh |-> TRUE]
      /\ table' = table /\ hot' = hot /\ counts' = counts
  BY DEF Plan
<1>2. /\ Targets \in SUBSET Partitions
      /\ \A p \in Targets : table.format = "parquet" /\ p.spec = table.spec /\ Triggered(p)
  BY DEF Targets
<1>3. [p \in Targets |-> Charge(p)] \in [Targets -> Nat]
  <2>1. \A p \in Targets : Charge(p) \in Nat
    BY <1>0, <1>2, DeleteType, BytesType DEF Charge
  <2> QED
    BY <2>1
<1>4. plan' \in Plans
  BY <1>1, <1>2, <1>3 DEF Plans
<1>5. TypeOK'
  BY <1>0, <1>1, <1>4 DEF TypeOK
<1>6. \A p \in Targets : Triggered(p)' /\ Charge(p)' = Charge(p)
  BY <1>1, <1>2, SameTable
<1>7. PlanOK'
  BY <1>1, <1>2, <1>6 DEF PlanOK
<1> QED
  BY <1>0, <1>1, <1>5, <1>7 DEF Inv

LEMMA ChangesPlan ==
    ASSUME TypeOK, Changes
    PROVE  /\ plan' \in Plans \cup {NoPlan}
           /\ counts' \in [writes : Nat, failures : Nat]
           /\ counts'.writes # counts.writes
           /\ PlanOK'
<1>1. counts' \in [writes : Nat, failures : Nat] /\ counts'.writes # counts.writes
  BY DEF Changes, TypeOK
<1>2. CASE plan = NoPlan
  BY <1>1, <1>2 DEF Changes, PlanOK
<1>3. CASE plan # NoPlan
  <2>1. PICK T \in SUBSET Partitions : plan \in [targets : {T}, charged : [T -> Nat], fresh : BOOLEAN]
    BY <1>3 DEF TypeOK, Plans
  <2>2. plan' = [plan EXCEPT !.fresh = FALSE]
    BY <1>3 DEF Changes
  <2>3. plan' \in [targets : {T}, charged : [T -> Nat], fresh : BOOLEAN] /\ plan'.fresh = FALSE
    BY <2>1, <2>2
  <2> QED
    BY <1>1, <2>3 DEF Plans, PlanOK
<1> QED
  BY <1>2, <1>3

(* The files of a table that is otherwise the same.                         *)
LEMMA FilesChange ==
    ASSUME Inv, Changes, hot' \in SUBSET Partitions, table' \in Tables,
           \A p \in Partitions : Sorted(table'.files[p])
    PROVE  Inv'
<1>1. TypeOK
  BY DEF Inv
<1>2. plan' \in Plans \cup {NoPlan} /\ counts' \in [writes : Nat, failures : Nat] /\ PlanOK'
  BY <1>1, ChangesPlan
<1> QED
  BY <1>2 DEF Inv, TypeOK

LEMMA AppendsStep ==
    ASSUME Inv, NEW p \in Partitions, NEW size \in AppendSizes, Appends(p, size)
    PROVE  Inv'
<1> DEFINE more == Append(table.files[p], [size |-> size, hit |-> FALSE])
           files == BySize(Filed(more))
<1>0. TypeOK /\ (\A q \in Partitions : Sorted(table.files[q])) /\ table \in Tables
  BY DEF Inv, TypeOK
<1>1. Changes /\ table' = [table EXCEPT !.files[p] = files] /\ hot' = hot \cup {p}
  BY DEF Appends
<1>2. more \in Seq(File)
  <2>1. table.files[p] \in Seq(File)
    BY <1>0, DeleteType, FilesOf
  <2>2. [size |-> size, hit |-> FALSE] \in File
    BY UpkeepAssumption DEF File
  <2> QED
    BY <2>1, <2>2
<1> HIDE DEF more
<1>3. files \in Seq(File) /\ Sorted(files)
  BY <1>2, FiledPairs, PutInOrder
<1> HIDE DEF files
<1>4. table' \in Tables /\ table'.files = [table.files EXCEPT ![p] = files]
  BY <1>0, <1>1, <1>3 DEF Tables
<1>5. \A q \in Partitions : table'.files[q] = IF q = p THEN files ELSE table.files[q]
  BY <1>0, <1>4 DEF Tables
<1>6. \A q \in Partitions : Sorted(table'.files[q])
  BY <1>0, <1>3, <1>5
<1>7. hot' \in SUBSET Partitions
  BY <1>0, <1>1 DEF TypeOK
<1> QED
  BY <1>1, <1>4, <1>6, <1>7, FilesChange

LEMMA HitAll ==
    ASSUME NEW files \in Seq(File), Sorted(files)
    PROVE  /\ [i \in DOMAIN files |-> [files[i] EXCEPT !.hit = TRUE]] \in Seq(File)
           /\ Sorted([i \in DOMAIN files |-> [files[i] EXCEPT !.hit = TRUE]])
<1> DEFINE n == Len(files)
           s == [i \in DOMAIN files |-> [files[i] EXCEPT !.hit = TRUE]]
<1>1. n \in Nat /\ DOMAIN files = 1 .. n /\ \A i \in 1 .. n : files[i] \in File
  OBVIOUS
<1>2. \A f \in File : /\ [f EXCEPT !.hit = TRUE] \in File /\ [f EXCEPT !.hit = TRUE].hit = TRUE
                      /\ [f EXCEPT !.hit = TRUE].size = f.size /\ f.size \in Nat
  BY DEF File, Sizes
<1>3. \A i \in 1 .. n : s[i] \in File /\ s[i].hit = TRUE /\ s[i].size = files[i].size /\ files[i].size \in Nat
  BY <1>1, <1>2
<1>4. s \in [1 .. n -> File]
  BY <1>1, <1>3
<1>5. DOMAIN s = 1 .. n
  BY <1>1
<1> HIDE DEF s, n
<1>6. \A i, j \in 1 .. n : i < j => ~ Precedes(s[j], s[i])
  BY <1>1, <1>3 DEF Sorted, Precedes
<1>7. Sorted(s)
  BY <1>5, <1>6 DEF Sorted
<1>8. s \in Seq(File)
  BY <1>1, <1>4
<1> QED
  BY <1>7, <1>8 DEF s

LEMMA DeletesStep ==
    ASSUME Inv, NEW p \in Partitions, Deletes(p)
    PROVE  Inv'
<1>0. TypeOK /\ (\A q \in Partitions : Sorted(table.files[q])) /\ table \in Tables
      /\ table.files \in [Partitions -> Seq(File)]
  BY DEF Inv, TypeOK, Tables
<1> DEFINE marked(q) == [i \in DOMAIN table.files[q] |-> [table.files[q][i] EXCEPT !.hit = TRUE]]
           files(reach) == [q \in Partitions |-> IF q \in reach THEN marked(q) ELSE table.files[q]]
<1>1. Changes /\ hot' = hot
  BY DEF Deletes
<1>2. PICK named \in {1, Target}, reach \in {{p}, IF p.spec = UnpartitionedSpec THEN Partitions ELSE {p}} :
        table' = [table EXCEPT !.delete = [key |-> p, named |-> named], !.files = files(reach)]
  BY DEF Deletes
<1>3. \A q \in Partitions : marked(q) \in Seq(File) /\ Sorted(marked(q))
  BY <1>0, HitAll
<1> HIDE DEF marked
<1>4. \A q \in Partitions : files(reach)[q] \in Seq(File) /\ Sorted(files(reach)[q])
  BY <1>0, <1>3
<1>5. files(reach) \in [Partitions -> Seq(File)]
  BY <1>4
<1> HIDE DEF files
<1>6. named \in Sizes
  BY UpkeepAssumption DEF Sizes
<1>7. table' \in Tables /\ table'.files = files(reach)
  BY <1>0, <1>2, <1>5, <1>6 DEF Tables, Delete
<1>8. hot' \in SUBSET Partitions
  BY <1>0, <1>1 DEF TypeOK
<1> QED
  BY <1>1, <1>4, <1>7, <1>8, FilesChange

LEMMA OneRemoved ==
    ASSUME NEW files \in Seq(File), Sorted(files), NEW i \in DOMAIN files
    PROVE  RemoveAt(files, i) \in Seq(File) /\ Sorted(RemoveAt(files, i))
<1> DEFINE n == Len(files)
           front == SubSeq(files, 1, i - 1)
           back == SubSeq(files, i + 1, n)
           s == RemoveAt(files, i)
           old(k) == IF k < i THEN k ELSE k + 1
<1>1. n \in Nat /\ DOMAIN files = 1 .. n /\ i \in 1 .. n /\ \A k \in 1 .. n : files[k] \in File
  OBVIOUS
<1>2. /\ front \in Seq(File) /\ Len(front) = i - 1
      /\ \A k \in 1 .. i - 1 : front[k] = files[k]
  BY <1>1, SubSeqProperties
<1>3. /\ back \in Seq(File) /\ Len(back) = n - i
      /\ \A k \in 1 .. n - i : back[k] = files[i + k]
  BY <1>1, SubSeqProperties
<1>4. s = front \o back
  BY DEF RemoveAt
<1> HIDE DEF front, back, s, n
<1>5. s \in Seq(File) /\ Len(s) = n - 1
  <2>1. s \in Seq(File) /\ Len(s) = Len(front) + Len(back)
    BY <1>2, <1>3, <1>4, ConcatProperties
  <2> QED
    BY <1>1, <1>2, <1>3, <2>1
<1>6. ASSUME NEW k \in 1 .. n - 1 PROVE s[k] = files[old(k)] /\ old(k) \in 1 .. n
  <2>1. CASE k < i
    <3>1. k \in 1 .. Len(front)
      BY <1>1, <1>2, <2>1
    <3>2. s[k] = front[k]
      BY <1>2, <1>3, <1>4, <3>1
    <3> QED
      BY <1>1, <1>2, <2>1, <3>1, <3>2
  <2>2. CASE ~ (k < i)
    <3>1. k - Len(front) \in 1 .. Len(back) /\ k - Len(front) = k - i + 1 /\ k \in 1 .. Len(front) + Len(back)
          /\ Len(front) < k
      BY <1>1, <1>2, <1>3, <2>2
    <3>2. s[k] = IF k <= Len(front) THEN front[k] ELSE back[k - Len(front)]
      BY <1>2, <1>3, <1>4, <3>1, ConcatProperties
    <3>4. s[k] = back[k - i + 1]
      BY <1>1, <1>2, <3>1, <3>2
    <3>3. k - i + 1 \in 1 .. n - i /\ i + (k - i + 1) = k + 1
      BY <1>1, <2>2
    <3> QED
      BY <1>1, <1>3, <2>2, <3>3, <3>4
  <2> QED
    BY <2>1, <2>2
<1>7. \A k, m \in 1 .. n - 1 : k < m => old(k) < old(m)
  BY <1>1
<1> HIDE DEF old
<1>8. DOMAIN s = 1 .. n - 1
  BY <1>5
<1>9. Sorted(s)
  BY <1>1, <1>6, <1>7, <1>8 DEF Sorted
<1> QED
  BY <1>5, <1>9 DEF s

LEMMA DropsStep ==
    ASSUME Inv, NEW p \in Partitions, NEW i \in Places(p), Drops(p, i)
    PROVE  Inv'
<1>0. TypeOK /\ (\A q \in Partitions : Sorted(table.files[q])) /\ table \in Tables
      /\ table.files \in [Partitions -> Seq(File)]
  BY DEF Inv, TypeOK, Tables
<1> DEFINE files == RemoveAt(table.files[p], i)
<1>1. Changes /\ hot' = hot /\ table' = [table EXCEPT !.files[p] = files]
  BY DEF Drops
<1>2. files \in Seq(File) /\ Sorted(files)
  BY <1>0, OneRemoved DEF Places
<1> HIDE DEF files
<1>3. table' \in Tables /\ table'.files = [table.files EXCEPT ![p] = files]
  BY <1>0, <1>1, <1>2 DEF Tables
<1>4. \A q \in Partitions : table'.files[q] = IF q = p THEN files ELSE table.files[q]
  BY <1>0, <1>3
<1>5. \A q \in Partitions : Sorted(table'.files[q])
  BY <1>0, <1>2, <1>4
<1>6. hot' \in SUBSET Partitions
  BY <1>0, <1>1 DEF TypeOK
<1> QED
  BY <1>1, <1>3, <1>5, <1>6, FilesChange

LEMMA OwnerStep == Inv /\ (EvolvesSpec \/ SetsFormat) => Inv'
<1> SUFFICES ASSUME Inv, EvolvesSpec \/ SetsFormat PROVE Inv'
  OBVIOUS
<1>0. TypeOK /\ (\A q \in Partitions : Sorted(table.files[q])) /\ table \in Tables
  BY DEF Inv, TypeOK
<1>1. Changes /\ hot' = hot /\ table' \in Tables /\ table'.files = table.files
  <2>1. CASE EvolvesSpec
    BY <1>0, <2>1 DEF EvolvesSpec, Tables
  <2>2. CASE SetsFormat
    BY <1>0, <2>2 DEF SetsFormat, Tables
  <2> QED
    BY <2>1, <2>2
<1>2. hot' \in SUBSET Partitions
  BY <1>0, <1>1 DEF TypeOK
<1>3. \A q \in Partitions : Sorted(table'.files[q])
  BY <1>0, <1>1
<1> QED
  BY <1>1, <1>2, <1>3, FilesChange

(* A run leaves files in order, and those of the partitions that it does    *)
(* not compact as they are.                                                 *)
LEMMA RunStep ==
    ASSUME Inv, Run
    PROVE  /\ Inv'
           /\ table.format = "parquet"
           /\ \A p \in Partitions : p.spec # table.spec => table'.files[p] = table.files[p]
<1>0. TypeOK /\ (\A q \in Partitions : Sorted(table.files[q])) /\ table \in Tables
      /\ FilesOK /\ counts \in [writes : Nat, failures : Nat] /\ hot \in SUBSET Partitions
  BY DeleteType DEF Inv, TypeOK
<1>1. plan # NoPlan /\ table.format = "parquet" /\ plan' = NoPlan
  BY DEF Run
<1>2. PICK failed \in SUBSET Groups(plan.targets), toll \in Tolls, swept \in BOOLEAN :
        LET done == Groups(plan.targets) \ failed
            failures == counts.failures + Cardinality(failed) + (IF swept THEN 0 ELSE 1)
        IN  /\ failures <= MaxFailures
            /\ table' = [table EXCEPT
                    !.files = [p \in Partitions |-> FilesAfter(p, done, toll)],
                    !.delete = DeleteAfter(done, swept)]
            /\ hot' = hot \cup {g[1] : g \in {d \in done : Rewritten(d[1], d[2], toll) # <<>>}}
            /\ counts' = [counts EXCEPT !.failures = failures]
  BY DEF Run
<1> DEFINE done == Groups(plan.targets) \ failed
           files == [p \in Partitions |-> FilesAfter(p, done, toll)]
           swift == DeleteAfter(done, swept)
           written == {g[1] : g \in {d \in done : Rewritten(d[1], d[2], toll) # <<>>}}
           failures == counts.failures + Cardinality(failed) + (IF swept THEN 0 ELSE 1)
<1>3. table' = [table EXCEPT !.files = files, !.delete = swift] /\ hot' = hot \cup written
      /\ counts' = [counts EXCEPT !.failures = failures]
  BY <1>2
<1>4. plan.targets \in SUBSET Partitions
  BY <1>0, <1>1 DEF TypeOK, Plans
<1>5. done \in SUBSET Groups(plan.targets) /\ IsFiniteSet(failed) /\ Cardinality(failed) \in Nat
  BY <1>0, <1>4, GroupsFinite, FS_Subset, FS_CardinalityType
<1>6. failures \in Nat
  BY <1>0, <1>5
<1>7. written \subseteq Partitions
  <2> SUFFICES ASSUME NEW g \in done PROVE g[1] \in Partitions
    OBVIOUS
  <2>1. PICK q \in plan.targets : \E c \in Chunks(q) : g = <<q, c>>
    BY <1>5, GroupsAre
  <2> QED
    BY <1>4, <2>1
<1>8. swift \in Delete \cup {NoDelete}
  BY <1>0, DeleteType DEF DeleteAfter
<1> HIDE DEF done, swift, written, failures
<1>9. \A p \in Partitions : files[p] \in Seq(File) /\ Sorted(files[p])
  BY <1>0, <1>4, <1>5, AfterType
<1>10. \A p \in Partitions : p.spec # table.spec => files[p] = table.files[p]
  <2> SUFFICES ASSUME NEW p \in Partitions, p.spec # table.spec PROVE files[p] = table.files[p]
    OBVIOUS
  <2>1. Done(p, done) = {}
    BY <1>5, DoneAre
  <2> QED
    BY <1>0, <2>1, Untouched
<1>11. files \in [Partitions -> Seq(File)]
  BY <1>9
<1> HIDE DEF files
<1>12. table' \in Tables /\ table'.files = files
  BY <1>0, <1>3, <1>8, <1>11 DEF Tables
<1>13. hot' \in SUBSET Partitions /\ counts' \in [writes : Nat, failures : Nat]
  BY <1>0, <1>3, <1>6, <1>7
<1>14. TypeOK' /\ PlanOK'
  BY <1>1, <1>12, <1>13 DEF TypeOK, PlanOK
<1>15. Inv'
  BY <1>9, <1>12, <1>14 DEF Inv
<1> QED
  BY <1>1, <1>10, <1>12, <1>15

LEMMA QuietStep ==
    ASSUME Inv, Refuse \/ (\E p \in Partitions : Cool(p)) \/ UNCHANGED vars
    PROVE  Inv' /\ table' = table
<1>1. table' = table /\ counts' = counts /\ hot' \subseteq hot /\ (plan' = plan \/ plan' = NoPlan)
  BY DEF Refuse, Cool, vars
<1>2. TypeOK' /\ (\A q \in Partitions : Sorted(table'.files[q]))
  BY <1>1 DEF Inv, TypeOK
<1>3. PlanOK'
  <2>1. CASE plan' = NoPlan
    BY <2>1 DEF PlanOK
  <2>2. CASE plan' = plan
    <3>1. \A p : (Triggered(p)' <=> Triggered(p)) /\ Charge(p)' = Charge(p)
      BY <1>1, SameTable
    <3> QED
      BY <1>1, <2>2, <3>1 DEF Inv, PlanOK
  <2> QED
    BY <1>1, <2>1, <2>2
<1> QED
  BY <1>1, <1>2, <1>3 DEF Inv

LEMMA WritesCounted == ASSUME Inv, Write PROVE counts'.writes # counts.writes
<1>1. Changes
  BY DEF Write, Appends, Deletes, Drops, EvolvesSpec, SetsFormat
<1>2. TypeOK
  BY DEF Inv
<1> QED
  BY <1>1, <1>2, ChangesPlan

LEMMA NextInv == Inv /\ [Next]_vars => Inv'
<1> SUFFICES ASSUME Inv, [Next]_vars PROVE Inv'
  OBVIOUS
<1>1. ASSUME Plan PROVE Inv'
  BY <1>1, PlanStep
<1>2. ASSUME Run PROVE Inv'
  BY <1>2, RunStep
<1>3. ASSUME Refuse \/ (\E p \in Partitions : Cool(p)) \/ UNCHANGED vars PROVE Inv'
  BY <1>3, QuietStep
<1>4. ASSUME Write PROVE Inv'
  <2>1. CASE EvolvesSpec \/ SetsFormat
    BY <2>1, OwnerStep
  <2>2. ASSUME NEW p \in Partitions, NEW size \in AppendSizes, Appends(p, size) PROVE Inv'
    BY <2>2, AppendsStep
  <2>3. ASSUME NEW p \in Partitions, Deletes(p) PROVE Inv'
    BY <2>3, DeletesStep
  <2>4. ASSUME NEW p \in Partitions, NEW i \in Places(p), Drops(p, i) PROVE Inv'
    BY <2>4, DropsStep
  <2> QED
    BY <1>4, <2>1, <2>2, <2>3, <2>4 DEF Write
<1> QED
  BY <1>1, <1>2, <1>3, <1>4 DEF Next

-----------------------------------------------------------------------------
(* Theorems *)

(* The table, what is hot, the plan and the counts keep their types; in     *)
(* particular no rewrite writes an empty file.                              *)
THEOREM TypeCorrect == Spec => []TypeOK
<1>1. Inv => TypeOK
  BY DEF Inv
<1> QED
  BY <1>1, InitInv, NextInv, PTL DEF Spec

(* For any thresholds, ratios and file sizes, if a group has room for two   *)
(* small files: a partition that the planner takes for worth compacting     *)
(* (planner.rs, analyze.rs) has a group that the run takes for worth        *)
(* rewriting (compact/mod.rs), while the table is as it was planned; or its *)
(* deletes apply to nothing and go, or linger.                              *)
THEOREM PlansArePromises ==
    ASSUME RoomForTwo
    PROVE  Spec => []PlanIsAPromise
<1>1. Inv => PlanIsAPromise
  <2> SUFFICES ASSUME Inv, plan # NoPlan, plan.fresh, NEW p \in plan.targets
               PROVE  \/ p \in {g[1] : g \in Groups(plan.targets)}
                      \/ (ByDeletes(p) /\ ~ StillHits({}))
                      \/ Lingers(p)
    BY DEF PlanIsAPromise
  <2>1. TypeOK /\ p \in Partitions /\ p.spec = table.spec /\ Triggered(p)
    BY DEF Inv, PlanOK, TypeOK, Plans
  <2>2. Chunks(p) # {} \/ (ByDeletes(p) /\ ~ StillHits({})) \/ Lingers(p)
    BY <2>1, DeleteType, Promised
  <2>3. ASSUME Chunks(p) # {} PROVE p \in {g[1] : g \in Groups(plan.targets)}
    <3>1. PICK c \in Chunks(p) : TRUE
      BY <2>3
    <3>2. <<p, c>> \in Groups(plan.targets)
      BY <2>1, GroupsAre
    <3> QED
      BY <3>2
  <2> QED
    BY <2>2, <2>3
<1> QED
  BY <1>1, InitInv, NextInv, PTL DEF Spec

(* However files are packed into groups, none is read for two, and what is  *)
(* read of a partition is no more than its charge against the cycle's       *)
(* budget and the files of a fitting size that deletes apply to which did   *)
(* not trigger the plan (planner.rs:254-288, compact/mod.rs:186-199).       *)
THEOREM ReadsAreCharged == Spec => []ReadsWithinCharge
<1>1. Inv => ReadsWithinCharge
  <2> SUFFICES ASSUME Inv, plan # NoPlan, plan.fresh, NEW p \in plan.targets
               PROVE  BytesRead(p, Groups(plan.targets)) <= plan.charged[p] + Uncounted(p)
    BY DEF ReadsWithinCharge
  <2>1. TypeOK /\ p \in Partitions /\ plan.charged[p] = Charge(p)
    BY DEF Inv, PlanOK, TypeOK, Plans
  <2> QED
    BY <2>1, DeleteType, WithinCharge
<1> QED
  BY <1>1, InitInv, NextInv, PTL DEF Spec

-----------------------------------------------------------------------------
(* What a rewrite leaves to be rewritten                                    *)

LEMMA BurdenType ==
    ASSUME NEW files \in Seq(File)
    PROVE  IsFiniteSet(Marked(files)) /\ Burden(files) \in Nat
<1>1. IsFiniteSet(DOMAIN files)
  BY Counted
<1>2. IsFiniteSet(MarkNames)
  <2>1. IsFiniteSet({"hit"}) /\ IsFiniteSet({"rows"}) /\ IsFiniteSet({"misfit"}) /\ IsFiniteSet({"large"})
    BY FS_Singleton
  <2>2. IsFiniteSet({"hit"} \cup {"rows"}) /\ IsFiniteSet({"misfit"} \cup {"large"})
    BY <2>1, FS_Union
  <2>3. IsFiniteSet(({"hit"} \cup {"rows"}) \cup ({"misfit"} \cup {"large"}))
    BY <2>2, FS_Union
  <2>4. MarkNames = ({"hit"} \cup {"rows"}) \cup ({"misfit"} \cup {"large"})
    BY DEF MarkNames
  <2> QED BY <2>3, <2>4
<1>3. IsFiniteSet((DOMAIN files) \X MarkNames)
  BY <1>1, <1>2, FS_Product
<1>4. IsFiniteSet(Marked(files))
  BY <1>3, FS_Subset DEF Marked
<1> QED BY <1>4, FS_CardinalityType DEF Burden

(* Of files put in order, each place has one of its own. *)
LEMMA PlacesApart ==
    ASSUME NEW F, Pairs(F)
    PROVE  \E b \in [1 .. Cardinality(F) -> F] :
              /\ \A k \in 1 .. Cardinality(F) : BySize(F)[k] = b[k][2]
              /\ \A k, l \in 1 .. Cardinality(F) : b[k] = b[l] => k = l
<1> DEFINE N == Cardinality(F)
           s == BySize(F)
           slots(f) == {k \in 1 .. N : s[k] = f}
           named(f) == {x \in F : x[2] = f}
<1>1. IsFiniteSet(F) /\ N \in Nat /\ \A x \in F : x[2] \in File
  BY FS_CardinalityType DEF Pairs
<1>2. \A k \in 1 .. N : s[k] \in {x[2] : x \in F} /\ Cardinality(Before(F, s[k])) < k /\ k <= Cardinality(UpTo(F, s[k]))
  BY PutInOrder
<1> HIDE DEF N, s
<1>3. ASSUME NEW f \in {x[2] : x \in F} PROVE \E g : g \in Injection(slots(f), named(f))
  <2>1. f \in File
    BY <1>1
  <2>2. Before(F, f) \cup named(f) = UpTo(F, f) /\ Before(F, f) \cap named(f) = {}
    <3>1. \A x \in F : /\ Precedes(x[2], f) <=> Weight(x[2]) < Weight(f)
                       /\ Precedes(f, x[2]) <=> Weight(f) < Weight(x[2])
                       /\ Weight(x[2]) \in Nat /\ Weight(f) \in Nat
                       /\ x[2] = f <=> Weight(x[2]) = Weight(f)
      BY <1>1, <2>1, Weighs
    <3>2. \A x \in F : /\ ~ Precedes(f, x[2]) <=> Precedes(x[2], f) \/ x[2] = f
                       /\ ~ (Precedes(x[2], f) /\ x[2] = f)
      BY <3>1
    <3> QED BY <3>2 DEF Before, UpTo
  <2>3. IsFiniteSet(Before(F, f)) /\ IsFiniteSet(named(f)) /\ IsFiniteSet(UpTo(F, f))
    BY <1>1, FS_Subset DEF Before, UpTo
  <2> DEFINE m == Cardinality(Before(F, f))
             n == Cardinality(UpTo(F, f))
             q == Cardinality(named(f))
  <2>4. m \in Nat /\ n \in Nat /\ q \in Nat /\ n = m + q
    <3> HIDE DEF named
    <3>1. m \in Nat /\ n \in Nat /\ q \in Nat
      BY <2>3, FS_CardinalityType
    <3>2. n = m + q - Cardinality(Before(F, f) \cap named(f))
      BY <2>2, <2>3, FS_Union
    <3>3. Cardinality(Before(F, f) \cap named(f)) = 0
      BY <2>2, FS_EmptySet
    <3> QED BY <3>1, <3>2, <3>3
  <2>5. slots(f) \subseteq m + 1 .. n
    <3> SUFFICES ASSUME NEW k \in 1 .. N, s[k] = f PROVE k \in m + 1 .. n
      OBVIOUS
    <3>1. m < k /\ k <= n /\ k \in Nat
      BY <1>1, <1>2
    <3> HIDE DEF m, n
    <3> QED BY <2>4, <3>1
  <2> HIDE DEF slots, named, m, n
  <2>6. IsFiniteSet(m + 1 .. n) /\ Cardinality(m + 1 .. n) = q
    <3>1. m + 1 \in Int /\ n \in Int
      BY <2>4
    <3>2. IsFiniteSet(m + 1 .. n) /\ Cardinality(m + 1 .. n) = IF m + 1 > n THEN 0 ELSE n - (m + 1) + 1
      BY <3>1, FS_Interval, Zenon
    <3> QED BY <2>4, <3>2
  <2>7. PICK g : g \in Bijection(m + 1 .. n, named(f))
    BY <2>3, <2>6, FS_SameCardinalityBij DEF ExistsBijection
  <2>8. g \in Injection(m + 1 .. n, named(f))
    BY <2>7 DEF Bijection
  <2> DEFINE h == [k \in slots(f) |-> g[k]]
  <2>9. h \in [slots(f) -> named(f)] /\ \A k, l \in slots(f) : h[k] = h[l] => k = l
    <3>1. /\ g \in [m + 1 .. n -> named(f)]
          /\ \A k, l \in m + 1 .. n : g[k] = g[l] => k = l
      BY <2>8, Fun_InjectionProperties
    <3>2. \A k \in slots(f) : k \in m + 1 .. n
      BY <2>5
    <3>3. \A k \in slots(f) : g[k] \in named(f)
      BY <3>1, <3>2
    <3>4. \A k, l \in slots(f) : g[k] = g[l] => k = l
      BY <3>1, <3>2
    <3> QED BY <3>3, <3>4
  <2> HIDE DEF h
  <2>10. h \in Injection(slots(f), named(f))
    BY <2>9, Fun_IsInj
  <2> QED BY <2>10
<1> DEFINE into(f) == CHOOSE g : g \in Injection(slots(f), named(f))
<1>4. \A f \in {x[2] : x \in F} : into(f) \in Injection(slots(f), named(f))
  BY <1>3
<1> HIDE DEF into
<1> DEFINE b == [k \in 1 .. N |-> into(s[k])[k]]
<1>5. ASSUME NEW k \in 1 .. N PROVE b[k] \in F /\ b[k][2] = s[k]
  <2>1. into(s[k]) \in [slots(s[k]) -> named(s[k])] /\ k \in slots(s[k])
    BY <1>2, <1>4 DEF Injection
  <2> QED BY <2>1
<1>6. ASSUME NEW k \in 1 .. N, NEW l \in 1 .. N, b[k] = b[l] PROVE k = l
  <2>1. s[k] = s[l]
    BY <1>5, <1>6
  <2>2. k \in slots(s[k]) /\ l \in slots(s[k]) /\ into(s[k])[k] = into(s[k])[l]
    BY <1>6, <2>1
  <2>3. \A i, j \in slots(s[k]) : into(s[k])[i] = into(s[k])[j] => i = j
    <3>1. into(s[k]) \in Injection(slots(s[k]), named(s[k]))
      BY <1>2, <1>4
    <3> HIDE DEF slots, named
    <3> QED BY <3>1, Fun_InjectionProperties
  <2> QED BY <2>2, <2>3
<1>7. b \in [1 .. N -> F]
  BY <1>5
<1> HIDE DEF b
<1> QED BY <1>5, <1>6, <1>7 DEF N, s

LEMMA ChunksApart ==
    ASSUME NEW p, NEW c \in Chunks(p), NEW d \in Chunks(p), NEW i, i \in c, i \in d
    PROVE  c = d
<1>1. PICK k \in Input(p) : c = ChunkAt(p, k)
  BY ChunksAre
<1>2. PICK l \in Input(p) : d = ChunkAt(p, l)
  BY ChunksAre
<1> QED BY <1>1, <1>2 DEF ChunkAt

(* A chunk that is worth rewriting has two marks. *)
LEMMA ChunkMarked ==
    ASSUME FilesOK, NEW p \in Partitions, NEW c \in Chunks(p)
    PROVE  \E y, z \in Marked(table.files[p]) : y # z /\ y[1] \in c /\ z[1] \in c
<1> DEFINE files == table.files[p]
<1>1. WorthRewriting(p, c) /\ c \subseteq Input(p)
  BY ChunksAre DEF ChunkAt
<1>2. \A i \in c : i \in DOMAIN files /\ (files[i].hit \/ Misfit(files[i]))
  BY <1>1 DEF Input, Places, Rewritable
<1>3. ASSUME NEW i \in c, NEW m \in MarkNames, m \in Marks(files[i])
      PROVE  <<i, m>> \in Marked(files) /\ <<i, m>>[1] = i /\ <<i, m>>[2] = m
  BY <1>2, <1>3 DEF Marked
<1>4. \A i \in c : \E m \in MarkNames : m \in Marks(files[i])
  BY <1>2 DEF Marks, MarkNames
<1>5. CASE Cardinality(c) > 1
  <2>1. IsFiniteSet(c)
    BY <1>1, FilesOf, InputType, FS_Subset
  <2>2. c # {}
    BY <1>5, FS_EmptySet
  <2>3. PICK i \in c : TRUE
    BY <2>2
  <2>4. c # {i}
    BY <1>5, FS_Singleton
  <2>5. PICK j \in c : j # i
    BY <2>3, <2>4
  <2>6. PICK m \in MarkNames : m \in Marks(files[i])
    BY <1>4
  <2>7. PICK l \in MarkNames : l \in Marks(files[j])
    BY <1>4
  <2>8. /\ <<i, m>> \in Marked(files) /\ <<i, m>>[1] = i
        /\ <<j, l>> \in Marked(files) /\ <<j, l>>[1] = j
    BY <1>3, <2>6, <2>7
  <2>9. <<i, m>> # <<j, l>>
    BY <2>5
  <2> QED BY <2>8, <2>9
<1>6. ASSUME NEW i \in c, files[i].hit \/ IsLarge(files[i])
      PROVE  \E m, l \in MarkNames : m # l /\ m \in Marks(files[i]) /\ l \in Marks(files[i])
  <2>1. CASE files[i].hit
    <3>1. "hit" \in Marks(files[i]) /\ "rows" \in Marks(files[i]) /\ "hit" # "rows"
      BY <2>1 DEF Marks, MarkNames
    <3> QED BY <3>1 DEF MarkNames
  <2>2. CASE IsLarge(files[i])
    <3>1. "misfit" \in Marks(files[i]) /\ "large" \in Marks(files[i]) /\ "misfit" # "large"
      BY <2>2 DEF Marks, MarkNames, Misfit
    <3> QED BY <3>1 DEF MarkNames
  <2> QED BY <1>6, <2>1, <2>2
<1>7. CASE \E i \in c : files[i].hit \/ IsLarge(files[i])
  <2>1. PICK i \in c : files[i].hit \/ IsLarge(files[i])
    BY <1>7
  <2>2. PICK m \in MarkNames, l \in MarkNames : m # l /\ m \in Marks(files[i]) /\ l \in Marks(files[i])
    BY <1>6, <2>1
  <2>3. /\ <<i, m>> \in Marked(files) /\ <<i, m>>[1] = i
        /\ <<i, l>> \in Marked(files) /\ <<i, l>>[1] = i
    BY <1>3, <2>2
  <2>4. <<i, m>> # <<i, l>>
    BY <2>2
  <2> QED BY <2>3, <2>4
<1> QED BY <1>1, <1>5, <1>7 DEF WorthRewriting

(* Of what is written, only the last file can be small, and none is large. *)
LEMMA RolledMarks ==
    ASSUME NEW size \in Nat, NEW n \in DOMAIN Rolled(size), NEW m, m \in Marks(Rolled(size)[n])
    PROVE  m = "misfit" /\ n = (size + Target - 1) \div Target
<1> DEFINE N == (size + Target - 1) \div Target
           f == Rolled(size)[n]
<1>1. Target \in Nat /\ 1 <= Target /\ SmallBelow \in Nat /\ SmallBelow <= Target
      /\ LargeAbove \in Nat /\ Target < LargeAbove
  BY Thresholds
<1>2. /\ size + Target - 1 \in Nat /\ N \in Nat /\ (size + Target - 1) % Target \in Nat
      /\ size + Target - 1 = Target * N + ((size + Target - 1) % Target)
      /\ size % Target \in Nat /\ size % Target < Target
  BY <1>1, Division
<1> HIDE DEF N
<1>3. n \in 1 .. N /\ f = [size |-> IF n * Target <= size THEN Target ELSE size % Target, hit |-> FALSE]
  BY DEF Rolled, N
<1>4. f.hit = FALSE /\ ~ IsLarge(f)
  BY <1>1, <1>2, <1>3 DEF IsLarge
<1>5. m = "misfit" /\ IsSmall(f)
  BY <1>4 DEF Marks, Misfit
<1>6. ~ (n * Target <= size)
  BY <1>1, <1>3, <1>5 DEF IsSmall
<1>7. ASSUME n < N PROVE FALSE
  <2>1. n \in Nat /\ n + 1 <= N
    BY <1>2, <1>3, <1>7
  <2>2. (n + 1) * Target <= N * Target /\ (n + 1) * Target = n * Target + Target /\ n * Target \in Nat
        /\ N * Target = Target * N /\ N * Target \in Nat
    BY <1>1, <1>2, <2>1, Times
  <2> QED BY <1>1, <1>2, <1>6, <2>2
<1> QED BY <1>2, <1>3, <1>5, <1>7 DEF N

(* Rewriting chunks of a partition leaves it less to be rewritten.          *)
LEMMA RewriteEases ==
    ASSUME TypeOK, NEW keys \in SUBSET Partitions, NEW done \in SUBSET Groups(keys), NEW p \in Partitions, NEW toll \in Tolls
    PROVE  /\ Burden(FilesAfter(p, done, toll)) \in 0 .. Burden(table.files[p])
           /\ Done(p, done) # {} => Burden(FilesAfter(p, done, toll)) # Burden(table.files[p])
<1> DEFINE D == Done(p, done)
           old == table.files[p]
           new == FilesAfter(p, done, toll)
           F == Left(p, UNION D) \cup UNION {OutOf(p, c, toll) : c \in D}
           N == Cardinality(F)
<1>1. FilesOK /\ old \in Seq(File) /\ Places(p) = DOMAIN old
  BY DeleteType, FilesOf DEF Places
<1>2. /\ new \in Seq(File) /\ Pairs(F) /\ new = BySize(F)
      /\ DOMAIN new = 1 .. N
  <2>1. new \in Seq(File) /\ Pairs(F)
    BY AfterType
  <2>2. new = BySize(F)
    BY FilesAfterAre
  <2> HIDE DEF new, F
  <2>3. Len(new) = N
    BY <2>1, <2>2, PutInOrder
  <2> QED BY <2>1, <2>2, <2>3
<1>3. D \subseteq Chunks(p)
  BY DoneAre
<1> HIDE DEF D, new, F, N
<1>4. PICK b \in [1 .. N -> F] :
        /\ \A k \in 1 .. N : new[k] = b[k][2]
        /\ \A k, l \in 1 .. N : b[k] = b[l] => k = l
  <2>1. \E b \in [1 .. N -> F] :
          /\ \A k \in 1 .. N : BySize(F)[k] = b[k][2]
          /\ \A k, l \in 1 .. N : b[k] = b[l] => k = l
    BY <1>2, PlacesApart DEF N
  <2> QED BY <1>2, <2>1
(* Where a file comes from: its place before, or the chunk it was read in.  *)
<1> DEFINE kept(k, i) == i \in Places(p) \ UNION D /\ b[k] = <<<<{i}, 0>>, old[i]>>
           wrote(k, c) == c \in D /\ \E n \in DOMAIN Rewritten(p, c, toll) :
                                        b[k] = <<<<c, n>>, Rewritten(p, c, toll)[n]>>
           last(c) == (BytesOf(p, c) - Taken(p, c, toll) + Target - 1) \div Target
<1>5. \A k \in 1 .. N : (\E i : kept(k, i)) \/ (\E c : wrote(k, c))
  BY <1>4 DEF F, Left, OutOf
<1>6. ASSUME NEW y \in Marked(new)
      PROVE  y[1] \in 1 .. N /\ y[2] \in MarkNames /\ y[2] \in Marks(new[y[1]]) /\ y = <<y[1], y[2]>>
  BY <1>2 DEF Marked
<1>7. ASSUME NEW y \in Marked(new), NEW i, kept(y[1], i) PROVE <<i, y[2]>> \in Marked(old)
  <2>1. new[y[1]] = old[i] /\ i \in DOMAIN old
    BY <1>1, <1>4, <1>6, <1>7
  <2> QED BY <1>6, <2>1 DEF Marked
<1>8. ASSUME NEW y \in Marked(new), NEW c, wrote(y[1], c)
      PROVE  y[2] = "misfit" /\ b[y[1]] = <<<<c, last(c)>>, Rewritten(p, c, toll)[last(c)]>>
  <2>1. PICK n \in DOMAIN Rewritten(p, c, toll) : b[y[1]] = <<<<c, n>>, Rewritten(p, c, toll)[n]>>
    BY <1>8
  <2>2. BytesOf(p, c) - Taken(p, c, toll) \in Nat
    BY RewrittenType
  <2>3. y[2] \in Marks(Rewritten(p, c, toll)[n])
    BY <1>4, <1>6, <2>1
  <2>4. y[2] = "misfit" /\ n = last(c)
    BY <2>1, <2>2, <2>3, RolledMarks DEF Rewritten
  <2> QED BY <2>1, <2>4
<1> DEFINE one(c) == CHOOSE y \in Marked(old) : y[1] \in c
           two(c) == CHOOSE y \in Marked(old) : y[1] \in c /\ y # one(c)
<1>9. ASSUME NEW c \in D
      PROVE  /\ one(c) \in Marked(old) /\ one(c)[1] \in c
             /\ two(c) \in Marked(old) /\ two(c)[1] \in c /\ two(c) # one(c)
  <2>1. PICK y \in Marked(old), z \in Marked(old) : y # z /\ y[1] \in c /\ z[1] \in c
    BY <1>1, <1>3, ChunkMarked
  <2>2. one(c) \in Marked(old) /\ one(c)[1] \in c
    BY <2>1
  <2>3. \E w \in Marked(old) : w[1] \in c /\ w # one(c)
    BY <2>1
  <2> HIDE DEF one
  <2>4. two(c) \in Marked(old) /\ two(c)[1] \in c /\ two(c) # one(c)
    BY <2>3
  <2> QED BY <2>2, <2>4
<1>10. ASSUME NEW c \in D, NEW d \in D, NEW i, i \in c, i \in d PROVE c = d
  BY <1>3, <1>10, ChunksApart
<1> HIDE DEF one, two, last
<1> DEFINE from(y) == IF \E i : kept(y[1], i) THEN <<CHOOSE i : kept(y[1], i), y[2]>>
                      ELSE one(CHOOSE c : wrote(y[1], c))
           h == [y \in Marked(new) |-> from(y)]
<1>11. ASSUME NEW y \in Marked(new)
       PROVE  \/ \E i : kept(y[1], i) /\ h[y] = <<i, y[2]>>
              \/ \E c \in D : wrote(y[1], c) /\ h[y] = one(c)
  <2> HIDE DEF kept
  <2>1. CASE \E i : kept(y[1], i)
    <3>1. kept(y[1], CHOOSE i : kept(y[1], i))
      BY <2>1
    <3> QED BY <2>1, <3>1
  <2>2. CASE ~ \E i : kept(y[1], i)
    <3>1. \E c : wrote(y[1], c)
      BY <1>5, <1>6, <2>2
    <3> DEFINE c == CHOOSE c : wrote(y[1], c)
    <3>2. wrote(y[1], c)
      <4> HIDE DEF wrote
      <4> QED BY <3>1
    <3>3. h[y] = one(c)
      BY <2>2
    <3>4. c \in D
      BY <3>2
    <3> HIDE DEF c, h, wrote
    <3> QED BY <3>2, <3>3, <3>4
  <2> QED BY <2>1, <2>2
<1> HIDE DEF h, from
<1> USE DEF kept
<1>12. ASSUME NEW y \in Marked(new)
       PROVE  \/ \E i \in DOMAIN old \ UNION D : b[y[1]] = <<<<{i}, 0>>, old[i]>> /\ h[y] = <<i, y[2]>> /\ h[y] \in Marked(old)
              \/ \E c \in D : /\ h[y] = one(c) /\ h[y] \in Marked(old) /\ h[y][1] \in c
                             /\ y[2] = "misfit" /\ b[y[1]] = <<<<c, last(c)>>, Rewritten(p, c, toll)[last(c)]>>
  <2>1. ASSUME NEW i, kept(y[1], i), h[y] = <<i, y[2]>>
        PROVE  /\ i \in DOMAIN old \ UNION D /\ b[y[1]] = <<<<{i}, 0>>, old[i]>> 
               /\ h[y] = <<i, y[2]>> /\ h[y] \in Marked(old)
    BY <1>1, <1>7, <2>1
  <2> HIDE DEF kept, wrote
  <2>2. ASSUME NEW c \in D, wrote(y[1], c), h[y] = one(c)
        PROVE  /\ h[y] = one(c) /\ h[y] \in Marked(old) /\ h[y][1] \in c
               /\ y[2] = "misfit" /\ b[y[1]] = <<<<c, last(c)>>, Rewritten(p, c, toll)[last(c)]>>
    <3>1. one(c) \in Marked(old) /\ one(c)[1] \in c
      BY <1>9
    <3>2. y[2] = "misfit" /\ b[y[1]] = <<<<c, last(c)>>, Rewritten(p, c, toll)[last(c)]>>
      BY <1>8, <2>2
    <3> QED BY <2>2, <3>1, <3>2
  <2>3. CASE \E i : kept(y[1], i) /\ h[y] = <<i, y[2]>>
    <3>1. PICK i : kept(y[1], i) /\ h[y] = <<i, y[2]>>
      BY <2>3
    <3> QED BY <2>1, <3>1
  <2>4. CASE \E c \in D : wrote(y[1], c) /\ h[y] = one(c)
    <3>1. PICK c \in D : wrote(y[1], c) /\ h[y] = one(c)
      BY <2>4
    <3> QED BY <2>2, <3>1
  <2> QED BY <1>11, <2>3, <2>4
<1> HIDE DEF kept, wrote
<1>13. h \in [Marked(new) -> Marked(old)]
  <2>1. \A y \in Marked(new) : h[y] \in Marked(old)
    BY <1>12
  <2>2. h = [y \in Marked(new) |-> h[y]]
    BY DEF h
  <2> QED BY <2>1, <2>2
<1>14. h \in Injection(Marked(new), Marked(old))
  <2> SUFFICES ASSUME NEW y \in Marked(new), NEW z \in Marked(new), h[y] = h[z] PROVE y = z
    BY <1>13, Fun_IsInj
  <2>1. b[y[1]] = b[z[1]] /\ y[2] = z[2] => y = z
    <3>1. y[1] \in 1 .. N /\ y = <<y[1], y[2]>> /\ z[1] \in 1 .. N /\ z = <<z[1], z[2]>>
      BY <1>6
    <3> QED BY <1>4, <3>1
  <2>2. ASSUME NEW i \in DOMAIN old \ UNION D, NEW c \in D, NEW m, h[y] = <<i, m>> \/ h[z] = <<i, m>>, h[y][1] \in c \/ h[z][1] \in c
        PROVE  FALSE
    BY <2>2
  <2>3. CASE \E c \in D : h[y] = one(c) /\ h[y][1] \in c /\ y[2] = "misfit" /\ b[y[1]] = <<<<c, last(c)>>, Rewritten(p, c, toll)[last(c)]>>
    <3>1. PICK c \in D : h[y] = one(c) /\ h[y][1] \in c /\ y[2] = "misfit" /\ b[y[1]] = <<<<c, last(c)>>, Rewritten(p, c, toll)[last(c)]>>
      BY <2>3
    <3>2. PICK d \in D : h[z] = one(d) /\ h[z][1] \in d /\ z[2] = "misfit" /\ b[z[1]] = <<<<d, last(d)>>, Rewritten(p, d, toll)[last(d)]>>
      BY <1>12, <2>2, <3>1
    <3>3. c = d
      BY <1>10, <3>1, <3>2
    <3> QED BY <2>1, <3>1, <3>2, <3>3
  <2>4. CASE \E i \in DOMAIN old \ UNION D : b[y[1]] = <<<<{i}, 0>>, old[i]>> /\ h[y] = <<i, y[2]>>
    <3>1. PICK i \in DOMAIN old \ UNION D : b[y[1]] = <<<<{i}, 0>>, old[i]>> /\ h[y] = <<i, y[2]>>
      BY <2>4
    <3>2. PICK j \in DOMAIN old \ UNION D : b[z[1]] = <<<<{j}, 0>>, old[j]>> /\ h[z] = <<j, z[2]>>
      BY <1>12, <2>2, <3>1
    <3>3. <<i, y[2]>> = <<j, z[2]>>
      BY <3>1, <3>2
    <3>4. i = j /\ y[2] = z[2]
      BY <3>3
    <3> QED BY <2>1, <3>1, <3>2, <3>4
  <2> QED BY <1>12, <2>3, <2>4
<1>15. /\ IsFiniteSet(Marked(old)) /\ Burden(old) \in Nat /\ Burden(new) \in Nat
  BY <1>1, <1>2, BurdenType
<1>16. Burden(new) <= Burden(old) /\ (Burden(new) = Burden(old) <=> h \in Surjection(Marked(new), Marked(old)))
  BY <1>14, <1>15, FS_Injection DEF Burden
<1>17. ASSUME NEW c \in D, h \in Surjection(Marked(new), Marked(old)) PROVE FALSE
  <2>1. two(c) \in Marked(old)
    BY <1>9
  <2>2. PICK y \in Marked(new) : h[y] = two(c)
    BY <1>17, <2>1, Fun_SurjectionProperties
  <2>3. two(c)[1] \in c /\ two(c) # one(c)
    BY <1>9
  <2>4. ASSUME NEW i \in DOMAIN old \ UNION D, h[y] = <<i, y[2]>> PROVE FALSE
    BY <2>2, <2>3, <2>4
  <2>5. ASSUME NEW d \in D, h[y] = one(d), h[y][1] \in d PROVE FALSE
    <3>1. c = d
      BY <1>10, <2>2, <2>3, <2>5
    <3> QED BY <2>2, <2>3, <2>5, <3>1
  <2> QED BY <1>12, <2>4, <2>5
<1>18. Burden(new) \in 0 .. Burden(old)
  BY <1>15, <1>16
<1>19. D # {} => Burden(new) # Burden(old)
  BY <1>16, <1>17
<1> QED BY <1>18, <1>19 DEF new, D

LEMMA RunEases ==
    ASSUME Inv, Run
    PROVE  /\ Easing
           /\ RoomForTwo /\ plan.fresh /\ counts' = counts => \A p \in plan.targets : Progress(p)
<1>0. TypeOK /\ (\A q \in Partitions : Sorted(table.files[q])) /\ table \in Tables
      /\ FilesOK /\ counts \in [writes : Nat, failures : Nat]
  BY DeleteType DEF Inv, TypeOK
<1>1. plan # NoPlan
  BY DEF Run
<1>2. PICK failed \in SUBSET Groups(plan.targets), toll \in Tolls, swept \in BOOLEAN :
        LET done == Groups(plan.targets) \ failed
            failures == counts.failures + Cardinality(failed) + (IF swept THEN 0 ELSE 1)
        IN  /\ failures <= MaxFailures
            /\ table' = [table EXCEPT
                    !.files = [p \in Partitions |-> FilesAfter(p, done, toll)],
                    !.delete = DeleteAfter(done, swept)]
            /\ hot' = hot \cup {g[1] : g \in {d \in done : Rewritten(d[1], d[2], toll) # <<>>}}
            /\ counts' = [counts EXCEPT !.failures = failures]
  BY DEF Run
<1> DEFINE done == Groups(plan.targets) \ failed
           swift == DeleteAfter(done, swept)
           failures == counts.failures + Cardinality(failed) + (IF swept THEN 0 ELSE 1)
<1>3. table' = [table EXCEPT !.files = [p \in Partitions |-> FilesAfter(p, done, toll)], !.delete = swift]
      /\ counts' = [counts EXCEPT !.failures = failures]
  BY <1>2
<1>4. plan.targets \in SUBSET Partitions
  BY <1>0, <1>1 DEF TypeOK, Plans
<1>5. done \in SUBSET Groups(plan.targets) /\ IsFiniteSet(failed) /\ Cardinality(failed) \in Nat
  BY <1>0, <1>4, GroupsFinite, FS_Subset, FS_CardinalityType
<1> HIDE DEF done, swift
<1>6. table'.delete = swift /\ \A p \in Partitions : table'.files[p] = FilesAfter(p, done, toll)
  BY <1>0, <1>3 DEF Tables
<1>7. ASSUME NEW p \in Partitions
      PROVE  /\ Burden(table'.files[p]) \in 0 .. Burden(table.files[p])
             /\ Done(p, done) # {} => Burden(table'.files[p]) # Burden(table.files[p])
  BY <1>0, <1>4, <1>5, <1>6, RewriteEases
<1>8. ASSUME NEW p \in Partitions, Done(p, done) = {} PROVE table'.files[p] = table.files[p]
  BY <1>0, <1>6, <1>8, Untouched
<1>9. table.delete = NoDelete => table'.delete = NoDelete
  BY <1>6 DEF swift, DeleteAfter
<1>12. ASSUME NEW p \in Partitions, Done(p, done) # {} PROVE Burden(table'.files[p]) < Burden(table.files[p])
  <2>1. Burden(table'.files[p]) \in 0 .. Burden(table.files[p]) /\ Burden(table'.files[p]) # Burden(table.files[p])
    BY <1>7, <1>12
  <2>2. Burden(table.files[p]) \in Nat
    BY <1>0, FilesOf, BurdenType
  <2> QED BY <2>1, <2>2
<1>10. Easing
  BY <1>8, <1>9, <1>12 DEF Easing
<1>11. ASSUME RoomForTwo, plan.fresh, counts' = counts, NEW p \in plan.targets PROVE Progress(p)
  <2>1. failed = {} /\ swept
    <3>1. failures = counts.failures
      BY <1>0, <1>3, <1>11
    <3>2. Cardinality(failed) = 0 /\ swept
      BY <1>0, <1>5, <3>1
    <3> QED BY <1>5, <3>2, FS_EmptySet
  <2>2. done = Groups(plan.targets)
    BY <2>1 DEF done
  <2>3. p \in Partitions /\ p.spec = table.spec /\ Triggered(p)
    BY <1>1, <1>4, <1>11 DEF Inv, PlanOK
  <2>4. Chunks(p) # {} \/ (ByDeletes(p) /\ ~ StillHits({})) \/ Lingers(p)
    BY <1>0, <1>11, <2>3, DeleteType, Promised
  <2>5. CASE Chunks(p) # {}
    <3>1. PICK c \in Chunks(p) : TRUE
      BY <2>5
    <3>2. <<p, c>> \in done
      BY <1>11, <2>2, <2>3, GroupsAre
    <3>3. <<p, c>>[1] = p
      OBVIOUS
    <3>4. Done(p, done) # {}
      BY <3>2, <3>3 DEF Done
    <3> QED BY <1>12, <2>3, <3>4 DEF Progress
  <2>6. CASE ByDeletes(p) /\ ~ StillHits({})
    <3>1. \A q : Done(q, {}) = {}
      BY DEF Done
    <3>2. ~ StillHits(done)
      BY <2>6, <3>1 DEF StillHits
    <3>3. swift = NoDelete
      BY <2>1, <3>2 DEF swift, DeleteAfter
    <3> QED BY <1>6, <2>6, <3>3 DEF ByDeletes, Progress
  <2> QED BY <2>4, <2>5, <2>6 DEF Progress
<1> QED BY <1>10, <1>11

LEMMA StepsEase == ASSUME Inv, Next, counts'.writes = counts.writes PROVE Easing
<1>1. CASE Run
  BY <1>1, RunEases
<1>2. ASSUME Write PROVE FALSE
  BY <1>2, WritesCounted
<1>3. CASE Plan \/ Refuse \/ (\E q \in Partitions : Cool(q))
  <2>1. table' = table
    BY <1>3 DEF Plan, Refuse, Cool
  <2> QED BY <2>1 DEF Easing
<1> QED BY <1>1, <1>2, <1>3 DEF Next

(* A run that ends on a table as it was planned ends by running.            *)
LEMMA FreshRuns ==
    ASSUME Inv, Next, counts'.writes = counts.writes, RunEnds, plan.fresh
    PROVE  Run \/ plan.targets = {}
<1>1. plan # NoPlan /\ plan' = NoPlan
  BY DEF RunEnds
<1>2. CASE Refuse
  BY <1>1, <1>2 DEF Refuse, Inv, PlanOK
<1>3. ~ Plan /\ ~ \E p \in Partitions : Cool(p)
  BY <1>1 DEF Plan, Cool
<1>4. ~ Write
  BY WritesCounted
<1> QED BY <1>2, <1>3, <1>4 DEF Next

(* Why maintenance settles, for any thresholds, ratios and file sizes.      *)
(* Between two changes of the writers no delete file appears and a          *)
(* partition's burden shrinks whenever its files change, whatever fails.    *)
THEOREM NothingIsRedone == Spec => [][counts'.writes = counts.writes => Easing]_vars
<1>1. Inv /\ [Next]_vars => [counts'.writes = counts.writes => Easing]_vars
  BY StepsEase
<1> QED
  BY <1>1, InitInv, NextInv, PTL DEF Spec

(* And if a group has room for two small files, a run of a plan that is     *)
(* still fresh, if none of its groups and no sweep fails, eases every       *)
(* partition of its plan or retires a delete file, but where deletes        *)
(* linger: no partition is compacted over and over (planner.rs, analyze.rs  *)
(* and compact/mod.rs agree on when to stop).                               *)
THEOREM UpkeepWindsDown ==
    ASSUME RoomForTwo
    PROVE  Spec => RunsEase
<1>1. Inv /\ [Next]_vars => [counts'.writes = counts.writes =>
            /\ Easing
            /\ RunEnds /\ plan.fresh /\ counts' = counts => \A p \in plan.targets : Progress(p)]_vars
  BY StepsEase, FreshRuns, RunEases
<1> QED
  BY <1>1, InitInv, NextInv, PTL DEF Spec, RunsEase
=============================================================================
