---------------------------- MODULE NamingProofs ----------------------------
(***************************************************************************)
(* What differs is written differently: tables, partitions and the labels  *)
(* of their fields, for texts of any length; a pattern that spells a table *)
(* matches no other; and a ** behind a literal prefix matches all that     *)
(* another pattern with that prefix does.                                  *)
(*                                                                         *)
(* Texts are written piece by piece, by a fold.  What a fold writes for    *)
(* every text is shown by induction over sets: a set of texts that holds   *)
(* the empty one, and with a text's tail the text, holds them all          *)
(* (TailInduction), because a set of numbers has a least (MinIsLeast).     *)
(***************************************************************************)
EXTENDS Naming, FiniteSetTheorems, WellFoundedInduction, SequenceTheorems, TLAPS

(* A set of numbers that is not empty has a least: the numbers up to it are *)
(* smallest among the finite sets of that form.                             *)
LEMMA MinIsLeast ==
    ASSUME NEW S \in SUBSET Nat, S # {}
    PROVE  Min(S) \in S /\ \A y \in S : Min(S) <= y
<1> DEFINE Initial == {0 .. x : x \in S}
<1>1. IsWellFoundedOn(StrictSubsetOrdering(Nat), FiniteSubsetsOf(Nat))
  BY FS_StrictSubsetOrderingWellFounded, Zenon
<1>2. ASSUME NEW x \in S PROVE 0 .. x \in FiniteSubsetsOf(Nat)
  <2>1. IsFiniteSet(0 .. x) /\ 0 .. x \in SUBSET Nat
    BY FS_Interval
  <2> QED
    BY <2>1, Zenon DEF FiniteSubsetsOf
<1>3. Initial \subseteq FiniteSubsetsOf(Nat) /\ Initial # {}
  BY <1>2, Zenon
<1>4. PICK s \in Initial : \A r \in Initial : ~(<<r, s>> \in StrictSubsetOrdering(Nat))
  BY <1>1, <1>3, WFMin, Zenon
<1>5. PICK x \in S : s = 0 .. x
  OBVIOUS
<1>6. ASSUME NEW y \in S PROVE x <= y
  <2>0. ~(<<0 .. y, 0 .. x>> \in StrictSubsetOrdering(Nat))
    BY <1>4, <1>5, Zenon
  <2>1. 0 .. y \subseteq 0 .. x => 0 .. y = 0 .. x
    BY <2>0 DEF StrictSubsetOrdering
  <2>2. y < x => 0 .. y \subseteq 0 .. x /\ x \in 0 .. x /\ x \notin 0 .. y
    OBVIOUS
  <2> QED
    BY <2>1, <2>2
<1> QED
  BY <1>6 DEF Min

(* Induction, over a set of numbers.                                        *)
LEMMA Upwards ==
    ASSUME NEW S \in SUBSET Nat, 0 \in S, \A n \in S : n + 1 \in S
    PROVE  \A n \in Nat : n \in S
<1> SUFFICES ASSUME Nat \ S # {} PROVE FALSE
  OBVIOUS
<1>1. Nat \ S \in SUBSET Nat
  OBVIOUS
<1>2. Min(Nat \ S) \in Nat \ S /\ \A y \in Nat \ S : Min(Nat \ S) <= y
  BY <1>1, MinIsLeast
<1>3. PICK m \in Nat \ S : \A y \in Nat \ S : m <= y
  BY <1>2
<1>4. m # 0 /\ m - 1 \in Nat
  BY <1>3
<1>5. m - 1 \in S
  BY <1>3, <1>4
<1>6. (m - 1) + 1 = m
  BY <1>3
<1> QED
  BY <1>3, <1>5, <1>6

-----------------------------------------------------------------------------
(* Concatenation *)

(* One piece for every element of a text.                                   *)
LEMMA Pieces ==
    ASSUME NEW S, NEW U, NEW code \in [S -> U], NEW text \in Seq(S)
    PROVE  /\ [i \in DOMAIN text |-> code[text[i]]] \in Seq(U)
           /\ Len([i \in DOMAIN text |-> code[text[i]]]) = Len(text)
<1> DEFINE n == Len(text)
           pieces == [i \in DOMAIN text |-> code[text[i]]]
<1>1. n \in Nat /\ DOMAIN text = 1 .. n /\ \A i \in 1 .. n : text[i] \in S
  BY LenProperties
<1> HIDE DEF n
<1>2. \A i \in 1 .. n : code[text[i]] \in U
  BY <1>1
<1>3. pieces = [i \in 1 .. n |-> code[text[i]]]
  BY <1>1
<1>4. pieces \in [1 .. n -> U]
  BY <1>2, <1>3
<1> HIDE DEF pieces
<1>5. pieces \in Seq(U) /\ Len(pieces) = n
  BY <1>1, <1>4
<1> QED
  BY <1>5 DEF pieces, n

Each(code, text) == [i \in DOMAIN text |-> code[text[i]]]

LEMMA EachType ==
    ASSUME NEW S, NEW U, NEW code \in [S -> U], NEW text \in Seq(S)
    PROVE  Each(code, text) \in Seq(U) /\ Len(Each(code, text)) = Len(text)
  BY Pieces DEF Each

LEMMA AllPieces ==
    ASSUME NEW S, NEW U, NEW code \in [S -> U]
    PROVE  \A text \in Seq(S) :
            [i \in DOMAIN text |-> code[text[i]]] \in Seq(U) /\ Len([i \in DOMAIN text |-> code[text[i]]]) = Len(text)
  BY Pieces

LEMMA Associative == \A T : \A a, b, c \in Seq(T) : (a \o b) \o c = a \o (b \o c)
  BY ConcatAssociative

(* What has been concatenated after each of the first n pieces.             *)
Partials(f, pieces, n, T) ==
    /\ f \in [0 .. n -> Seq(T)]
    /\ f[0] = <<>>
    /\ \A i \in 0 .. n - 1 : f[i + 1] = f[i] \o pieces[i + 1]

LEMMA Concatenable ==
    ASSUME NEW T, NEW pieces \in Seq(Seq(T))
    PROVE  \E f : Partials(f, pieces, Len(pieces), T)
<1> DEFINE N == Len(pieces)
           Can(n) == \E f : Partials(f, pieces, n, T)
           S == {n \in Nat : n <= N => Can(n)}
<1>0. N \in Nat /\ \A i \in 1 .. N : pieces[i] \in Seq(T)
  OBVIOUS
<1> HIDE DEF N
<1>1. Can(0)
  <2> DEFINE f == [i \in 0 .. 0 |-> <<>>]
  <2>1. f \in [0 .. 0 -> Seq(T)] /\ f[0] = <<>>
    OBVIOUS
  <2>2. Partials(f, pieces, 0, T)
    BY <2>1 DEF Partials
  <2> QED
    BY <2>2
<1>2. ASSUME NEW n \in Nat, n + 1 <= N, Can(n) PROVE Can(n + 1)
  <2>1. PICK g : Partials(g, pieces, n, T)
    BY <1>2
  <2> DEFINE f == [i \in 0 .. n + 1 |-> IF i = n + 1 THEN g[n] \o pieces[n + 1] ELSE g[i]]
  <2>2. g[n] \in Seq(T) /\ pieces[n + 1] \in Seq(T)
    BY <1>0, <1>2, <2>1 DEF Partials
  <2>3. g[n] \o pieces[n + 1] \in Seq(T)
    BY <2>2
  <2>4. f \in [0 .. n + 1 -> Seq(T)]
    <3>1. \A i \in 0 .. n + 1 : i # n + 1 => g[i] \in Seq(T)
      BY <2>1 DEF Partials
    <3> QED
      BY <2>3, <3>1
  <2>5. f[0] = <<>>
    BY <2>1 DEF Partials
  <2>6. ASSUME NEW i \in 0 .. n PROVE f[i + 1] = f[i] \o pieces[i + 1]
    <3>1. f[i] = g[i] /\ i + 1 \in 0 .. n + 1
      OBVIOUS
    <3>2. CASE i = n
      BY <3>1, <3>2
    <3>3. CASE i # n
      <4>1. i \in 0 .. n - 1 /\ f[i + 1] = g[i + 1]
        BY <3>3
      <4> QED
        BY <2>1, <3>1, <4>1 DEF Partials
    <3> QED
      BY <3>2, <3>3
  <2> HIDE DEF f
  <2>7. (n + 1) - 1 = n
    OBVIOUS
  <2>8. Partials(f, pieces, n + 1, T)
    BY <2>4, <2>5, <2>6, <2>7 DEF Partials
  <2> QED
    BY <2>8
<1> HIDE DEF Can
<1>3. \A n \in Nat : n \in S
  <2>1. 0 \in S
    BY <1>1
  <2>2. \A n \in S : n + 1 \in S
    BY <1>0, <1>2
  <2> HIDE DEF S
  <2>3. S \in SUBSET Nat
    BY DEF S
  <2> QED
    BY <2>1, <2>2, <2>3, Upwards
<1> QED
  BY <1>0, <1>3 DEF Can, N

LEMMA Flattened ==
    ASSUME NEW T, NEW pieces \in Seq(Seq(T)), NEW f, Partials(f, pieces, Len(pieces), T)
    PROVE  FlattenSeq(pieces) = f[Len(pieces)]
<1> DEFINE N == Len(pieces)
<1>0. N \in Nat /\ \A i \in 1 .. N : pieces[i] \in Seq(T)
  OBVIOUS
<1>1. CASE N = 0
  <2>1. pieces = <<>> /\ FlattenSeq(pieces) = pieces
    BY <1>1 DEF FlattenSeq
  <2> QED
    BY <1>1, <2>1 DEF Partials
<1>2. CASE N # 0
  <2> DEFINE Eq(g) == g = [i \in 1 .. N |-> IF i = 1 THEN pieces[i] ELSE g[i - 1] \o pieces[i]]
             flat == CHOOSE g : Eq(g)
             h == [i \in 1 .. N |-> f[i]]
  <2>1. FlattenSeq(pieces) = flat[N]
    BY <1>2 DEF FlattenSeq
  <2>2. f[1] = pieces[1]
    <3>1. 0 \in 0 .. N - 1 /\ 0 + 1 = 1
      BY <1>0, <1>2
    <3>2. f[0 + 1] = f[0] \o pieces[0 + 1] /\ f[0] = <<>>
      BY <3>1 DEF Partials
    <3>3. pieces[1] \in Seq(T)
      BY <1>0, <1>2
    <3> HIDE DEF N
    <3> QED
      BY <3>1, <3>2, <3>3
  <2>3. ASSUME NEW i \in 1 .. N, i # 1 PROVE f[i] = f[i - 1] \o pieces[i]
    <3>1. i - 1 \in 0 .. N - 1 /\ (i - 1) + 1 = i
      BY <1>0, <2>3
    <3>2. f[(i - 1) + 1] = f[i - 1] \o pieces[(i - 1) + 1]
      BY <3>1 DEF Partials
    <3> QED
      BY <3>1, <3>2
  <2> HIDE DEF N
  <2>4. Eq(h)
    <3>1. ASSUME NEW i \in 1 .. N PROVE h[i] = IF i = 1 THEN pieces[i] ELSE h[i - 1] \o pieces[i]
      <4>1. i # 1 => i - 1 \in 1 .. N
        BY <1>0
      <4> QED
        BY <2>2, <2>3, <4>1
    <3> QED
      BY <3>1
  <2>5. Eq(flat)
    BY <2>4
  <2> HIDE DEF flat
  <2> DEFINE S == {n \in Nat : n + 1 <= N => flat[n + 1] = f[n + 1]}
  <2>6. 0 \in S
    <3>1. flat[1] = pieces[1]
      BY <1>0, <1>2, <2>5
    <3> QED
      BY <2>2, <3>1
  <2>7. ASSUME NEW n \in S PROVE n + 1 \in S
    <3> SUFFICES ASSUME (n + 1) + 1 <= N PROVE flat[(n + 1) + 1] = f[(n + 1) + 1]
      OBVIOUS
    <3>1. flat[n + 1] = f[n + 1]
      BY <1>0
    <3>2. (n + 1) + 1 \in 1 .. N /\ (n + 1) + 1 # 1 /\ ((n + 1) + 1) - 1 = n + 1
      BY <1>0
    <3>3. flat[(n + 1) + 1] = flat[n + 1] \o pieces[(n + 1) + 1]
      BY <2>5, <3>2
    <3>4. f[(n + 1) + 1] = f[n + 1] \o pieces[(n + 1) + 1]
      BY <2>3, <3>2
    <3> QED
      BY <3>1, <3>3, <3>4
  <2>8. N - 1 \in Nat /\ (N - 1) + 1 = N
    BY <1>0, <1>2
  <2>9. N - 1 \in S
    <3> HIDE DEF S
    <3>1. S \in SUBSET Nat
      BY DEF S
    <3> QED
      BY <2>6, <2>7, <2>8, <3>1, Upwards
  <2>10. flat[N] = f[N]
    BY <1>0, <2>8, <2>9
  <2> QED
    BY <2>1, <2>10 DEF N
<1> QED
  BY <1>1, <1>2

LEMMA FlattenType ==
    ASSUME NEW T, NEW pieces \in Seq(Seq(T))
    PROVE  FlattenSeq(pieces) \in Seq(T)
<1>1. PICK f : Partials(f, pieces, Len(pieces), T)
  BY Concatenable
<1>2. FlattenSeq(pieces) = f[Len(pieces)]
  BY <1>1, Flattened
<1>3. Len(pieces) \in 0 .. Len(pieces)
  BY LenProperties
<1> QED
  BY <1>1, <1>2, <1>3 DEF Partials

LEMMA FlattenAppend ==
    ASSUME NEW T, NEW pieces \in Seq(Seq(T)), NEW x \in Seq(T)
    PROVE  FlattenSeq(Append(pieces, x)) = FlattenSeq(pieces) \o x
<1> DEFINE longer == Append(pieces, x)
           n == Len(pieces)
<1>0. n \in Nat
  BY LenProperties
<1>1. /\ longer \in Seq(Seq(T)) /\ Len(longer) = n + 1 /\ longer[n + 1] = x
      /\ \A i \in 1 .. n : longer[i] = pieces[i]
  BY AppendProperties
<1>2. PICK f : Partials(f, longer, n + 1, T)
  BY <1>1, Concatenable
<1> HIDE DEF longer, n
<1>3. f \in [0 .. n + 1 -> Seq(T)] /\ f[0] = <<>> /\ \A i \in 0 .. n : f[i + 1] = f[i] \o longer[i + 1]
  <2>1. (n + 1) - 1 = n
    BY <1>0
  <2> QED
    BY <1>2, <2>1 DEF Partials
<1> DEFINE g == [i \in 0 .. n |-> f[i]]
<1>4. Partials(g, pieces, n, T)
  <2>1. g \in [0 .. n -> Seq(T)] /\ g[0] = <<>>
    BY <1>0, <1>3
  <2>2. ASSUME NEW i \in 0 .. n - 1 PROVE g[i + 1] = g[i] \o pieces[i + 1]
    <3>1. i \in 0 .. n /\ i + 1 \in 0 .. n /\ i + 1 \in 1 .. n
      BY <1>0
    <3> QED
      BY <1>1, <1>3, <3>1
  <2> QED
    BY <2>1, <2>2 DEF Partials
<1>5. FlattenSeq(pieces) = f[n]
  <2>1. FlattenSeq(pieces) = g[n]
    BY <1>4, Flattened DEF n
  <2> QED
    BY <1>0, <2>1
<1>6. FlattenSeq(longer) = f[n + 1]
  BY <1>1, <1>2, Flattened
<1>7. f[n + 1] = f[n] \o x
  <2>1. n \in 0 .. n
    BY <1>0
  <2>2. f[n + 1] = f[n] \o longer[n + 1]
    BY <1>3, <2>1
  <2> QED
    BY <1>1, <2>2
<1> QED
  BY <1>5, <1>6, <1>7 DEF longer

LEMMA FlattenHead ==
    ASSUME NEW T, NEW pieces \in Seq(Seq(T)), pieces # <<>>
    PROVE  FlattenSeq(pieces) = Head(pieces) \o FlattenSeq(Tail(pieces))
<1> DEFINE rest == Tail(pieces)
           h == Head(pieces)
           n == Len(rest)
<1>1. /\ h \in Seq(T) /\ rest \in Seq(Seq(T)) /\ Len(pieces) = n + 1 /\ n \in Nat
      /\ \A i \in 1 .. n : rest[i] = pieces[i + 1] /\ rest[i] \in Seq(T)
      /\ pieces[1] = h
  BY HeadTailProperties, LenProperties
<1>2. PICK f : Partials(f, rest, n, T)
  BY <1>1, Concatenable
<1>3. FlattenSeq(rest) = f[n]
  BY <1>1, <1>2, Flattened
<1> HIDE DEF rest, h, n
<1> DEFINE g == [i \in 0 .. n + 1 |-> IF i = 0 THEN <<>> ELSE h \o f[i - 1]]
<1>4. g[0] = <<>> /\ \A i \in 0 .. n : g[i + 1] = h \o f[i]
  <2>1. 0 \in 0 .. n + 1 /\ \A i \in 0 .. n : i + 1 \in 0 .. n + 1 /\ i + 1 # 0 /\ (i + 1) - 1 = i
    BY <1>1
  <2> QED
    BY <2>1
<1>5. g \in [0 .. n + 1 -> Seq(T)]
  <2>1. \A i \in 0 .. n : f[i] \in Seq(T)
    BY <1>2 DEF Partials
  <2>2. \A i \in 0 .. n : h \o f[i] \in Seq(T)
    BY <1>1, <2>1
  <2>3. \A i \in 0 .. n + 1 : i # 0 => i - 1 \in 0 .. n
    BY <1>1
  <2>4. \A i \in 0 .. n + 1 : g[i] \in Seq(T)
    BY <2>2, <2>3
  <2> QED
    BY <2>4
<1> HIDE DEF g
<1>6. ASSUME NEW i \in 0 .. n PROVE g[i + 1] = g[i] \o pieces[i + 1]
  <2>1. CASE i = 0
    <3>1. g[0 + 1] = h \o f[0] /\ f[0] = <<>>
      <4>1. 0 \in 0 .. n
        BY <1>1
      <4> QED
        BY <1>2, <1>4, <4>1 DEF Partials
    <3>2. h \o <<>> = h /\ <<>> \o h = h
      BY <1>1, ConcatEmptySeq
    <3>3. 0 + 1 = 1
      OBVIOUS
    <3> QED
      BY <1>1, <1>4, <2>1, <3>1, <3>2, <3>3
  <2>2. CASE i # 0
    <3>1. i - 1 \in 0 .. n - 1 /\ (i - 1) + 1 = i /\ i \in 1 .. n /\ i - 1 \in 0 .. n
      BY <1>1, <2>2
    <3>2. f[i] = f[i - 1] \o rest[i]
      BY <1>2, <3>1 DEF Partials
    <3>3. rest[i] = pieces[i + 1] /\ rest[i] \in Seq(T) /\ f[i - 1] \in Seq(T)
      BY <1>1, <1>2, <3>1 DEF Partials
    <3>4. g[i + 1] = h \o f[i] /\ g[i] = h \o f[i - 1]
      BY <1>4, <3>1
    <3>5. (h \o f[i - 1]) \o rest[i] = h \o (f[i - 1] \o rest[i])
      <4> DEFINE before == f[i - 1]
                 now == rest[i]
      <4>1. h \in Seq(T) /\ before \in Seq(T) /\ now \in Seq(T)
        BY <1>1, <3>3
      <4> HIDE DEF before, now
      <4>2. (h \o before) \o now = h \o (before \o now)
        BY <4>1, Associative, SMTT(60)
      <4> QED
        BY <4>2 DEF before, now
    <3> QED
      BY <3>2, <3>3, <3>4, <3>5
  <2> QED
    BY <2>1, <2>2
<1>7. Partials(g, pieces, n + 1, T)
  <2>1. (n + 1) - 1 = n
    BY <1>1
  <2> QED
    BY <1>4, <1>5, <1>6, <2>1 DEF Partials
<1>8. FlattenSeq(pieces) = g[n + 1]
  BY <1>1, <1>7, Flattened
<1>9. g[n + 1] = h \o f[n]
  <2>1. n \in 0 .. n
    BY <1>1
  <2> QED
    BY <1>4, <2>1
<1> QED
  BY <1>3, <1>8, <1>9 DEF h, rest

-----------------------------------------------------------------------------
(* Induction on texts *)

LEMMA TailInduction ==
    ASSUME NEW T, NEW P \in SUBSET Seq(T), <<>> \in P,
           \A s \in Seq(T) : s # <<>> /\ Tail(s) \in P => s \in P
    PROVE  \A s \in Seq(T) : s \in P
<1> DEFINE Short(n) == \A s \in Seq(T) : Len(s) = n => s \in P
           N == {n \in Nat : Short(n)}
<1>1. Short(0)
  BY EmptySeq
<1>2. ASSUME NEW n \in Nat, Short(n) PROVE Short(n + 1)
  <2> SUFFICES ASSUME NEW s \in Seq(T), Len(s) = n + 1 PROVE s \in P
    OBVIOUS
  <2>1. s # <<>>
    BY EmptySeq
  <2>2. Tail(s) \in Seq(T) /\ Len(Tail(s)) = n
    BY <2>1, HeadTailProperties
  <2> QED
    BY <1>2, <2>1, <2>2
<1> HIDE DEF Short
<1>3. 0 \in N /\ N \in SUBSET Nat
  BY <1>1
<1>4. \A n \in N : n + 1 \in N
  BY <1>2
<1> HIDE DEF N
<1>5. \A n \in Nat : n \in N
  BY <1>3, <1>4, Upwards
<1>6. \A n \in Nat : Short(n)
  BY <1>5 DEF N
<1> QED
  BY <1>6, LenProperties DEF Short

LEMMA AppendInduction ==
    ASSUME NEW T, NEW P \in SUBSET Seq(T), <<>> \in P,
           \A s \in Seq(T), x \in T : s \in P => Append(s, x) \in P
    PROVE  \A s \in Seq(T) : s \in P
<1> DEFINE Short(n) == \A s \in Seq(T) : Len(s) = n => s \in P
           N == {n \in Nat : Short(n)}
<1>1. Short(0)
  BY EmptySeq
<1>2. ASSUME NEW n \in Nat, Short(n) PROVE Short(n + 1)
  <2> SUFFICES ASSUME NEW s \in Seq(T), Len(s) = n + 1 PROVE s \in P
    OBVIOUS
  <2>1. s # <<>>
    BY EmptySeq
  <2>2. PICK r \in Seq(T), x \in T : s = Append(r, x)
    BY <2>1, SequenceEmptyOrAppend
  <2>3. Len(r) = n
    BY <2>2, AppendProperties, LenProperties
  <2> QED
    BY <1>2, <2>2, <2>3
<1> HIDE DEF Short
<1>3. 0 \in N /\ N \in SUBSET Nat
  BY <1>1
<1>4. \A n \in N : n + 1 \in N
  BY <1>2
<1> HIDE DEF N
<1>5. \A n \in Nat : n \in N
  BY <1>3, <1>4, Upwards
<1>6. \A n \in Nat : Short(n)
  BY <1>5 DEF N
<1> QED
  BY <1>6, LenProperties DEF Short

-----------------------------------------------------------------------------
(* Writing a text piece by piece *)

Written(code, text) == FlattenSeq([i \in DOMAIN text |-> code[text[i]]])

LEMMA WrittenType ==
    ASSUME NEW S, NEW T, NEW code \in [S -> Seq(T)], NEW text \in Seq(S)
    PROVE  Written(code, text) \in Seq(T)
<1> DEFINE pieces == [i \in DOMAIN text |-> code[text[i]]]
<1>1. pieces \in Seq(Seq(T))
  BY Pieces
<1> HIDE DEF pieces
<1>2. FlattenSeq(pieces) \in Seq(T)
  BY <1>1, FlattenType
<1> QED
  BY <1>2 DEF Written, pieces

LEMMA WrittenEmpty == ASSUME NEW code PROVE Written(code, <<>>) = <<>>
  BY DEF Written, FlattenSeq

LEMMA WrittenHead ==
    ASSUME NEW S, NEW T, NEW code \in [S -> Seq(T)], NEW text \in Seq(S), text # <<>>
    PROVE  Written(code, text) = code[Head(text)] \o Written(code, Tail(text))
<1> DEFINE pieces == [i \in DOMAIN text |-> code[text[i]]]
           rest == [i \in DOMAIN Tail(text) |-> code[Tail(text)[i]]]
<1>1. Tail(text) \in Seq(S) /\ Len(Tail(text)) = Len(text) - 1 /\ \A i \in 1 .. Len(text) - 1 : Tail(text)[i] = text[i + 1]
  BY HeadTailProperties
<1>2. pieces \in Seq(Seq(T)) /\ Len(pieces) = Len(text) /\ rest \in Seq(Seq(T)) /\ Len(rest) = Len(text) - 1
  BY <1>1, Pieces
<1>3. pieces # <<>> /\ Head(pieces) = code[Head(text)]
  OBVIOUS
<1>4. Tail(pieces) = rest
  <2>1. Len(Tail(pieces)) = Len(rest) /\ Tail(pieces) \in Seq(Seq(T))
    BY <1>2, <1>3, HeadTailProperties
  <2>2. \A i \in 1 .. Len(rest) : Tail(pieces)[i] = rest[i]
    BY <1>1, <1>2
  <2> QED
    BY <1>2, <2>1, <2>2, SeqEqual
<1> HIDE DEF pieces, rest
<1>5. FlattenSeq(pieces) = Head(pieces) \o FlattenSeq(rest)
  BY <1>2, <1>3, <1>4, FlattenHead
<1> QED
  BY <1>3, <1>5 DEF Written, pieces, rest

LEMMA WrittenAppend ==
    ASSUME NEW S, NEW T, NEW code \in [S -> Seq(T)], NEW text \in Seq(S), NEW x \in S
    PROVE  Written(code, Append(text, x)) = Written(code, text) \o code[x]
<1>0. \A s \in Seq(S) :
        [i \in DOMAIN s |-> code[s[i]]] \in Seq(Seq(T)) /\ Len([i \in DOMAIN s |-> code[s[i]]]) = Len(s)
  BY AllPieces, SMTT(60)
<1> DEFINE longer == Append(text, x)
           pieces == [i \in DOMAIN text |-> code[text[i]]]
           more == [i \in DOMAIN longer |-> code[longer[i]]]
<1>1. longer \in Seq(S) /\ Len(longer) = Len(text) + 1 /\ longer[Len(text) + 1] = x
      /\ \A i \in 1 .. Len(text) : longer[i] = text[i]
  BY AppendProperties
<1>2. pieces \in Seq(Seq(T)) /\ Len(pieces) = Len(text) /\ more \in Seq(Seq(T)) /\ Len(more) = Len(text) + 1
  <2> HIDE DEF longer
  <2>1. pieces \in Seq(Seq(T)) /\ Len(pieces) = Len(text)
    BY <1>0, Zenon
  <2>2. more \in Seq(Seq(T)) /\ Len(more) = Len(longer)
    BY <1>0, <1>1, Zenon
  <2> QED
    BY <1>1, <2>1, <2>2
<1>3. code[x] \in Seq(T)
  OBVIOUS
<1>4. more = Append(pieces, code[x])
  <2>1. Append(pieces, code[x]) \in Seq(Seq(T)) /\ Len(Append(pieces, code[x])) = Len(more)
    BY <1>2, <1>3, AppendProperties
  <2>2. \A i \in 1 .. Len(more) : Append(pieces, code[x])[i] = more[i]
    BY <1>1, <1>2
  <2> QED
    BY <1>2, <2>1, <2>2, SeqEqual
<1> HIDE DEF pieces, more
<1>5. FlattenSeq(Append(pieces, code[x])) = FlattenSeq(pieces) \o code[x]
  BY <1>2, <1>3, FlattenAppend
<1> QED
  BY <1>4, <1>5 DEF Written, pieces, more

-----------------------------------------------------------------------------
(* Object paths *)

KeptAt(text, i) ==
    \/ text[i] # "/"
    \/ /\ i = 1 \/ text[i - 1] # "/"
       /\ \E k \in i + 1 .. Len(text) : text[k] # "/"

KeptPieces(text) == [i \in DOMAIN text |-> IF KeptAt(text, i) THEN <<text[i]>> ELSE <<>>]

LEMMA Collapsed == ASSUME NEW text PROVE CollapseSlashes(text) = FlattenSeq(KeptPieces(text))
  BY DEF CollapseSlashes, KeptPieces, KeptAt

LEMMA KeptPiecesType ==
    ASSUME NEW T, NEW text \in Seq(T)
    PROVE  /\ KeptPieces(text) \in Seq(Seq(T)) /\ Len(KeptPieces(text)) = Len(text)
           /\ \A i \in 1 .. Len(text) : KeptPieces(text)[i] = IF KeptAt(text, i) THEN <<text[i]>> ELSE <<>>
<1> DEFINE n == Len(text)
           pieces == KeptPieces(text)
<1>1. n \in Nat /\ DOMAIN text = 1 .. n /\ \A i \in 1 .. n : text[i] \in T
  BY LenProperties
<1> HIDE DEF n
<1>2. \A i \in 1 .. n : (IF KeptAt(text, i) THEN <<text[i]>> ELSE <<>>) \in Seq(T)
  BY <1>1
<1>3. pieces = [i \in 1 .. n |-> IF KeptAt(text, i) THEN <<text[i]>> ELSE <<>>]
  BY <1>1 DEF KeptPieces
<1>4. pieces \in [1 .. n -> Seq(T)]
  BY <1>2, <1>3
<1>5. \A i \in 1 .. n : pieces[i] = IF KeptAt(text, i) THEN <<text[i]>> ELSE <<>>
  BY <1>3
<1> HIDE DEF pieces
<1>6. pieces \in Seq(Seq(T)) /\ Len(pieces) = n
  BY <1>1, <1>4
<1> QED
  BY <1>5, <1>6 DEF pieces, n

(* A key without an empty segment and without a slash at its end.           *)
Clean(key) ==
    /\ \A m \in 1 .. Len(key) - 1 : key[m] # "/" \/ key[m + 1] # "/"
    /\ key # <<>> => key[Len(key)] # "/"

LEMMA CollapsedIsClean ==
    ASSUME NEW T, NEW text \in Seq(T)
    PROVE  CollapseSlashes(text) \in Seq(T) /\ Clean(CollapseSlashes(text))
<1> DEFINE n == Len(text)
           pieces == KeptPieces(text)
<1>1. n \in Nat /\ \A i \in 1 .. n : text[i] \in T
  BY LenProperties
<1>2. pieces \in Seq(Seq(T)) /\ Len(pieces) = n
      /\ \A i \in 1 .. n : pieces[i] = IF KeptAt(text, i) THEN <<text[i]>> ELSE <<>>
  BY KeptPiecesType
<1>3. PICK f : Partials(f, pieces, n, T)
  BY <1>2, Concatenable
<1>4. CollapseSlashes(text) = f[n]
  BY <1>2, <1>3, Collapsed, Flattened
<1> HIDE DEF n, pieces
<1>5. /\ \A i \in 0 .. n : f[i] \in Seq(T)
      /\ f[0] = <<>>
      /\ \A i \in 0 .. n - 1 : f[i + 1] = f[i] \o (IF KeptAt(text, i + 1) THEN <<text[i + 1]>> ELSE <<>>)
  <2>1. \A i \in 0 .. n - 1 : i + 1 \in 1 .. n
    BY <1>1
  <2> QED
    BY <1>2, <1>3, <2>1 DEF Partials
<1> DEFINE Apart(s) == \A m \in 1 .. Len(s) - 1 : s[m] # "/" \/ s[m + 1] # "/"
           EndsAs(s, i) == i # 0 /\ text[i] # "/" => s # <<>> /\ s[Len(s)] # "/"
           More(s, i) == s # <<>> /\ s[Len(s)] = "/" => \E k \in i + 1 .. n : text[k] # "/"
           J(i) == Apart(f[i]) /\ EndsAs(f[i], i) /\ More(f[i], i)
           S == {i \in Nat : i <= n => J(i)}
<1>6. J(0)
  <2>1. f[0] = <<>> /\ Len(<<>>) = 0
    BY <1>5
  <2> QED
    BY <2>1
<1>7. ASSUME NEW i \in Nat, i + 1 <= n, J(i) PROVE J(i + 1)
  <2> DEFINE s == f[i]
             t == text[i + 1]
  <2>0. i + 1 <= n
    BY <1>7, Zenon
  <2>1. i \in 0 .. n /\ i \in 0 .. n - 1 /\ i + 1 \in 1 .. n /\ (i + 1) - 1 = i
    BY <1>1, <2>0
  <2>2. s \in Seq(T) /\ t \in T /\ Apart(s) /\ EndsAs(s, i) /\ More(s, i)
    BY <1>1, <1>5, <1>7, <2>1
  <2>3. CASE ~KeptAt(text, i + 1)
    <3>1. f[i + 1] = s
      <4>1. f[i + 1] = s \o <<>>
        BY <1>5, <2>1, <2>3
      <4> HIDE DEF s
      <4> QED
        BY <2>2, <4>1, ConcatEmptySeq
    <3>2. t = "/"
      BY <2>3 DEF KeptAt
    <3>3. More(s, i + 1)
      <4> SUFFICES ASSUME s # <<>>, s[Len(s)] = "/" PROVE \E k \in (i + 1) + 1 .. n : text[k] # "/"
        OBVIOUS
      <4>1. PICK k \in i + 1 .. n : text[k] # "/"
        BY <2>2
      <4>2. k # i + 1
        BY <3>2, <4>1
      <4> QED
        BY <1>1, <4>1, <4>2
    <3> QED
      BY <2>2, <3>1, <3>2, <3>3
  <2>4. CASE KeptAt(text, i + 1)
    <3>1. f[i + 1] = s \o <<t>>
      BY <1>5, <2>1, <2>4
    <3> DEFINE r == s \o <<t>>
               l == Len(s)
    <3>2. t # "/" \/ ((i = 0 \/ text[i] # "/") /\ \E k \in (i + 1) + 1 .. n : text[k] # "/")
      BY <2>1, <2>4 DEF KeptAt, n
    <3>3. i = 0 => s = <<>>
      BY <1>5
    <3> HIDE DEF s, t
    <3>4. l \in Nat /\ Len(r) = l + 1 /\ r[l + 1] = t /\ (\A m \in 1 .. l : r[m] = s[m]) /\ r # <<>>
      BY <2>2
    <3>5. Apart(r)
      <4> SUFFICES ASSUME NEW m \in 1 .. l, r[m] = "/", r[m + 1] = "/" PROVE FALSE
        BY <3>4
      <4>1. CASE m < l
        <5>1. m \in 1 .. l - 1 /\ m + 1 \in 1 .. l
          BY <3>4, <4>1
        <5>2. s[m] = "/" /\ s[m + 1] = "/"
          BY <3>4, <5>1
        <5> QED
          BY <2>2, <5>1, <5>2
      <4>2. CASE m = l
        <5>1. t = "/" /\ s[l] = "/" /\ s # <<>>
          BY <2>2, <3>4, <4>2
        <5>2. i # 0 /\ text[i] # "/"
          BY <3>2, <3>3, <5>1
        <5> QED
          BY <2>2, <5>1, <5>2
      <4> QED
        BY <3>4, <4>1, <4>2
    <3>6. EndsAs(r, i + 1)
      BY <3>4 DEF t
    <3>7. More(r, i + 1)
      BY <3>2, <3>4
    <3> QED
      BY <3>1, <3>5, <3>6, <3>7
  <2> QED
    BY <2>3, <2>4
<1> HIDE DEF J
<1>8. n \in S
  <2>1. 0 \in S /\ S \in SUBSET Nat
    BY <1>6
  <2>2. \A i \in S : i + 1 \in S
    BY <1>1, <1>7
  <2> HIDE DEF S
  <2> QED
    BY <1>1, <2>1, <2>2, Upwards
<1>9. J(n)
  BY <1>1, <1>8
<1>10. f[n] \in Seq(T)
  BY <1>1, <1>5
<1>11. Clean(f[n])
  <2>1. n + 1 .. n = {}
    BY <1>1
  <2> QED
    BY <1>9, <2>1 DEF J, Clean
<1> QED
  BY <1>4, <1>10, <1>11

LEMMA CleanIsCollapsed ==
    ASSUME NEW T, NEW text \in Seq(T), Clean(text)
    PROVE  CollapseSlashes(text) = text
<1> DEFINE n == Len(text)
           pieces == KeptPieces(text)
           f == [i \in 0 .. n |-> SubSeq(text, 1, i)]
<1>1. n \in Nat /\ \A i \in 1 .. n : text[i] \in T
  BY LenProperties
<1>2. pieces \in Seq(Seq(T)) /\ Len(pieces) = n
      /\ \A i \in 1 .. n : pieces[i] = IF KeptAt(text, i) THEN <<text[i]>> ELSE <<>>
  BY KeptPiecesType
<1>3. ASSUME NEW i \in 1 .. n PROVE KeptAt(text, i)
  <2> SUFFICES ASSUME text[i] = "/" PROVE KeptAt(text, i)
    BY DEF KeptAt
  <2>1. text # <<>> /\ text[n] # "/"
    BY <1>1 DEF Clean
  <2>2. i # n /\ n \in i + 1 .. n
    BY <1>1, <2>1
  <2>3. i # 1 => i - 1 \in 1 .. n - 1 /\ (i - 1) + 1 = i
    BY <1>1, <2>2
  <2>4. i # 1 => text[i - 1] # "/"
    BY <2>3 DEF Clean
  <2> QED
    BY <2>1, <2>2, <2>4 DEF KeptAt
<1>4. Partials(f, pieces, n, T)
  <2>1. \A i \in 0 .. n : SubSeq(text, 1, i) \in Seq(T)
    BY <1>1
  <2>2. SubSeq(text, 1, 0) = <<>>
    BY SubSeqEmpty
  <2>3. ASSUME NEW i \in 0 .. n - 1 PROVE SubSeq(text, 1, i + 1) = SubSeq(text, 1, i) \o <<text[i + 1]>>
    <3>1. 1 \in 1 .. n /\ i + 1 \in 1 .. n /\ (i + 1) - 1 = i
      BY <1>1
    <3> QED
      BY <3>1, SubSeqRecursiveSecond
  <2>4. ASSUME NEW i \in 0 .. n - 1 PROVE pieces[i + 1] = <<text[i + 1]>>
    <3>1. i + 1 \in 1 .. n
      BY <1>1
    <3> QED
      BY <1>2, <1>3, <3>1
  <2> HIDE DEF n, pieces
  <2>5. f \in [0 .. n -> Seq(T)] /\ f[0] = <<>>
    BY <1>1, <2>1, <2>2
  <2>6. ASSUME NEW i \in 0 .. n - 1 PROVE f[i + 1] = f[i] \o pieces[i + 1]
    <3>1. i \in 0 .. n /\ i + 1 \in 0 .. n
      BY <1>1
    <3> QED
      BY <2>3, <2>4, <3>1
  <2> QED
    BY <2>5, <2>6 DEF Partials
<1>5. f[n] = text
  BY <1>1, SubSeqFull
<1> HIDE DEF f, pieces
<1>6. FlattenSeq(pieces) = f[n]
  BY <1>2, <1>4, Flattened
<1> QED
  BY <1>5, <1>6, Collapsed DEF pieces

(* Normalizing twice is normalizing once: a normal form can be looked up    *)
(* among normal forms (ops/reachability.rs:77-125).                         *)
THEOREM CollapsedTwice ==
    ASSUME NEW T, NEW text \in Seq(T)
    PROVE  CollapseSlashes(CollapseSlashes(text)) = CollapseSlashes(text)
  BY CollapsedIsClean, CleanIsCollapsed

-----------------------------------------------------------------------------
(* Encoding *)

Plain == Tokens \ {"/"}

Code == [x \in Tokens |-> EncodedToken(x)]

LEMMA ShortTexts ==
    ASSUME NEW T
    PROVE  /\ \A a \in T : <<a>> \in Seq(T) /\ <<a>> # <<>>
           /\ \A a, b, c \in T : <<a, b, c>> \in Seq(T) /\ <<a, b, c>> # <<>>
  OBVIOUS

LEMMA TokenCode ==
    ASSUME NEW x \in Tokens
    PROVE  /\ x = "%" => EncodedToken(x) = <<"%", "2", "5">>
           /\ x = "/" => EncodedToken(x) = <<"%", "2", "F">>
           /\ x # "%" /\ x # "/" => EncodedToken(x) = <<x>>
           /\ EncodedToken(x) \in Seq(Plain) /\ EncodedToken(x) \in Seq(Tokens) /\ EncodedToken(x) # <<>>
<1>1. x = "%" => EncodedToken(x) = <<"%", "2", "5">>
  BY DEF EncodedToken
<1>2. x = "/" => EncodedToken(x) = <<"%", "2", "F">>
  BY DEF EncodedToken
<1>3. x # "%" /\ x # "/" => EncodedToken(x) = <<x>>
  BY DEF EncodedToken
<1>4. \A y \in {"%", "2", "5", "F"} : y \in Tokens /\ y \in Plain
  BY NamingAssumption DEF Plain
<1>5. x # "/" => x \in Plain
  BY DEF Plain
<1>6. CASE x = "%"
  <2>1. <<"%", "2", "5">> \in Seq(Plain) /\ <<"%", "2", "5">> \in Seq(Tokens) /\ <<"%", "2", "5">> # <<>>
    BY <1>4, ShortTexts
  <2> QED
    BY <1>1, <1>6, <2>1
<1>7. CASE x = "/"
  <2>1. <<"%", "2", "F">> \in Seq(Plain) /\ <<"%", "2", "F">> \in Seq(Tokens) /\ <<"%", "2", "F">> # <<>>
    BY <1>4, ShortTexts
  <2> QED
    BY <1>2, <1>7, <2>1
<1>8. CASE x # "%" /\ x # "/"
  <2>1. <<x>> \in Seq(Plain) /\ <<x>> \in Seq(Tokens) /\ <<x>> # <<>>
    BY <1>5, <1>8, ShortTexts
  <2> QED
    BY <1>3, <1>8, <2>1
<1> QED
  BY <1>6, <1>7, <1>8

LEMMA CodeType == Code \in [Tokens -> Seq(Tokens)] /\ Code \in [Tokens -> Seq(Plain)]
                  /\ \A x \in Tokens : Code[x] = EncodedToken(x)
<1>1. \A x \in Tokens : EncodedToken(x) \in Seq(Tokens) /\ EncodedToken(x) \in Seq(Plain)
  BY TokenCode
<1> QED
  BY <1>1 DEF Code

LEMMA EncodeIs == ASSUME NEW text \in Seq(Tokens) PROVE Encode(text) = Written(Code, text)
<1>1. \A i \in DOMAIN text : text[i] \in Tokens
  OBVIOUS
<1>2. [i \in DOMAIN text |-> EncodedToken(text[i])] = [i \in DOMAIN text |-> Code[text[i]]]
  BY <1>1, CodeType
<1> QED
  BY <1>2 DEF Encode, Written

LEMMA EncodeType == ASSUME NEW text \in Seq(Tokens) PROVE Encode(text) \in Seq(Tokens) /\ Encode(text) \in Seq(Plain)
<1>1. Written(Code, text) \in Seq(Tokens)
  BY WrittenType, CodeType
<1>2. Written(Code, text) \in Seq(Plain)
  BY WrittenType, CodeType
<1> QED
  BY <1>1, <1>2, EncodeIs

LEMMA EncodeEmpty == Encode(<<>>) = <<>>
  BY EncodeIs, WrittenEmpty, EmptySeq

LEMMA EncodeHead ==
    ASSUME NEW text \in Seq(Tokens), text # <<>>
    PROVE  Encode(text) = EncodedToken(Head(text)) \o Encode(Tail(text))
<1>1. Head(text) \in Tokens /\ Tail(text) \in Seq(Tokens)
  BY HeadTailProperties
<1>2. Written(Code, text) = Code[Head(text)] \o Written(Code, Tail(text))
  BY WrittenHead, CodeType
<1> QED
  BY <1>1, <1>2, EncodeIs, CodeType

LEMMA EncodeAppend ==
    ASSUME NEW text \in Seq(Tokens), NEW x \in Tokens
    PROVE  Encode(Append(text, x)) = Encode(text) \o EncodedToken(x)
<1>1. Append(text, x) \in Seq(Tokens)
  BY AppendProperties
<1>2. Written(Code, Append(text, x)) = Written(Code, text) \o Code[x]
  BY WrittenAppend, CodeType
<1> QED
  BY <1>1, <1>2, EncodeIs, CodeType

LEMMA FirstTokens ==
    ASSUME NEW r \in Seq(Tokens), NEW a \in Tokens, NEW b \in Tokens, NEW c \in Tokens
    PROVE  /\ (<<a>> \o r)[1] = a
           /\ (<<a, b, c>> \o r)[1] = a /\ (<<a, b, c>> \o r)[2] = b /\ (<<a, b, c>> \o r)[3] = c
  OBVIOUS

(* What was encoded first can be told from the front.                       *)
LEMMA TokenSplit ==
    ASSUME NEW x \in Tokens, NEW y \in Tokens, NEW r \in Seq(Tokens), NEW q \in Seq(Tokens),
           EncodedToken(x) \o r = EncodedToken(y) \o q
    PROVE  x = y /\ r = q
<1> DEFINE e == EncodedToken(x)
           d == EncodedToken(y)
<1>1. e \in Seq(Tokens) /\ d \in Seq(Tokens)
  BY TokenCode
<1>2. x = y
  <2>1. CASE x \notin {"%", "/"}
    <3>1. (e \o r)[1] = x
      BY <2>1, TokenCode, FirstTokens, SMTT(40)
    <3>2. y \in {"%", "/"} => (d \o q)[1] = "%"
      BY TokenCode, FirstTokens
    <3>3. y \notin {"%", "/"} => (d \o q)[1] = y
      BY TokenCode, FirstTokens
    <3> QED
      BY <2>1, <3>1, <3>2, <3>3
  <2>2. CASE x \in {"%", "/"}
    <3>0. \A z \in {"%", "2", "5", "F"} : z \in Tokens
      BY NamingAssumption
    <3>1. (e \o r)[1] = "%" /\ (e \o r)[3] = IF x = "%" THEN "5" ELSE "F"
      <4>1. CASE x = "%"
        <5>1. e = <<"%", "2", "5">>
          BY <4>1, TokenCode
        <5> HIDE DEF e, d
        <5> QED
          BY <3>0, <4>1, <5>1, FirstTokens
      <4>2. CASE x = "/"
        <5>1. e = <<"%", "2", "F">>
          BY <4>2, TokenCode
        <5> HIDE DEF e, d
        <5> QED
          BY <3>0, <4>2, <5>1, FirstTokens
      <4> QED
        BY <2>2, <4>1, <4>2
    <3>2. y \notin {"%", "/"} => (d \o q)[1] = y
      BY TokenCode, FirstTokens
    <3>3. y \in {"%", "/"} => (d \o q)[3] = IF y = "%" THEN "5" ELSE "F"
      <4>1. CASE y = "%"
        <5>1. d = <<"%", "2", "5">>
          BY <4>1, TokenCode
        <5> QED
          BY <3>0, <4>1, <5>1, FirstTokens
      <4>2. CASE y = "/"
        <5>1. d = <<"%", "2", "F">>
          BY <4>2, TokenCode
        <5> QED
          BY <3>0, <4>2, <5>1, FirstTokens
      <4> QED
        BY <4>1, <4>2
    <3> QED
      BY <2>2, <3>1, <3>2, <3>3
  <2> QED
    BY <2>1, <2>2
<1>3. r = q
  BY <1>1, <1>2, ConcatSimplifications
<1> QED
  BY <1>2, <1>3

LEMMA ConcatNotEmpty ==
    ASSUME NEW T, NEW a \in Seq(T), NEW b \in Seq(T), a # <<>>
    PROVE  a \o b # <<>>
  BY ConcatEqualIffEmpty

LEMMA SameHeadTail ==
    ASSUME NEW T, NEW s \in Seq(T), NEW t \in Seq(T), s # <<>>, t # <<>>,
           Head(s) = Head(t), Tail(s) = Tail(t)
    PROVE  s = t
<1>1. Len(Tail(s)) = Len(s) - 1 /\ Len(Tail(t)) = Len(t) - 1
  BY HeadTailProperties
<1>2. Len(s) \in Nat \ {0} /\ Len(t) \in Nat \ {0}
  BY EmptySeq
<1>4. Len(s) = Len(t)
  <2> DEFINE m == Len(s)
             k == Len(t)
  <2>1. m \in Nat /\ k \in Nat /\ m - 1 = k - 1
    BY <1>1, <1>2, Zenon
  <2> HIDE DEF m, k
  <2>2. m = k
    BY <2>1
  <2> QED
    BY <2>2 DEF m, k
<1>3. ASSUME NEW i \in 1 .. Len(s) PROVE s[i] = t[i]
  <2>1. CASE i = 1
    BY <2>1
  <2>2. CASE i # 1
    <3>1. i - 1 \in 1 .. Len(s) - 1 /\ (i - 1) + 1 = i
      BY <1>2, <2>2
    <3>2. Tail(s)[i - 1] = s[i] /\ Tail(t)[i - 1] = t[i]
      BY <1>1, <1>4, <3>1, HeadTailProperties
    <3> QED
      BY <3>2
  <2> QED
    BY <2>1, <2>2
<1> QED
  BY <1>4, <1>3, SeqEqual

(* No two names are encoded alike.                                          *)
LEMMA EncodeInjective ==
    ASSUME NEW a \in Seq(Tokens), NEW b \in Seq(Tokens), Encode(a) = Encode(b)
    PROVE  a = b
<1> DEFINE P == {s \in Seq(Tokens) : \A t \in Seq(Tokens) : Encode(s) = Encode(t) => s = t}
<1>1. \A s \in Seq(Tokens) : s # <<>> => Encode(s) # <<>>
  <2> SUFFICES ASSUME NEW s \in Seq(Tokens), s # <<>> PROVE Encode(s) # <<>>
    OBVIOUS
  <2>1. Head(s) \in Tokens /\ Tail(s) \in Seq(Tokens)
    BY HeadTailProperties
  <2>2. EncodedToken(Head(s)) \in Seq(Tokens) /\ EncodedToken(Head(s)) # <<>> /\ Encode(Tail(s)) \in Seq(Tokens)
    BY <2>1, TokenCode, EncodeType
  <2>3. EncodedToken(Head(s)) \o Encode(Tail(s)) # <<>>
    BY <2>2, ConcatNotEmpty
  <2> QED
    BY <2>3, EncodeHead
<1>2. <<>> \in P
  BY <1>1, EncodeEmpty, EmptySeq
<1>3. ASSUME NEW s \in Seq(Tokens), s # <<>>, Tail(s) \in P PROVE s \in P
  <2> SUFFICES ASSUME NEW t \in Seq(Tokens), Encode(s) = Encode(t) PROVE s = t
    OBVIOUS
  <2>1. t # <<>>
    BY <1>1, <1>3, EncodeEmpty
  <2>2. Head(s) \in Tokens /\ Tail(s) \in Seq(Tokens) /\ Head(t) \in Tokens /\ Tail(t) \in Seq(Tokens)
    BY <1>3, <2>1, HeadTailProperties
  <2>3. Encode(Tail(s)) \in Seq(Tokens) /\ Encode(Tail(t)) \in Seq(Tokens)
    BY <2>2, EncodeType
  <2>4. EncodedToken(Head(s)) \o Encode(Tail(s)) = EncodedToken(Head(t)) \o Encode(Tail(t))
    BY <1>3, <2>1, EncodeHead
  <2> DEFINE x == Head(s)
             y == Head(t)
             u == Encode(Tail(s))
             v == Encode(Tail(t))
  <2>5. x = y /\ u = v
    <3>1. x \in Tokens /\ y \in Tokens /\ u \in Seq(Tokens) /\ v \in Seq(Tokens)
          /\ EncodedToken(x) \o u = EncodedToken(y) \o v
      BY <2>2, <2>3, <2>4
    <3> HIDE DEF x, y, u, v
    <3> QED
      BY <3>1, TokenSplit
  <2>6. Tail(s) = Tail(t)
    BY <1>3, <2>2, <2>5
  <2> QED
    BY <1>3, <2>1, <2>5, <2>6, SameHeadTail
<1>4. P \in SUBSET Seq(Tokens)
  OBVIOUS
<1> HIDE DEF P
<1>5. a \in P
  BY <1>2, <1>3, <1>4, TailInduction
<1> QED
  BY <1>5 DEF P

-----------------------------------------------------------------------------
(* Segments *)

Slash(T) == [x \in Seq(T) |-> <<"/">> \o x]

(* The segments that follow a first, each behind its separator.             *)
Behind(T, rest) == Written(Slash(T), rest)

LEMMA SlashType ==
    ASSUME NEW T, "/" \in T
    PROVE  Slash(T) \in [Seq(T) -> Seq(T)] /\ \A x \in Seq(T) : Slash(T)[x] = <<"/">> \o x
<1>1. \A x \in Seq(T) : <<"/">> \o x \in Seq(T)
  OBVIOUS
<1> QED
  BY <1>1 DEF Slash

LEMMA JoinEmpty == Join(<<>>) = <<>>
  BY DEF Join, FlattenSeq

LEMMA JoinHead ==
    ASSUME NEW T, "/" \in T, NEW texts \in Seq(Seq(T)), texts # <<>>
    PROVE  /\ Join(texts) = Head(texts) \o Behind(T, Tail(texts))
           /\ Head(texts) \in Seq(T) /\ Tail(texts) \in Seq(Seq(T)) /\ Behind(T, Tail(texts)) \in Seq(T)
<1> DEFINE n == Len(texts)
           pieces == [i \in DOMAIN texts |-> (IF i = 1 THEN <<>> ELSE <<"/">>) \o texts[i]]
           rest == [i \in DOMAIN Tail(texts) |-> Slash(T)[Tail(texts)[i]]]
<1>1. n \in Nat /\ n # 0 /\ DOMAIN texts = 1 .. n /\ \A i \in 1 .. n : texts[i] \in Seq(T)
  BY EmptySeq, LenProperties
<1>2. Head(texts) \in Seq(T) /\ Head(texts) = texts[1] /\ Tail(texts) \in Seq(Seq(T)) /\ Len(Tail(texts)) = n - 1
      /\ \A i \in 1 .. n - 1 : Tail(texts)[i] = texts[i + 1]
  BY HeadTailProperties
<1>3. Slash(T) \in [Seq(T) -> Seq(T)] /\ \A x \in Seq(T) : Slash(T)[x] = <<"/">> \o x
  BY SlashType
<1>4. rest \in Seq(Seq(T)) /\ Len(rest) = n - 1
  <2> DEFINE S == Seq(T)
             code == Slash(T)
             text == Tail(texts)
  <2>1. code \in [S -> S] /\ text \in Seq(S) /\ Len(text) = n - 1
    BY <1>2, <1>3
  <2> HIDE DEF S, code, text, n
  <2>2. Each(code, text) \in Seq(S) /\ Len(Each(code, text)) = Len(text)
    BY <2>1, EachType
  <2> QED
    BY <2>1, <2>2 DEF Each, S, code, text
<1>5. pieces \in Seq(Seq(T)) /\ Len(pieces) = n /\ pieces[1] = texts[1]
      /\ \A i \in 1 .. n - 1 : pieces[i + 1] = <<"/">> \o texts[i + 1]
  <2> HIDE DEF n
  <2>1. \A x \in Seq(T) : <<>> \o x = x /\ <<"/">> \o x \in Seq(T)
    OBVIOUS
  <2>2. pieces = [i \in 1 .. n |-> IF i = 1 THEN texts[i] ELSE <<"/">> \o texts[i]]
    BY <1>1, <2>1
  <2>3. \A i \in 1 .. n : (IF i = 1 THEN texts[i] ELSE <<"/">> \o texts[i]) \in Seq(T)
    BY <1>1, <2>1
  <2>4. pieces \in [1 .. n -> Seq(T)]
    BY <2>2, <2>3
  <2>5. pieces[1] = texts[1] /\ \A i \in 1 .. n - 1 : pieces[i + 1] = <<"/">> \o texts[i + 1]
    BY <1>1, <2>2
  <2> HIDE DEF pieces
  <2> QED
    BY <1>1, <2>4, <2>5
<1>6. Join(texts) = FlattenSeq(pieces)
  BY DEF Join
<1>7. \A i \in 1 .. n - 1 : rest[i] = <<"/">> \o texts[i + 1]
  <2>1. \A i \in 1 .. n - 1 : i \in DOMAIN Tail(texts) /\ i + 1 \in 1 .. n
    BY <1>1, <1>2, LenProperties
  <2> QED
    BY <1>1, <1>2, <1>3, <2>1
<1> HIDE DEF n, pieces, rest
<1>8. pieces # <<>> /\ Head(pieces) = texts[1]
  BY <1>1, <1>5
<1>9. Tail(pieces) = rest
  <2>1. Tail(pieces) \in Seq(Seq(T)) /\ Len(Tail(pieces)) = n - 1 /\ \A i \in 1 .. n - 1 : Tail(pieces)[i] = pieces[i + 1]
    BY <1>5, <1>8, HeadTailProperties
  <2> QED
    <3> DEFINE S == Seq(T)
               back == Tail(pieces)
    <3>1. back \in Seq(S) /\ rest \in Seq(S) /\ Len(back) = Len(rest) /\ Len(rest) = n - 1
      BY <1>4, <2>1
    <3>2. \A i \in 1 .. n - 1 : back[i] = rest[i]
      <4> SUFFICES ASSUME NEW i \in 1 .. n - 1 PROVE back[i] = rest[i]
        OBVIOUS
      <4>1. back[i] = pieces[i + 1] /\ pieces[i + 1] = <<"/">> \o texts[i + 1] /\ rest[i] = <<"/">> \o texts[i + 1]
        BY <1>5, <1>7, <2>1
      <4> QED
        BY <4>1, Zenon
    <3> HIDE DEF S, back
    <3>3. back = rest
      BY <3>1, <3>2, SeqEqual
    <3> QED
      BY <3>3 DEF back
<1>10. FlattenSeq(pieces) = Head(pieces) \o FlattenSeq(rest)
  BY <1>5, <1>8, <1>9, FlattenHead
<1>11. FlattenSeq(rest) = Behind(T, Tail(texts)) /\ FlattenSeq(rest) \in Seq(T)
  <2>1. FlattenSeq(rest) \in Seq(T)
    BY <1>4, FlattenType
  <2> QED
    BY <2>1 DEF Behind, Written, rest
<1> QED
  BY <1>2, <1>6, <1>8, <1>10, <1>11

LEMMA BehindHead ==
    ASSUME NEW T, "/" \in T, NEW rest \in Seq(Seq(T)), rest # <<>>
    PROVE  /\ Behind(T, rest) = <<"/">> \o (Head(rest) \o Behind(T, Tail(rest)))
           /\ Head(rest) \in Seq(T) /\ Tail(rest) \in Seq(Seq(T))
           /\ Behind(T, rest) \in Seq(T) /\ Behind(T, Tail(rest)) \in Seq(T)
<1> DEFINE S == Seq(T)
           code == Slash(T)
           x == Head(rest)
           u == Written(code, Tail(rest))
<1>1. x \in Seq(T) /\ Tail(rest) \in Seq(Seq(T))
  BY HeadTailProperties
<1>2. code \in [Seq(T) -> Seq(T)] /\ code[x] = <<"/">> \o x /\ <<"/">> \in Seq(T)
  BY <1>1, SlashType, SMTT(40)
<1> HIDE DEF code
<1>3. u \in Seq(T) /\ Written(code, rest) \in Seq(T) /\ Written(code, rest) = code[x] \o u
  <2>1. rest \in Seq(S) /\ Tail(rest) \in Seq(S) /\ code \in [S -> Seq(T)]
    BY <1>1, <1>2
  <2> HIDE DEF S
  <2>2. u \in Seq(T) /\ Written(code, rest) \in Seq(T)
    BY <2>1, WrittenType
  <2>3. Written(code, rest) = code[Head(rest)] \o Written(code, Tail(rest))
    BY <2>1, WrittenHead
  <2> QED
    BY <2>2, <2>3
<1>4. (<<"/">> \o x) \o u = <<"/">> \o (x \o u)
  <2> DEFINE a == <<"/">>
  <2>1. a \in Seq(T)
    BY <1>2
  <2> HIDE DEF a, x, u
  <2> QED
    BY <1>1, <1>3, <2>1, Associative, SMTT(60)
<1> QED
  BY <1>1, <1>2, <1>3, <1>4 DEF Behind, code

LEMMA BehindEmpty == ASSUME NEW T PROVE Behind(T, <<>>) = <<>>
  BY WrittenEmpty DEF Behind

LEMMA SlashFirst ==
    ASSUME NEW T, "/" \in T, NEW x \in Seq(T)
    PROVE  <<"/">> \o x # <<>> /\ (<<"/">> \o x)[1] = "/"
  OBVIOUS

LEMMA BehindStarts ==
    ASSUME NEW T, "/" \in T, NEW rest \in Seq(Seq(T))
    PROVE  /\ Behind(T, rest) \in Seq(T)
           /\ Behind(T, rest) # <<>> => Behind(T, rest)[1] = "/"
           /\ rest # <<>> => Behind(T, rest) # <<>>
<1>1. CASE rest = <<>>
  BY <1>1, BehindEmpty, EmptySeq
<1>2. CASE rest # <<>>
  <2> DEFINE x == Head(rest) \o Behind(T, Tail(rest))
  <2>1. Behind(T, rest) = <<"/">> \o x /\ Head(rest) \in Seq(T) /\ Behind(T, Tail(rest)) \in Seq(T) /\ Behind(T, rest) \in Seq(T)
    BY <1>2, BehindHead
  <2>2. x \in Seq(T)
    BY <2>1, ConcatProperties
  <2> HIDE DEF x
  <2> QED
    BY <2>1, <2>2, SlashFirst
<1> QED
  BY <1>1, <1>2

(* Up to the first separator a text is its first segment.                   *)
LEMMA Cut ==
    ASSUME NEW T, NEW U, U \subseteq T, "/" \notin U,
           NEW r \in Seq(U), NEW q \in Seq(U), NEW u \in Seq(T), NEW v \in Seq(T),
           u # <<>> => u[1] = "/", v # <<>> => v[1] = "/",
           r \o u = q \o v
    PROVE  r = q /\ u = v
<1>1. r \in Seq(T) /\ q \in Seq(T)
  BY SeqMonotonic
<1> DEFINE a == Len(r)
           b == Len(q)
           whole == r \o u
<1>2. a \in Nat /\ b \in Nat /\ Len(u) \in Nat /\ Len(v) \in Nat
      /\ (\A i \in 1 .. a : r[i] \in U) /\ (\A i \in 1 .. b : q[i] \in U)
  BY LenProperties
<1>3. (u # <<>> => Len(u) # 0) /\ (v # <<>> => Len(v) # 0) /\ (u = <<>> => Len(u) = 0) /\ (v = <<>> => Len(v) = 0)
  BY EmptySeq
<1>4. Len(whole) = a + Len(u)
      /\ \A i \in 1 .. a + Len(u) : whole[i] = IF i <= a THEN r[i] ELSE u[i - a]
  BY <1>1, ConcatProperties
<1>5. Len(whole) = b + Len(v)
      /\ \A i \in 1 .. b + Len(v) : whole[i] = IF i <= b THEN q[i] ELSE v[i - b]
  BY <1>1, ConcatProperties
<1> HIDE DEF a, b, whole
<1>6. ~ (a < b)
  <2> SUFFICES ASSUME a < b PROVE FALSE
    OBVIOUS
  <2>1. u # <<>> /\ a + 1 \in 1 .. a + Len(u) /\ (a + 1) - a = 1 /\ ~(a + 1 <= a)
    BY <1>2, <1>3, <1>4, <1>5
  <2>2. whole[a + 1] = "/"
    BY <1>4, <2>1
  <2>3. a + 1 \in 1 .. b /\ a + 1 \in 1 .. b + Len(v)
    BY <1>2
  <2>4. whole[a + 1] \in U
    BY <1>2, <1>5, <2>3
  <2> QED
    BY <2>2, <2>4
<1>7. ~ (b < a)
  <2> SUFFICES ASSUME b < a PROVE FALSE
    OBVIOUS
  <2>1. v # <<>> /\ b + 1 \in 1 .. b + Len(v) /\ (b + 1) - b = 1 /\ ~(b + 1 <= b)
    BY <1>2, <1>3, <1>4, <1>5
  <2>2. whole[b + 1] = "/"
    BY <1>5, <2>1
  <2>3. b + 1 \in 1 .. a /\ b + 1 \in 1 .. a + Len(u)
    BY <1>2
  <2>4. whole[b + 1] \in U
    BY <1>2, <1>4, <2>3
  <2> QED
    BY <2>2, <2>4
<1>8. a = b
  BY <1>2, <1>6, <1>7
<1>9. r = q
  <2>1. ASSUME NEW i \in 1 .. a PROVE r[i] = q[i]
    <3>1. i \in 1 .. a + Len(u) /\ i \in 1 .. b + Len(v) /\ i <= a /\ i <= b
      BY <1>2, <1>8
    <3> QED
      BY <1>4, <1>5, <3>1
  <2>2. Len(r) = Len(q) /\ \A i \in 1 .. Len(r) : r[i] = q[i]
    BY <1>8, <2>1 DEF a, b
  <2> QED
    BY <2>2, SeqEqual
<1>10. u = v
  BY <1>1, <1>9, ConcatSimplifications
<1> QED
  BY <1>9, <1>10

(* The same, with the step that compares two joined texts in mind.          *)
Parted(T, U, r, q, u, v) ==
    /\ r \in Seq(U) /\ q \in Seq(U) /\ u \in Seq(T) /\ v \in Seq(T)
    /\ u # <<>> => u[1] = "/"
    /\ v # <<>> => v[1] = "/"
    /\ r \o u = q \o v

LEMMA CutParted ==
    ASSUME NEW T, NEW U, U \subseteq T, "/" \notin U, NEW r, NEW q, NEW u, NEW v, Parted(T, U, r, q, u, v)
    PROVE  r = q /\ u = v
<1>1. /\ r \in Seq(U) /\ q \in Seq(U) /\ u \in Seq(T) /\ v \in Seq(T)
      /\ u # <<>> => u[1] = "/"
      /\ v # <<>> => v[1] = "/"
      /\ r \o u = q \o v
  BY DEF Parted
<1> QED
  BY <1>1, Cut

LEMMA Cancel ==
    ASSUME NEW T, NEW a \in Seq(T), NEW u \in Seq(T), NEW v \in Seq(T), a \o u = a \o v
    PROVE  u = v
  BY ConcatSimplifications

(* What stands before both texts says nothing.                              *)
Covered(T, c, f, x, u) == c \in Seq(T) /\ f \in Seq(T) /\ x \in Seq(T) /\ u \in Seq(T)

Grouped(T, c, f, x, u) ==
    /\ x \o u \in Seq(T) /\ f \o (x \o u) \in Seq(T)
    /\ c \o ((f \o x) \o u) = c \o (f \o (x \o u))

LEMMA Regrouped ==
    ASSUME NEW T, NEW c, NEW f, NEW x, NEW u, Covered(T, c, f, x, u)
    PROVE  Grouped(T, c, f, x, u)
<1>1. c \in Seq(T) /\ f \in Seq(T) /\ x \in Seq(T) /\ u \in Seq(T)
  BY DEF Covered
<1>2. x \o u \in Seq(T)
  BY <1>1, ConcatProperties
<1>3. f \o (x \o u) \in Seq(T)
  BY <1>1, <1>2, ConcatProperties
<1>4. (f \o x) \o u = f \o (x \o u)
  BY <1>1, Associative
<1> QED
  BY <1>2, <1>3, <1>4, Zenon DEF Grouped

Alike(c, f, x, y, u, v) == c \o ((f \o x) \o u) = c \o ((f \o y) \o v)

LEMMA Uncovered ==
    ASSUME NEW T, NEW c, NEW f, NEW x, NEW y, NEW u, NEW v,
           Covered(T, c, f, x, u), Covered(T, c, f, y, v),
           Alike(c, f, x, y, u, v)
    PROVE  x \o u = y \o v
<1> DEFINE xu == x \o u
           yv == y \o v
           fxu == f \o xu
           fyv == f \o yv
<1>0. c \in Seq(T) /\ f \in Seq(T)
  BY DEF Covered
<1>1. xu \in Seq(T) /\ fxu \in Seq(T) /\ c \o ((f \o x) \o u) = c \o fxu
  <2>1. Grouped(T, c, f, x, u)
    BY Regrouped
  <2> QED
    BY <2>1, Zenon DEF Grouped
<1>2. yv \in Seq(T) /\ fyv \in Seq(T) /\ c \o ((f \o y) \o v) = c \o fyv
  <2>1. Grouped(T, c, f, y, v)
    BY Regrouped
  <2> QED
    BY <2>1, Zenon DEF Grouped
<1>3. c \o fxu = c \o fyv
  BY <1>1, <1>2, Zenon DEF Alike
<1>4. fxu = fyv
  <2> HIDE DEF fxu, fyv
  <2> QED
    BY <1>0, <1>1, <1>2, <1>3, Cancel
<1>5. f \o xu = f \o yv
  BY <1>4
<1> HIDE DEF xu, yv, fxu, fyv
<1>6. xu = yv
  BY <1>0, <1>1, <1>2, <1>5, Cancel
<1> QED
  BY <1>6 DEF xu, yv

(* Segments that hold no separator can be told apart once they are joined.  *)
LEMMA SegmentsInjective ==
    ASSUME NEW T, "/" \in T, NEW U, U \subseteq T, "/" \notin U,
           NEW r \in Seq(Seq(U)), NEW q \in Seq(Seq(U)), Behind(T, r) = Behind(T, q)
    PROVE  r = q
<1> DEFINE S == Seq(U)
           P == {s \in Seq(S) : \A t \in Seq(S) : Behind(T, s) = Behind(T, t) => s = t}
<1>0. \A s \in Seq(S) : s \in Seq(Seq(T))
  BY SeqMonotonic
<1>1. <<>> \in P
  <2>1. \A t \in Seq(S) : t # <<>> => Behind(T, t) # <<>>
    BY <1>0, BehindStarts
  <2> QED
    BY <2>1, BehindEmpty, EmptySeq
<1>2. ASSUME NEW s \in Seq(S), s # <<>>, Tail(s) \in P PROVE s \in P
  <2> SUFFICES ASSUME NEW t \in Seq(S), Behind(T, s) = Behind(T, t) PROVE s = t
    OBVIOUS
  <2>0. s \in Seq(Seq(T)) /\ t \in Seq(Seq(T))
    BY <1>0
  <2>1. t # <<>>
    BY <1>2, <2>0, BehindEmpty, BehindStarts
  <2> DEFINE x == Head(s)
             y == Head(t)
             u == Behind(T, Tail(s))
             v == Behind(T, Tail(t))
  <2>2. x \in S /\ y \in S /\ Tail(s) \in Seq(S) /\ Tail(t) \in Seq(S)
    BY <1>2, <2>1, HeadTailProperties
  <2>3. Behind(T, s) = <<"/">> \o (x \o u) /\ Behind(T, t) = <<"/">> \o (y \o v) /\ u \in Seq(T) /\ v \in Seq(T)
        /\ x \in Seq(T) /\ y \in Seq(T)
    BY <1>2, <2>0, <2>1, BehindHead
  <2>4. (u # <<>> => u[1] = "/") /\ (v # <<>> => v[1] = "/")
    BY <1>0, <2>2, BehindStarts
  <2>5. x \in Seq(U) /\ y \in Seq(U)
    BY <2>2
  <2> HIDE DEF x, y, u, v, P, S
  <2>6. x \o u = y \o v
    <3> DEFINE a == <<"/">>
               b == x \o u
               c == y \o v
    <3>0. b \in Seq(T) /\ c \in Seq(T)
      BY <2>3, ConcatProperties, SMTT(60)
    <3>1. a \in Seq(T) /\ b \in Seq(T) /\ c \in Seq(T) /\ a \o b = a \o c
      <4>1. a \in Seq(T)
        BY ShortTexts
      <4>2. a \o b = a \o c
        BY <2>3, Zenon
      <4> QED
        BY <3>0, <4>1, <4>2
    <3> HIDE DEF a, b, c
    <3>2. b = c
      BY <3>1, Cancel
    <3> QED
      BY <3>2 DEF b, c
  <2>7. x = y /\ u = v
    <3>1. u \in Seq(T) /\ v \in Seq(T)
      BY <2>3
    <3>2. Parted(T, U, x, y, u, v)
      BY <2>4, <2>5, <2>6, <3>1, Zenon DEF Parted
    <3> QED
      BY <3>2, CutParted
  <2>8. Tail(s) = Tail(t)
    BY <1>2, <2>2, <2>7 DEF P, u, v
  <2> QED
    BY <1>2, <2>1, <2>7, <2>8, SameHeadTail DEF x, y
<1>3. P \in SUBSET Seq(S) /\ r \in Seq(S) /\ q \in Seq(S)
  OBVIOUS
<1> HIDE DEF P, S
<1>4. r \in P
  BY <1>1, <1>2, <1>3, TailInduction
<1> QED
  BY <1>3, <1>4 DEF P

LEMMA JoinIsBehind ==
    ASSUME NEW T, "/" \in T, NEW texts \in Seq(Seq(T)), texts # <<>>
    PROVE  <<"/">> \o Join(texts) = Behind(T, texts) /\ Join(texts) \in Seq(T)
<1>1. Join(texts) = Head(texts) \o Behind(T, Tail(texts))
      /\ Head(texts) \in Seq(T) /\ Behind(T, Tail(texts)) \in Seq(T)
  BY JoinHead
<1>2. Behind(T, texts) = <<"/">> \o (Head(texts) \o Behind(T, Tail(texts)))
  BY BehindHead
<1>3. Join(texts) \in Seq(T)
  BY <1>1, ConcatProperties
<1> QED
  BY <1>1, <1>2, <1>3

(* Joined texts that differ in what follows each "/", and hold no other, are *)
(* told apart; so are no texts and one that is empty, unless alone.          *)
LEMMA JoinInjective ==
    ASSUME NEW T, "/" \in T, NEW U, U \subseteq T, "/" \notin U,
           NEW r \in Seq(Seq(U)), NEW q \in Seq(Seq(U)), r # <<>>, q # <<>>, Join(r) = Join(q)
    PROVE  r = q
<1>1. r \in Seq(Seq(T)) /\ q \in Seq(Seq(T))
  BY SeqMonotonic
<1>2. <<"/">> \o Join(r) = Behind(T, r) /\ <<"/">> \o Join(q) = Behind(T, q)
  BY <1>1, JoinIsBehind
<1>3. Behind(T, r) = Behind(T, q)
  BY <1>2
<1> QED
  BY <1>3, SegmentsInjective

-----------------------------------------------------------------------------
(* Partition values *)

EscapedNull == <<"%", "6", "E", "ull">>
EscapedAbsent == <<"%", "6", "1", "bsent">>

LEMMA Escapes ==
    /\ <<"null">> # <<"absent">> /\ EscapedNull # EscapedAbsent
    /\ EscapedNull # <<"null">> /\ EscapedNull # <<"absent">>
    /\ EscapedAbsent # <<"null">> /\ EscapedAbsent # <<"absent">>
    /\ EscapedNull # <<>> /\ EscapedAbsent # <<>>
    /\ EscapedNull[1] = "%" /\ EscapedNull[2] = "6" /\ EscapedAbsent[1] = "%" /\ EscapedAbsent[2] = "6"
    /\ EscapedNull \in Seq(Plain) /\ EscapedAbsent \in Seq(Plain) /\ <<"null">> \in Seq(Plain) /\ <<"absent">> \in Seq(Plain)
<1>1. \A x \in {"%", "6", "1", "E", "ull", "bsent", "null", "absent"} : x \in Plain
  BY NamingAssumption DEF Plain
<1>2. \A a, b, c, d \in Plain : <<a, b, c, d>> \in Seq(Plain)
  OBVIOUS
<1>3. EscapedNull \in Seq(Plain) /\ EscapedAbsent \in Seq(Plain)
  BY <1>1, <1>2 DEF EscapedNull, EscapedAbsent
<1>4. <<"null">> \in Seq(Plain) /\ <<"absent">> \in Seq(Plain)
  BY <1>1, ShortTexts
<1>5. /\ <<"null">> # <<"absent">> /\ EscapedNull # EscapedAbsent
      /\ EscapedNull # <<"null">> /\ EscapedNull # <<"absent">>
      /\ EscapedAbsent # <<"null">> /\ EscapedAbsent # <<"absent">>
  BY DEF EscapedNull, EscapedAbsent
<1>6. /\ EscapedNull # <<>> /\ EscapedAbsent # <<>>
      /\ EscapedNull[1] = "%" /\ EscapedNull[2] = "6" /\ EscapedAbsent[1] = "%" /\ EscapedAbsent[2] = "6"
  BY DEF EscapedNull, EscapedAbsent
<1> QED
  BY <1>3, <1>4, <1>5, <1>6

(* What is encoded writes "2" behind every "%" it begins with.              *)
LEMMA EncodedPercent ==
    ASSUME NEW text \in Seq(Tokens), Encode(text) # <<>>, Encode(text)[1] = "%"
    PROVE  Encode(text)[2] = "2"
<1>1. text # <<>>
  BY EncodeEmpty
<1> DEFINE x == Head(text)
           u == Encode(Tail(text))
<1>2. x \in Tokens /\ Tail(text) \in Seq(Tokens)
  BY <1>1, HeadTailProperties
<1>3. u \in Seq(Tokens) /\ Encode(text) = EncodedToken(x) \o u
  BY <1>1, <1>2, EncodeType, EncodeHead
<1> HIDE DEF x, u
<1>4. \A z \in {"%", "2", "5", "F"} : z \in Tokens
  BY NamingAssumption
<1>5. CASE x = "%"
  <2>1. Encode(text) = <<"%", "2", "5">> \o u
    BY <1>2, <1>3, <1>5, TokenCode
  <2> QED
    BY <1>3, <1>4, <2>1, FirstTokens
<1>6. CASE x = "/"
  <2>1. Encode(text) = <<"%", "2", "F">> \o u
    BY <1>2, <1>3, <1>6, TokenCode
  <2> QED
    BY <1>3, <1>4, <2>1, FirstTokens
<1>7. CASE x # "%" /\ x # "/"
  <2>1. Encode(text) = <<x>> \o u
    BY <1>2, <1>3, <1>7, TokenCode
  <2>2. Encode(text)[1] = x
    BY <1>2, <1>3, <2>1, FirstTokens
  <2> QED
    BY <1>7, <2>2
<1> QED
  BY <1>5, <1>6, <1>7

LEMMA EscapeCases ==
    ASSUME NEW v \in Seq(Tokens)
    PROVE  \/ Encode(v) = <<"null">> /\ Escape(v) = EscapedNull
           \/ Encode(v) = <<"absent">> /\ Escape(v) = EscapedAbsent
           \/ Encode(v) # <<"null">> /\ Encode(v) # <<"absent">> /\ Escape(v) = Encode(v)
<1>1. CASE Encode(v) = <<"null">>
  BY <1>1, Escapes DEF Escape, EscapedNull, EscapedAbsent
<1>2. CASE Encode(v) = <<"absent">>
  BY <1>2, Escapes DEF Escape, EscapedNull, EscapedAbsent
<1>3. CASE Encode(v) # <<"null">> /\ Encode(v) # <<"absent">>
  BY <1>3 DEF Escape
<1> QED
  BY <1>1, <1>2, <1>3

(* A value is written like no other value, no null and no absence.          *)
LEMMA EscapeTells ==
    ASSUME NEW v \in Seq(Tokens)
    PROVE  /\ Escape(v) \in Seq(Plain)
           /\ Escape(v) # <<"null">> /\ Escape(v) # <<"absent">>
<1>1. Encode(v) \in Seq(Plain)
  BY EncodeType
<1> QED
  BY <1>1, Escapes, EscapeCases, Zenon

LEMMA EscapeInjective ==
    ASSUME NEW v \in Seq(Tokens), NEW w \in Seq(Tokens), Escape(v) = Escape(w)
    PROVE  v = w
<1>1. \A x \in Seq(Tokens) : Encode(x) # EscapedNull /\ Encode(x) # EscapedAbsent
  <2> SUFFICES ASSUME NEW x \in Seq(Tokens), Encode(x) = EscapedNull \/ Encode(x) = EscapedAbsent PROVE FALSE
    OBVIOUS
  <2>1. Encode(x) # <<>> /\ Encode(x)[1] = "%" /\ Encode(x)[2] = "6"
    BY Escapes
  <2>2. Encode(x)[2] = "2"
    BY <2>1, EncodedPercent
  <2> QED
    BY <2>1, <2>2
<1>2. Encode(v) = Encode(w)
  BY <1>1, Escapes, EscapeCases
<1> QED
  BY <1>2, EncodeInjective

(* The text of each field of a spec.                                        *)
Labelled(fields, values) == [i \in DOMAIN fields |-> <<fields[i], "=">> \o values[i]]

LEMMA LabelledType ==
    ASSUME NEW fields \in Seq(Tokens), NEW values \in Seq(Seq(Tokens)), Len(values) = Len(fields)
    PROVE  /\ Labelled(fields, values) \in Seq(Seq(Tokens))
           /\ Len(Labelled(fields, values)) = Len(fields)
           /\ \A i \in 1 .. Len(fields) : Labelled(fields, values)[i] = <<fields[i], "=">> \o values[i]
<1> DEFINE n == Len(fields)
           L == Labelled(fields, values)
<1>1. n \in Nat /\ DOMAIN fields = 1 .. n /\ \A i \in 1 .. n : fields[i] \in Tokens /\ values[i] \in Seq(Tokens)
  BY LenProperties
<1>2. "=" \in Tokens
  BY NamingAssumption
<1>3. \A a, b \in Tokens, x \in Seq(Tokens) : <<a, b>> \o x \in Seq(Tokens)
  OBVIOUS
<1>4. \A i \in 1 .. n : <<fields[i], "=">> \o values[i] \in Seq(Tokens)
  BY <1>1, <1>2, <1>3
<1>5. L = [i \in 1 .. n |-> <<fields[i], "=">> \o values[i]]
  BY <1>1 DEF Labelled
<1>6. L \in [1 .. n -> Seq(Tokens)] /\ \A i \in 1 .. n : L[i] = <<fields[i], "=">> \o values[i]
  BY <1>4, <1>5
<1> HIDE DEF n, L
<1>7. L \in Seq(Seq(Tokens)) /\ Len(L) = n
  BY <1>1, <1>6
<1> QED
  BY <1>6, <1>7 DEF n, L

LEMMA LabelledTail ==
    ASSUME NEW fields \in Seq(Tokens), NEW values \in Seq(Seq(Tokens)), Len(values) = Len(fields), fields # <<>>
    PROVE  /\ Labelled(fields, values) # <<>>
           /\ Head(Labelled(fields, values)) = <<Head(fields), "=">> \o Head(values)
           /\ Tail(Labelled(fields, values)) = Labelled(Tail(fields), Tail(values))
<1> DEFINE n == Len(fields)
           L == Labelled(fields, values)
           M == Labelled(Tail(fields), Tail(values))
<1>1. n \in Nat /\ n # 0 /\ values # <<>>
  BY EmptySeq, LenProperties
<1>2. L \in Seq(Seq(Tokens)) /\ Len(L) = n /\ \A i \in 1 .. n : L[i] = <<fields[i], "=">> \o values[i]
  BY LabelledType
<1>3. /\ Tail(fields) \in Seq(Tokens) /\ Len(Tail(fields)) = n - 1 /\ Head(fields) = fields[1]
      /\ \A i \in 1 .. n - 1 : Tail(fields)[i] = fields[i + 1]
  BY HeadTailProperties
<1>4. /\ Tail(values) \in Seq(Seq(Tokens)) /\ Len(Tail(values)) = n - 1 /\ Head(values) = values[1]
      /\ \A i \in 1 .. n - 1 : Tail(values)[i] = values[i + 1]
  <2> DEFINE S == Seq(Tokens)
  <2>1. values \in Seq(S) /\ values # <<>>
    BY <1>1
  <2> HIDE DEF S
  <2>2. /\ Tail(values) \in Seq(S) /\ Len(Tail(values)) = Len(values) - 1 /\ Head(values) = values[1]
        /\ \A i \in 1 .. Len(values) - 1 : Tail(values)[i] = values[i + 1]
    BY <2>1, HeadTailProperties
  <2> QED
    BY <2>2 DEF S
<1>5. M \in Seq(Seq(Tokens)) /\ Len(M) = n - 1 /\ \A i \in 1 .. n - 1 : M[i] = <<Tail(fields)[i], "=">> \o Tail(values)[i]
  <2> DEFINE f == Tail(fields)
             w == Tail(values)
  <2>1. f \in Seq(Tokens) /\ w \in Seq(Seq(Tokens)) /\ Len(f) = n - 1 /\ Len(w) = Len(f)
    BY <1>3, <1>4
  <2> HIDE DEF f, w, n
  <2>2. /\ Labelled(f, w) \in Seq(Seq(Tokens))
        /\ Len(Labelled(f, w)) = Len(f)
        /\ \A i \in 1 .. Len(f) : Labelled(f, w)[i] = <<f[i], "=">> \o w[i]
    BY <2>1, LabelledType
  <2> QED
    BY <2>1, <2>2 DEF f, w
<1> HIDE DEF n, L, M
<1>6. L # <<>> /\ Head(L) = L[1] /\ Tail(L) \in Seq(Seq(Tokens)) /\ Len(Tail(L)) = n - 1
      /\ \A i \in 1 .. n - 1 : Tail(L)[i] = L[i + 1]
  <2> DEFINE S == Seq(Tokens)
  <2>1. L \in Seq(S) /\ Len(L) = n
    BY <1>2
  <2> HIDE DEF S
  <2>2. L # <<>>
    BY <1>1, <2>1, EmptySeq
  <2>3. Head(L) = L[1] /\ Tail(L) \in Seq(S) /\ Len(Tail(L)) = Len(L) - 1
        /\ \A i \in 1 .. Len(L) - 1 : Tail(L)[i] = L[i + 1]
    BY <2>1, <2>2, HeadTailProperties
  <2> QED
    BY <2>1, <2>2, <2>3 DEF S
<1>7. 1 \in 1 .. n /\ \A i \in 1 .. n - 1 : i + 1 \in 1 .. n
  BY <1>1
<1>8. \A i \in 1 .. n - 1 : Tail(L)[i] = M[i]
  <2> SUFFICES ASSUME NEW i \in 1 .. n - 1 PROVE Tail(L)[i] = M[i]
    OBVIOUS
  <2>1. Tail(L)[i] = L[i + 1] /\ i + 1 \in 1 .. n
    BY <1>6, <1>7
  <2>2. L[i + 1] = <<fields[i + 1], "=">> \o values[i + 1]
    BY <1>2, <2>1
  <2>3. Tail(fields)[i] = fields[i + 1] /\ Tail(values)[i] = values[i + 1]
    BY <1>3, <1>4
  <2>4. M[i] = <<Tail(fields)[i], "=">> \o Tail(values)[i]
    BY <1>5
  <2> QED
    BY <2>1, <2>2, <2>3, <2>4, Zenon
<1>9. Tail(L) = M
  BY <1>5, <1>6, <1>8, SeqEqual
<1> QED
  BY <1>2, <1>3, <1>4, <1>6, <1>7, <1>9 DEF L, M

(* The same fields with values that hold no separator.                      *)
LEMMA LabelsInjective ==
    ASSUME NEW fields \in Seq(Tokens), NEW r \in Seq(Seq(Plain)), NEW q \in Seq(Seq(Plain)),
           Len(r) = Len(fields), Len(q) = Len(fields),
           Behind(Tokens, Labelled(fields, r)) = Behind(Tokens, Labelled(fields, q))
    PROVE  r = q
<1> DEFINE S == Seq(Plain)
           Same(s) == \A a, b \in Seq(S) :
                Len(a) = Len(s) /\ Len(b) = Len(s)
                /\ Behind(Tokens, Labelled(s, a)) = Behind(Tokens, Labelled(s, b)) => a = b
           P == {s \in Seq(Tokens) : Same(s)}
<1>0. Plain \subseteq Tokens /\ "/" \in Tokens /\ "/" \notin Plain /\ "=" \in Tokens
  BY NamingAssumption DEF Plain
<1>1. \A s \in Seq(S) : s \in Seq(Seq(Tokens))
  BY <1>0, SeqMonotonic
<1>2. <<>> \in P
  <2>1. \A a, b \in Seq(S) : Len(a) = 0 /\ Len(b) = 0 => a = b
    BY EmptySeq
  <2> QED
    BY <2>1, EmptySeq
<1>3. ASSUME NEW s \in Seq(Tokens), s # <<>>, Tail(s) \in P PROVE s \in P
  <2> SUFFICES ASSUME NEW a \in Seq(S), NEW b \in Seq(S), Len(a) = Len(s), Len(b) = Len(s),
                      Behind(Tokens, Labelled(s, a)) = Behind(Tokens, Labelled(s, b))
               PROVE  a = b
    OBVIOUS
  <2> HIDE DEF S, P
  <2>1. Len(s) \in Nat /\ Len(s) # 0 /\ a # <<>> /\ b # <<>>
    BY <1>3, EmptySeq, LenProperties
  <2>2. Tail(s) \in Seq(Tokens) /\ Len(Tail(s)) = Len(s) - 1 /\ Head(s) \in Tokens
    BY <1>3, HeadTailProperties
  <2>3. Head(a) \in S /\ Tail(a) \in Seq(S) /\ Len(Tail(a)) = Len(s) - 1
        /\ Head(b) \in S /\ Tail(b) \in Seq(S) /\ Len(Tail(b)) = Len(s) - 1
    BY <2>1, HeadTailProperties
  <2> DEFINE x == Head(a)
             y == Head(b)
             f == <<Head(s), "=">>
             u == Behind(Tokens, Labelled(Tail(s), Tail(a)))
             v == Behind(Tokens, Labelled(Tail(s), Tail(b)))
  <2>4. a \in Seq(Seq(Tokens)) /\ b \in Seq(Seq(Tokens)) /\ Tail(a) \in Seq(Seq(Tokens)) /\ Tail(b) \in Seq(Seq(Tokens))
    BY <1>1, <2>3
  <2>5. Labelled(s, a) \in Seq(Seq(Tokens)) /\ Labelled(s, b) \in Seq(Seq(Tokens))
        /\ Labelled(Tail(s), Tail(a)) \in Seq(Seq(Tokens)) /\ Labelled(Tail(s), Tail(b)) \in Seq(Seq(Tokens))
    BY <2>2, <2>3, <2>4, LabelledType
  <2>6. Behind(Tokens, Labelled(s, a)) = <<"/">> \o ((f \o x) \o u)
        /\ Behind(Tokens, Labelled(s, b)) = <<"/">> \o ((f \o y) \o v)
        /\ u \in Seq(Tokens) /\ v \in Seq(Tokens)
        /\ (u # <<>> => u[1] = "/") /\ (v # <<>> => v[1] = "/")
    <3>1. Labelled(s, a) # <<>> /\ Head(Labelled(s, a)) = f \o x /\ Tail(Labelled(s, a)) = Labelled(Tail(s), Tail(a))
      BY <1>3, <2>4, LabelledTail
    <3>2. Labelled(s, b) # <<>> /\ Head(Labelled(s, b)) = f \o y /\ Tail(Labelled(s, b)) = Labelled(Tail(s), Tail(b))
      BY <1>3, <2>4, LabelledTail
    <3>3. Behind(Tokens, Labelled(s, a)) = <<"/">> \o (Head(Labelled(s, a)) \o Behind(Tokens, Tail(Labelled(s, a))))
      BY <1>0, <2>5, <3>1, BehindHead
    <3>4. Behind(Tokens, Labelled(s, b)) = <<"/">> \o (Head(Labelled(s, b)) \o Behind(Tokens, Tail(Labelled(s, b))))
      BY <1>0, <2>5, <3>2, BehindHead
    <3>5. u \in Seq(Tokens) /\ (u # <<>> => u[1] = "/")
      BY <1>0, <2>5, BehindStarts
    <3>6. v \in Seq(Tokens) /\ (v # <<>> => v[1] = "/")
      BY <1>0, <2>5, BehindStarts
    <3> QED
      BY <3>1, <3>2, <3>3, <3>4, <3>5, <3>6, Zenon
  <2>7. x \in Seq(Plain) /\ y \in Seq(Plain) /\ x \in Seq(Tokens) /\ y \in Seq(Tokens)
    <3>1. x \in Seq(Plain) /\ y \in Seq(Plain)
      BY <2>3 DEF S
    <3> QED
      BY <1>0, <3>1, SeqMonotonic
  <2>8. f \in Seq(Tokens)
    <3>1. \A c, d \in Tokens : <<c, d>> \in Seq(Tokens)
      OBVIOUS
    <3> QED
      BY <1>0, <2>2, <3>1
  <2>9. <<"/">> \in Seq(Tokens)
    BY <1>0, ShortTexts
  <2>10. <<"/">> \o ((f \o x) \o u) = <<"/">> \o ((f \o y) \o v)
    BY <2>6, Zenon
  <2>11. u \in Seq(Tokens) /\ v \in Seq(Tokens) /\ (u # <<>> => u[1] = "/") /\ (v # <<>> => v[1] = "/")
    BY <2>6, Zenon
  <2> HIDE DEF x, y, f, u, v
  <2>12. x \o u = y \o v
    <3>1. Covered(Tokens, <<"/">>, f, x, u) /\ Covered(Tokens, <<"/">>, f, y, v)
      BY <2>7, <2>8, <2>9, <2>11, Zenon DEF Covered
    <3>2. Alike(<<"/">>, f, x, y, u, v)
      BY <2>10, Zenon DEF Alike
    <3> QED
      BY <3>1, <3>2, Uncovered, SMTT(40)
  <2>13. x = y /\ u = v
    <3>1. Parted(Tokens, Plain, x, y, u, v)
      BY <2>7, <2>11, <2>12, Zenon DEF Parted
    <3> QED
      BY <1>0, <3>1, CutParted
  <2>14. Tail(a) = Tail(b)
    <3>1. Same(Tail(s))
      BY <1>3 DEF P
    <3> QED
      BY <2>2, <2>3, <2>13, <3>1, Zenon DEF u, v
  <2> QED
    BY <2>1, <2>13, <2>14, SameHeadTail DEF x, y
<1>4. P \in SUBSET Seq(Tokens)
  OBVIOUS
<1> HIDE DEF P
<1>5. fields \in P
  BY <1>2, <1>3, <1>4, TailInduction
<1> QED
  BY <1>5 DEF P

(* What stands in a key for the i-th field.                                 *)
Rendered(tuple, i) ==
    IF i > Len(tuple) THEN <<"absent">>
    ELSE IF tuple[i] = Null THEN <<"null">> ELSE Escape(tuple[i])

Values == Seq({Null} \cup Seq(Tokens))

LEMMA RenderedType ==
    ASSUME NEW tuple \in Values, NEW i \in Nat, i # 0
    PROVE  /\ Rendered(tuple, i) \in Seq(Plain)
           /\ Rendered(tuple, i) = <<"absent">> => i > Len(tuple)
           /\ i > Len(tuple) => Rendered(tuple, i) = <<"absent">>
<1>1. Len(tuple) \in Nat /\ (i <= Len(tuple) => tuple[i] = Null \/ tuple[i] \in Seq(Tokens))
  BY DEF Values
<1> QED
  BY <1>1, Escapes, EscapeTells DEF Rendered

LEMMA RenderedTells ==
    ASSUME NEW a \in Values, NEW b \in Values, NEW i \in Nat, i # 0, i <= Len(a), i <= Len(b),
           Rendered(a, i) = Rendered(b, i)
    PROVE  a[i] = b[i]
<1>1. (a[i] = Null \/ a[i] \in Seq(Tokens)) /\ (b[i] = Null \/ b[i] \in Seq(Tokens))
  BY DEF Values
<1>2. Len(a) \in Nat /\ Len(b) \in Nat
  BY DEF Values
<1>3. Rendered(a, i) = (IF a[i] = Null THEN <<"null">> ELSE Escape(a[i]))
      /\ Rendered(b, i) = (IF b[i] = Null THEN <<"null">> ELSE Escape(b[i]))
  BY <1>2 DEF Rendered
<1>4. CASE a[i] = Null
  BY <1>1, <1>3, <1>4, EscapeTells
<1>5. CASE b[i] = Null
  BY <1>1, <1>3, <1>5, EscapeTells
<1>6. CASE a[i] # Null /\ b[i] # Null
  BY <1>1, <1>3, <1>6, EscapeInjective
<1> QED
  BY <1>4, <1>5, <1>6

(* Of the tuples a spec can have, no two have one path: no value passes for *)
(* another, for a null, for an absence or for a field                       *)
(* (health/partition.rs:54-158).                                            *)
THEOREM PathInjective ==
    ASSUME NEW fields \in Seq(Tokens), NEW a \in Values, NEW b \in Values,
           Len(a) <= Len(fields), Len(b) <= Len(fields),
           PartitionPath(fields, a) = PartitionPath(fields, b)
    PROVE  a = b
<1> DEFINE n == Len(fields)
           r == [i \in 1 .. n |-> Rendered(a, i)]
           q == [i \in 1 .. n |-> Rendered(b, i)]
<1>1. n \in Nat /\ DOMAIN fields = 1 .. n /\ Len(a) \in Nat /\ Len(b) \in Nat
  BY LenProperties DEF Values
<1>2. CASE fields = <<>>
  <2>1. Len(a) = 0 /\ Len(b) = 0
    BY <1>1, <1>2, EmptySeq
  <2> QED
    BY <2>1, EmptySeq DEF Values
<1>3. CASE fields # <<>>
  <2>1. \A i \in 1 .. n : Rendered(a, i) \in Seq(Plain) /\ Rendered(b, i) \in Seq(Plain)
    BY <1>1, RenderedType
  <2>2. r \in Seq(Seq(Plain)) /\ q \in Seq(Seq(Plain)) /\ Len(r) = n /\ Len(q) = n
    BY <1>1, <2>1
  <2>3. PartitionPath(fields, a) = Join(Labelled(fields, r)) /\ PartitionPath(fields, b) = Join(Labelled(fields, q))
    BY <1>1, <1>3, Zenon DEF PartitionPath, Labelled, Rendered
  <2> HIDE DEF r, q
  <2>4. r \in Seq(Seq(Tokens)) /\ q \in Seq(Seq(Tokens))
    <3>1. Plain \subseteq Tokens
      BY DEF Plain
    <3> QED
      BY <2>2, <3>1, SeqMonotonic
  <2>5. Labelled(fields, r) \in Seq(Seq(Tokens)) /\ Labelled(fields, q) \in Seq(Seq(Tokens))
        /\ Labelled(fields, r) # <<>> /\ Labelled(fields, q) # <<>>
    BY <1>3, <2>2, <2>4, LabelledType, LabelledTail
  <2>6. Behind(Tokens, Labelled(fields, r)) = Behind(Tokens, Labelled(fields, q))
    <3>1. "/" \in Tokens
      BY NamingAssumption
    <3>2. Behind(Tokens, Labelled(fields, r)) = <<"/">> \o Join(Labelled(fields, r))
      BY <2>5, <3>1, JoinIsBehind
    <3>3. Behind(Tokens, Labelled(fields, q)) = <<"/">> \o Join(Labelled(fields, q))
      BY <2>5, <3>1, JoinIsBehind
    <3> QED
      BY <2>3, <3>2, <3>3
  <2>7. r = q
    BY <2>2, <2>6, LabelsInjective
  <2>8. \A i \in 1 .. n : Rendered(a, i) = Rendered(b, i)
    <3> SUFFICES ASSUME NEW i \in 1 .. n PROVE Rendered(a, i) = Rendered(b, i)
      OBVIOUS
    <3>1. r[i] = q[i]
      BY <2>7
    <3> QED
      BY <3>1 DEF r, q
  <2>9. ~ (Len(a) < Len(b)) /\ ~ (Len(b) < Len(a))
    <3>1. ASSUME NEW c \in Values, NEW d \in Values, Len(c) < Len(d), Len(d) <= n,
                 \A i \in 1 .. n : Rendered(c, i) = Rendered(d, i)
          PROVE  FALSE
      <4> DEFINE k == Len(d)
      <4>1. k \in Nat /\ Len(c) \in Nat
        BY DEF Values
      <4>2. k # 0 /\ k \in 1 .. n /\ k > Len(c)
        BY <1>1, <3>1, <4>1
      <4>3. Rendered(c, k) = <<"absent">>
        BY <4>1, <4>2, RenderedType
      <4>4. Rendered(d, k) = <<"absent">>
        BY <3>1, <4>2, <4>3
      <4>5. k > Len(d)
        BY <4>1, <4>2, <4>4, RenderedType
      <4> QED
        BY <4>1, <4>5
    <3> QED
      BY <2>8, <3>1
  <2>10. Len(a) = Len(b)
    BY <1>1, <2>9
  <2>11. \A i \in 1 .. Len(a) : a[i] = b[i]
    <3> SUFFICES ASSUME NEW i \in 1 .. Len(a) PROVE a[i] = b[i]
      OBVIOUS
    <3>1. i \in Nat /\ i # 0 /\ i <= Len(a) /\ i <= Len(b) /\ i \in 1 .. n
      BY <1>1, <2>10
    <3> QED
      BY <2>8, <3>1, RenderedTells
  <2> QED
    BY <2>10, <2>11, SeqEqual DEF Values
<1> QED
  BY <1>2, <1>3

-----------------------------------------------------------------------------
(* Globs *)

(* How far the first n tokens of a glob may get.                            *)
Places(f, glob, text, n) ==
    /\ f \in [0 .. n -> SUBSET (0 .. Len(text))]
    /\ f[0] = {0}
    /\ \A i \in 1 .. n : f[i] = Advance(glob[i], text, f[i - 1])

LEMMA Advances == ASSUME NEW token, NEW text, NEW places PROVE Advance(token, text, places) \in SUBSET (0 .. Len(text))
  BY DEF Advance

LEMMA PlacesExist ==
    ASSUME NEW T, NEW glob \in Seq(T), NEW text \in Seq(T)
    PROVE  \E f : Places(f, glob, text, Len(glob))
<1> DEFINE N == Len(glob)
           Can(n) == \E f : Places(f, glob, text, n)
           S == {n \in Nat : Can(n)}
<1>0. N \in Nat /\ Len(text) \in Nat
  BY LenProperties
<1> HIDE DEF N
<1>1. Can(0)
  <2> DEFINE f == [i \in 0 .. 0 |-> {0}]
  <2>1. f \in [0 .. 0 -> SUBSET (0 .. Len(text))] /\ f[0] = {0}
    BY <1>0
  <2>2. Places(f, glob, text, 0)
    BY <2>1 DEF Places
  <2> QED
    BY <2>2
<1>2. ASSUME NEW n \in Nat, Can(n) PROVE Can(n + 1)
  <2>1. PICK g : Places(g, glob, text, n)
    BY <1>2
  <2> DEFINE last == Advance(glob[n + 1], text, g[n])
             f == [i \in 0 .. n + 1 |-> IF i = n + 1 THEN last ELSE g[i]]
  <2>2. last \in SUBSET (0 .. Len(text))
    BY Advances
  <2> HIDE DEF last
  <2>3. f \in [0 .. n + 1 -> SUBSET (0 .. Len(text))] /\ f[0] = {0}
    BY <2>1, <2>2 DEF Places
  <2>4. ASSUME NEW i \in 1 .. n + 1 PROVE f[i] = Advance(glob[i], text, f[i - 1])
    <3>1. i - 1 \in 0 .. n /\ f[i - 1] = g[i - 1]
      OBVIOUS
    <3>2. CASE i = n + 1
      BY <3>1, <3>2 DEF last
    <3>3. CASE i # n + 1
      <4>1. i \in 1 .. n /\ f[i] = g[i]
        BY <3>3
      <4> QED
        BY <2>1, <3>1, <4>1 DEF Places
    <3> QED
      BY <3>2, <3>3
  <2> HIDE DEF f
  <2>5. Places(f, glob, text, n + 1)
    BY <2>3, <2>4 DEF Places
  <2> QED
    BY <2>5
<1> HIDE DEF Can
<1>3. \A n \in Nat : n \in S
  <2>1. 0 \in S
    BY <1>1
  <2>2. \A n \in S : n + 1 \in S
    BY <1>2
  <2> HIDE DEF S
  <2>3. S \in SUBSET Nat
    BY DEF S
  <2> QED
    BY <2>1, <2>2, <2>3, Upwards
<1> QED
  BY <1>0, <1>3 DEF Can, N

(* The matcher's recursion says what its steps say.                         *)
LEMMA StepByStep ==
    ASSUME NEW T, NEW glob \in Seq(T), NEW text \in Seq(T)
    PROVE  \E f : /\ Places(f, glob, text, Len(glob))
                  /\ GlobMatches(glob, text) <=> Len(text) \in f[Len(glob)]
<1> DEFINE N == Len(glob)
           Eq(g) == g = [i \in 0 .. N |-> IF i = 0 THEN {0} ELSE Advance(glob[i], text, g[i - 1])]
           from == CHOOSE g : Eq(g)
<1>0. N \in Nat
  BY LenProperties
<1>1. GlobMatches(glob, text) <=> Len(text) \in from[N]
  BY DEF GlobMatches
<1>2. PICK f : Places(f, glob, text, N)
  BY PlacesExist
<1> HIDE DEF N
<1>3. Eq(f)
  <2>1. f = [i \in 0 .. N |-> f[i]]
    BY <1>2 DEF Places
  <2>2. \A i \in 0 .. N : f[i] = IF i = 0 THEN {0} ELSE Advance(glob[i], text, f[i - 1])
    BY <1>0, <1>2 DEF Places
  <2> QED
    BY <2>1, <2>2
<1>4. Eq(from)
  BY <1>3
<1> HIDE DEF from
<1>5. from[0] = {0} /\ \A i \in 1 .. N : from[i] = Advance(glob[i], text, from[i - 1])
  <2>1. \A i \in 0 .. N : from[i] = IF i = 0 THEN {0} ELSE Advance(glob[i], text, from[i - 1])
    BY <1>4
  <2>2. 0 \in 0 .. N /\ \A i \in 1 .. N : i \in 0 .. N /\ i # 0
    BY <1>0
  <2> QED
    BY <2>1, <2>2
<1>6. \A i \in 0 .. N : from[i] \in SUBSET (0 .. Len(text))
  <2>1. {0} \in SUBSET (0 .. Len(text))
    BY LenProperties
  <2> SUFFICES ASSUME NEW i \in 0 .. N PROVE from[i] \in SUBSET (0 .. Len(text))
    OBVIOUS
  <2>2. CASE i = 0
    BY <1>5, <2>1, <2>2
  <2>3. CASE i # 0
    <3>1. i \in 1 .. N
      BY <1>0, <2>3
    <3>2. from[i] = Advance(glob[i], text, from[i - 1])
      BY <1>5, <3>1
    <3> QED
      BY <3>2, Advances
  <2> QED
    BY <2>2, <2>3
<1>7. Places(from, glob, text, N)
  <2>1. from = [i \in 0 .. N |-> from[i]]
    BY <1>4
  <2>2. from \in [0 .. N -> SUBSET (0 .. Len(text))]
    BY <1>6, <2>1
  <2> QED
    BY <1>5, <2>2 DEF Places
<1> QED
  BY <1>1, <1>7 DEF N

(* A glob without wildcards gets one token further with each of its own, or *)
(* nowhere.                                                                 *)
LEMMA PlainStep ==
    ASSUME NEW T, NEW text \in Seq(T), NEW token, token \notin {"*", "**"}, NEW k \in 0 .. Len(text)
    PROVE  Advance(token, text, {k}) = IF k < Len(text) /\ text[k + 1] = token THEN {k + 1} ELSE {}
<1> DEFINE places == Advance(token, text, {k})
<1>1. Len(text) \in Nat /\ k \in Nat
  BY LenProperties
<1>2. \A j : j \in places <=> j \in 0 .. Len(text) /\ j = k + 1 /\ text[j] = token
  BY DEF Advance
<1> HIDE DEF places
<1>3. CASE k < Len(text) /\ text[k + 1] = token
  <2>1. k + 1 \in 0 .. Len(text)
    BY <1>1, <1>3
  <2>2. \A j : j \in places <=> j \in {k + 1}
    BY <1>2, <1>3, <2>1
  <2>3. places = {k + 1}
    BY <2>2
  <2> QED
    BY <1>3, <2>3 DEF places
<1>4. CASE ~ (k < Len(text) /\ text[k + 1] = token)
  <2>1. \A j : j \notin places
    BY <1>1, <1>2, <1>4
  <2>2. places = {}
    BY <2>1
  <2> QED
    BY <1>4, <2>2 DEF places
<1> QED
  BY <1>3, <1>4

LEMMA Nowhere == ASSUME NEW text, NEW token PROVE Advance(token, text, {}) = {}
  BY DEF Advance

LEMMA PlainGlob ==
    ASSUME NEW T, NEW glob \in Seq(T), NEW text \in Seq(T), \A i \in 1 .. Len(glob) : glob[i] \notin {"*", "**"}
    PROVE  GlobMatches(glob, text) <=> glob = text
<1> DEFINE N == Len(glob)
           L == Len(text)
           Agree(n) == n <= L /\ \A i \in 1 .. n : glob[i] = text[i]
<1>0. N \in Nat /\ L \in Nat
  BY LenProperties
<1>1. PICK f : Places(f, glob, text, N) /\ (GlobMatches(glob, text) <=> L \in f[N])
  BY StepByStep
<1> DEFINE S == {n \in Nat : n <= N => f[n] = IF Agree(n) THEN {n} ELSE {}}
<1>2. 0 \in S
  BY <1>0, <1>1 DEF Places
<1>3. ASSUME NEW n \in S PROVE n + 1 \in S
  <2> SUFFICES ASSUME n + 1 <= N PROVE f[n + 1] = IF Agree(n + 1) THEN {n + 1} ELSE {}
    OBVIOUS
  <2>1. n \in Nat /\ f[n] = IF Agree(n) THEN {n} ELSE {}
    BY <1>0
  <2>2. n + 1 \in 1 .. N /\ (n + 1) - 1 = n
    BY <1>0, <2>1
  <2>3. f[n + 1] = Advance(glob[n + 1], text, f[n])
    BY <1>1, <2>2 DEF Places
  <2>4. CASE Agree(n)
    <3>1. f[n + 1] = IF n < L /\ text[n + 1] = glob[n + 1] THEN {n + 1} ELSE {}
      <4>1. n \in 0 .. Len(text) /\ glob[n + 1] \notin {"*", "**"} /\ f[n] = {n}
        BY <2>1, <2>2, <2>4
      <4>2. Advance(glob[n + 1], text, {n}) = IF n < Len(text) /\ text[n + 1] = glob[n + 1] THEN {n + 1} ELSE {}
        BY <4>1, PlainStep
      <4> QED
        BY <2>3, <4>1, <4>2
    <3>2. n < L /\ text[n + 1] = glob[n + 1] <=> Agree(n + 1)
      <4>1. \A i \in 1 .. n + 1 : i = n + 1 \/ i \in 1 .. n
        BY <2>1
      <4> QED
        BY <1>0, <2>1, <2>4, <4>1
    <3> QED
      BY <3>1, <3>2
  <2>5. CASE ~ Agree(n)
    <3>1. ~ Agree(n + 1)
      BY <1>0, <2>1, <2>5
    <3> QED
      BY <2>1, <2>3, <2>5, <3>1, Nowhere
  <2> QED
    BY <2>4, <2>5
<1>4. N \in S
  <2>1. S \in SUBSET Nat
    OBVIOUS
  <2> HIDE DEF S
  <2> QED
    BY <1>0, <1>2, <1>3, <2>1, Upwards
<1>5. f[N] = IF Agree(N) THEN {N} ELSE {}
  BY <1>0, <1>4
<1>6. GlobMatches(glob, text) <=> N = L /\ Agree(N)
  BY <1>0, <1>1, <1>5
<1>7. N = L /\ Agree(N) => glob = text
  BY SeqEqual
<1>8. glob = text => N = L /\ Agree(N)
  BY <1>0
<1> QED
  BY <1>6, <1>7, <1>8

(* What begins like another glob up to its last token, a "**", matches no   *)
(* more than that.                                                          *)
LEMMA Swallowed ==
    ASSUME NEW T, NEW broad \in Seq(T), NEW narrow \in Seq(T), NEW text \in Seq(T),
           NEW n \in Nat, Len(broad) = n + 1, broad[n + 1] = "**", n <= Len(narrow),
           \A i \in 1 .. n : broad[i] = narrow[i],
           GlobMatches(narrow, text)
    PROVE  GlobMatches(broad, text)
<1> DEFINE N == Len(narrow)
           L == Len(text)
<1>0. N \in Nat /\ L \in Nat
  BY LenProperties
<1>1. PICK f : Places(f, narrow, text, N) /\ (GlobMatches(narrow, text) <=> L \in f[N])
  BY StepByStep
<1>2. PICK g : Places(g, broad, text, n + 1) /\ (GlobMatches(broad, text) <=> L \in g[n + 1])
  BY StepByStep
<1>3. \A m \in Nat : m <= n => g[m] = f[m]
  <2> DEFINE S == {m \in Nat : m <= n => g[m] = f[m]}
  <2>1. 0 \in S
    BY <1>1, <1>2 DEF Places
  <2>2. ASSUME NEW m \in S PROVE m + 1 \in S
    <3> SUFFICES ASSUME m + 1 <= n PROVE g[m + 1] = f[m + 1]
      OBVIOUS
    <3>1. m \in Nat /\ g[m] = f[m] /\ m + 1 \in 1 .. n /\ m + 1 \in 1 .. n + 1 /\ m + 1 \in 1 .. N /\ (m + 1) - 1 = m
      BY <1>0
    <3>2. g[m + 1] = Advance(broad[m + 1], text, g[m]) /\ f[m + 1] = Advance(narrow[m + 1], text, f[m])
      BY <1>1, <1>2, <3>1 DEF Places
    <3> QED
      BY <3>1, <3>2
  <2> HIDE DEF S
  <2>3. S \in SUBSET Nat
    BY DEF S
  <2> QED
    BY <2>1, <2>2, <2>3, Upwards DEF S
<1>4. f[n] # {}
  <2> DEFINE S == {m \in Nat : n + m <= N => (f[n] = {} => f[n + m] = {})}
  <2>1. 0 \in S
    OBVIOUS
  <2>2. ASSUME NEW m \in S PROVE m + 1 \in S
    <3> SUFFICES ASSUME n + (m + 1) <= N, f[n] = {} PROVE f[n + (m + 1)] = {}
      OBVIOUS
    <3>1. m \in Nat /\ f[n + m] = {} /\ n + (m + 1) \in 1 .. N /\ (n + (m + 1)) - 1 = n + m
      BY <1>0
    <3>2. f[n + (m + 1)] = Advance(narrow[n + (m + 1)], text, f[n + m])
      BY <1>1, <3>1 DEF Places
    <3> QED
      BY <3>1, <3>2, Nowhere
  <2>3. N - n \in S
    <3>1. S \in SUBSET Nat
      OBVIOUS
    <3>2. N - n \in Nat
      BY <1>0
    <3> HIDE DEF S, N
    <3> QED
      BY <2>1, <2>2, <3>1, <3>2, Upwards
  <2>4. n + (N - n) = N
    BY <1>0
  <2> QED
    BY <1>0, <1>1, <2>3, <2>4
<1>5. PICK k : k \in f[n]
  BY <1>4
<1>6. k \in 0 .. L
  <2>1. n \in 0 .. N
    BY <1>0
  <2>2. f[n] \in SUBSET (0 .. L)
    BY <1>1, <2>1 DEF Places
  <2> QED
    BY <1>5, <2>2
<1>7. g[n + 1] = Advance("**", text, g[n])
  <2>1. n + 1 \in 1 .. n + 1 /\ (n + 1) - 1 = n
    OBVIOUS
  <2> QED
    BY <1>2, <2>1 DEF Places
<1>8. L \in Advance("**", text, g[n])
  <2>1. k \in g[n] /\ k <= L /\ L \in 0 .. L
    BY <1>0, <1>3, <1>5, <1>6
  <2> QED
    BY <2>1 DEF Advance
<1> QED
  BY <1>2, <1>7, <1>8

-----------------------------------------------------------------------------
(* Patterns *)

LEMMA FlattenConcat ==
    ASSUME NEW T, NEW p \in Seq(Seq(T)), NEW q \in Seq(Seq(T))
    PROVE  FlattenSeq(p \o q) = FlattenSeq(p) \o FlattenSeq(q)
<1> DEFINE S == Seq(T)
           P == {r \in Seq(S) : FlattenSeq(p \o r) = FlattenSeq(p) \o FlattenSeq(r)}
<1>0. FlattenSeq(p) \in Seq(T) /\ FlattenSeq(<<>>) = <<>> /\ p \in Seq(S) /\ q \in Seq(S)
  BY FlattenType, EmptySeq DEF FlattenSeq
<1>1. <<>> \in P
  <2>1. p \o <<>> = p /\ FlattenSeq(p) \o <<>> = FlattenSeq(p)
    BY <1>0, ConcatEmptySeq
  <2> QED
    BY <1>0, <2>1, EmptySeq
<1>2. ASSUME NEW r \in Seq(S), NEW x \in S, r \in P PROVE Append(r, x) \in P
  <2>1. FlattenSeq(p \o r) = FlattenSeq(p) \o FlattenSeq(r)
    BY <1>2
  <2>2. FlattenSeq(r) \in Seq(T) /\ x \in Seq(T)
    BY <1>2, FlattenType
  <2>3. FlattenSeq(Append(r, x)) = FlattenSeq(r) \o x
    BY <1>2, FlattenAppend
  <2> HIDE DEF S, P
  <2>4. p \o r \in Seq(S) /\ Append(r, x) \in Seq(S) /\ p \o Append(r, x) = Append(p \o r, x)
    BY <1>0, <1>2
  <2>5. FlattenSeq(Append(p \o r, x)) = FlattenSeq(p \o r) \o x
    <3>1. p \o r \in Seq(Seq(T)) /\ x \in Seq(T)
      BY <2>2, <2>4 DEF S
    <3> DEFINE pr == p \o r
    <3>2. pr \in Seq(Seq(T))
      BY <3>1
    <3> HIDE DEF pr
    <3>3. FlattenSeq(Append(pr, x)) = FlattenSeq(pr) \o x
      BY <3>1, <3>2, FlattenAppend
    <3> QED
      BY <3>3 DEF pr
  <2>6. (FlattenSeq(p) \o FlattenSeq(r)) \o x = FlattenSeq(p) \o (FlattenSeq(r) \o x)
    BY <1>0, <2>2, Associative, SMTT(40)
  <2>7. FlattenSeq(p \o Append(r, x)) = FlattenSeq(p) \o FlattenSeq(Append(r, x))
    BY <2>1, <2>3, <2>4, <2>5, <2>6, Zenon
  <2> QED
    BY <2>4, <2>7 DEF P
<1>3. P \in SUBSET Seq(S)
  OBVIOUS
<1> HIDE DEF P, S
<1>4. q \in P
  BY <1>0, <1>1, <1>2, <1>3, AppendInduction
<1> QED
  BY <1>4 DEF P

(* A separator between texts, as in front of all but the first.             *)
Parts(sep, code, text) == FlattenSeq([i \in DOMAIN text |-> (IF i = 1 THEN <<>> ELSE sep) \o code[text[i]]])
After(S, sep, code) == [x \in S |-> sep \o code[x]]

LEMMA Separated ==
    ASSUME NEW S, NEW T, NEW sep \in Seq(T), NEW code \in [S -> Seq(T)], NEW text \in Seq(S), text # <<>>
    PROVE  Parts(sep, code, text) = code[Head(text)] \o Written(After(S, sep, code), Tail(text))
<1> DEFINE n == Len(text)
           behind == [x \in S |-> sep \o code[x]]
           pieces == [i \in DOMAIN text |-> (IF i = 1 THEN <<>> ELSE sep) \o code[text[i]]]
           rest == [i \in DOMAIN Tail(text) |-> behind[Tail(text)[i]]]
<1>1. n \in Nat /\ n # 0 /\ DOMAIN text = 1 .. n /\ \A i \in 1 .. n : text[i] \in S
  BY EmptySeq, LenProperties
<1>2. Head(text) = text[1] /\ Tail(text) \in Seq(S) /\ Len(Tail(text)) = n - 1
      /\ \A i \in 1 .. n - 1 : Tail(text)[i] = text[i + 1]
  BY HeadTailProperties
<1>3. behind \in [S -> Seq(T)] /\ \A x \in S : behind[x] = sep \o code[x]
  <2>1. \A x \in S : sep \o code[x] \in Seq(T)
    BY ConcatProperties
  <2> QED
    BY <2>1
<1>4. rest \in Seq(Seq(T)) /\ Len(rest) = n - 1
  <2> DEFINE tail == Tail(text)
  <2>1. tail \in Seq(S) /\ Len(tail) = n - 1 /\ behind \in [S -> Seq(T)]
    BY <1>2, <1>3
  <2> HIDE DEF n, tail, behind
  <2>2. n - 1 \in Nat /\ DOMAIN tail = 1 .. n - 1 /\ \A i \in 1 .. n - 1 : tail[i] \in S
    BY <2>1, LenProperties
  <2>3. rest = [i \in 1 .. n - 1 |-> behind[tail[i]]]
    BY <2>2 DEF tail
  <2>4. \A i \in 1 .. n - 1 : behind[tail[i]] \in Seq(T)
    BY <2>1, <2>2
  <2>5. rest \in [1 .. n - 1 -> Seq(T)]
    BY <2>3, <2>4
  <2> DEFINE k == n - 1
  <2>6. k \in Nat /\ rest \in [1 .. k -> Seq(T)]
    BY <2>2, <2>5
  <2> HIDE DEF rest, k
  <2>7. rest \in Seq(Seq(T)) /\ Len(rest) = k
    BY <2>6
  <2> QED
    BY <2>7 DEF k
<1>5. \A i \in 1 .. n - 1 : rest[i] = sep \o code[text[i + 1]]
  <2>1. \A i \in 1 .. n - 1 : i \in DOMAIN Tail(text) /\ i + 1 \in 1 .. n
    BY <1>1, <1>2, LenProperties
  <2> QED
    BY <1>1, <1>2, <1>3, <2>1
<1>6. pieces \in Seq(Seq(T)) /\ Len(pieces) = n /\ pieces[1] = code[text[1]]
      /\ \A i \in 1 .. n - 1 : pieces[i + 1] = sep \o code[text[i + 1]]
  <2> HIDE DEF n, behind, rest
  <2>1. \A x \in Seq(T) : <<>> \o x = x /\ sep \o x \in Seq(T)
    BY ConcatProperties, ConcatEmptySeq
  <2>2. \A i \in 1 .. n : code[text[i]] \in Seq(T)
    BY <1>1
  <2>3. pieces = [i \in 1 .. n |-> IF i = 1 THEN code[text[i]] ELSE sep \o code[text[i]]]
    BY <1>1, <2>1, <2>2
  <2>4. \A i \in 1 .. n : (IF i = 1 THEN code[text[i]] ELSE sep \o code[text[i]]) \in Seq(T)
    BY <2>1, <2>2
  <2>5. pieces \in [1 .. n -> Seq(T)]
    BY <2>3, <2>4
  <2>6. pieces[1] = code[text[1]] /\ \A i \in 1 .. n - 1 : pieces[i + 1] = sep \o code[text[i + 1]]
    <3>1. 1 \in 1 .. n /\ \A i \in 1 .. n - 1 : i + 1 \in 1 .. n /\ i + 1 # 1
      BY <1>1
    <3>2. \A i \in 1 .. n : pieces[i] = IF i = 1 THEN code[text[i]] ELSE sep \o code[text[i]]
      BY <2>3
    <3>3. pieces[1] = code[text[1]]
      BY <3>1, <3>2
    <3>4. ASSUME NEW i \in 1 .. n - 1 PROVE pieces[i + 1] = sep \o code[text[i + 1]]
      <4>1. i + 1 \in 1 .. n /\ i + 1 # 1
        BY <3>1
      <4>2. pieces[i + 1] = IF i + 1 = 1 THEN code[text[i + 1]] ELSE sep \o code[text[i + 1]]
        BY <3>2, <4>1, Zenon
      <4> QED
        BY <4>1, <4>2, Zenon
    <3> QED
      BY <3>3, <3>4
  <2> HIDE DEF pieces
  <2>7. pieces \in Seq(Seq(T)) /\ Len(pieces) = n
    BY <1>1, <2>5
  <2> QED
    BY <2>6, <2>7
<1> HIDE DEF n, pieces, rest, behind
<1>7. pieces # <<>> /\ Head(pieces) = code[text[1]]
  BY <1>1, <1>6
<1>8. Tail(pieces) = rest
  <2> DEFINE U == Seq(T)
             tail == Tail(pieces)
  <2>1. pieces \in Seq(U) /\ rest \in Seq(U) /\ Len(rest) = n - 1 /\ Len(pieces) = n
    BY <1>4, <1>6
  <2> HIDE DEF U
  <2>2. tail \in Seq(U) /\ Len(tail) = n - 1 /\ \A i \in 1 .. n - 1 : tail[i] = pieces[i + 1]
    BY <1>7, <2>1, HeadTailProperties
  <2>3. \A i \in 1 .. n - 1 : tail[i] = rest[i]
    BY <1>5, <1>6, <2>2, Zenon
  <2> HIDE DEF tail
  <2>4. tail = rest
    BY <2>1, <2>2, <2>3, SeqEqual
  <2> QED
    BY <2>4 DEF tail
<1>9. FlattenSeq(pieces) = Head(pieces) \o FlattenSeq(rest)
  BY <1>6, <1>7, <1>8, FlattenHead
<1>10. FlattenSeq(rest) = Written(behind, Tail(text))
  BY DEF Written, rest
<1> QED
  BY <1>2, <1>7, <1>9, <1>10 DEF Parts, After, pieces, behind

IsEscape(p, i) == i \in DOMAIN p /\ p[i] = "\\" /\ i < Len(p) /\ p[i + 1] = "."

Piece(p, i) ==
    IF IsEscape(p, i) THEN <<>>
    ELSE IF p[i] # "." THEN EncodedToken(p[i])
    ELSE IF IsEscape(p, i - 1) THEN <<".">> ELSE <<"/">>

PiecesOf(p) == [i \in DOMAIN p |-> Piece(p, i)]

LEMMA Translated == ASSUME NEW p PROVE Translate(p) = FlattenSeq(PiecesOf(p))
  BY Zenon DEF Translate, PiecesOf, Piece, IsEscape

LEMMA PiecesType ==
    ASSUME NEW p \in Seq(Tokens)
    PROVE  /\ PiecesOf(p) \in Seq(Seq(Tokens)) /\ Len(PiecesOf(p)) = Len(p)
           /\ \A i \in 1 .. Len(p) : PiecesOf(p)[i] = Piece(p, i)
<1> DEFINE n == Len(p)
           pieces == PiecesOf(p)
<1>1. n \in Nat /\ DOMAIN p = 1 .. n /\ \A i \in 1 .. n : p[i] \in Tokens
  BY LenProperties
<1>2. <<".">> \in Seq(Tokens) /\ <<"/">> \in Seq(Tokens) /\ <<>> \in Seq(Tokens)
  BY NamingAssumption, ShortTexts, EmptySeq
<1>3. \A i \in 1 .. n : EncodedToken(p[i]) \in Seq(Tokens)
  BY <1>1, TokenCode
<1>4. \A i \in 1 .. n : Piece(p, i) \in Seq(Tokens)
  BY <1>2, <1>3 DEF Piece
<1>5. pieces = [i \in 1 .. n |-> Piece(p, i)]
  BY <1>1 DEF PiecesOf
<1> HIDE DEF n
<1>6. pieces \in [1 .. n -> Seq(Tokens)] /\ \A i \in 1 .. n : pieces[i] = Piece(p, i)
  BY <1>4, <1>5
<1> HIDE DEF pieces
<1>7. pieces \in Seq(Seq(Tokens)) /\ Len(pieces) = n
  BY <1>1, <1>6
<1> QED
  BY <1>6, <1>7 DEF n, pieces

LEMMA TranslateType == ASSUME NEW p \in Seq(Tokens) PROVE Translate(p) \in Seq(Tokens)
  BY Translated, PiecesType, FlattenType

(* No backslash at the end waits for a dot.                                 *)
Settled(p) == p # <<>> => p[Len(p)] # "\\"

LEMMA TranslateConcat ==
    ASSUME NEW p \in Seq(Tokens), NEW q \in Seq(Tokens), Settled(p)
    PROVE  Translate(p \o q) = Translate(p) \o Translate(q)
<1> DEFINE a == Len(p)
           b == Len(q)
           w == p \o q
<1>1. a \in Nat /\ b \in Nat /\ DOMAIN p = 1 .. a /\ DOMAIN q = 1 .. b
  BY LenProperties
<1>2. w \in Seq(Tokens) /\ Len(w) = a + b /\ \A i \in 1 .. a + b : w[i] = IF i <= a THEN p[i] ELSE q[i - a]
  BY ConcatProperties
<1>3. DOMAIN w = 1 .. a + b
  BY <1>2, LenProperties
<1>4. a # 0 => p[a] # "\\"
  BY EmptySeq DEF Settled
<1>5. PiecesOf(p) \in Seq(Seq(Tokens)) /\ Len(PiecesOf(p)) = a /\ \A i \in 1 .. a : PiecesOf(p)[i] = Piece(p, i)
  BY PiecesType
<1>6. PiecesOf(q) \in Seq(Seq(Tokens)) /\ Len(PiecesOf(q)) = b /\ \A i \in 1 .. b : PiecesOf(q)[i] = Piece(q, i)
  BY PiecesType
<1> HIDE DEF w
<1>7. PiecesOf(w) \in Seq(Seq(Tokens)) /\ Len(PiecesOf(w)) = a + b /\ \A i \in 1 .. a + b : PiecesOf(w)[i] = Piece(w, i)
  BY <1>2, PiecesType
<1> DEFINE pp == PiecesOf(p)
           pq == PiecesOf(q)
           pw == PiecesOf(w)
<1> HIDE DEF a, b, pp, pq, pw
<1>8. \A i \in 0 .. a : IsEscape(w, i) <=> IsEscape(p, i)
  <2> SUFFICES ASSUME NEW i \in 0 .. a PROVE IsEscape(w, i) <=> IsEscape(p, i)
    OBVIOUS
  <2>1. CASE i = 0
    BY <1>1, <1>3, <2>1 DEF IsEscape
  <2>2. CASE i # 0 /\ i < a
    <3>1. w[i] = p[i] /\ w[i + 1] = p[i + 1] /\ i \in 1 .. a /\ i \in 1 .. a + b /\ i < Len(w)
      BY <1>1, <1>2, <2>2
    <3> QED
      BY <1>1, <1>3, <2>2, <3>1 DEF IsEscape, a
  <2>3. CASE i # 0 /\ i = a
    <3>1. w[i] = p[i] /\ p[i] # "\\"
      BY <1>1, <1>2, <1>4, <2>3
    <3> QED
      BY <3>1 DEF IsEscape
  <2> QED
    BY <1>1, <2>1, <2>2, <2>3
<1>9. \A i \in 0 .. b : IsEscape(w, a + i) <=> IsEscape(q, i)
  <2> SUFFICES ASSUME NEW i \in 0 .. b PROVE IsEscape(w, a + i) <=> IsEscape(q, i)
    OBVIOUS
  <2>1. CASE i = 0
    <3>1. ~IsEscape(q, i)
      BY <1>1, <2>1 DEF IsEscape
    <3>2. ~IsEscape(p, a)
      BY <1>1, <1>4 DEF IsEscape
    <3>3. a + i = a /\ a \in 0 .. a
      BY <1>1, <2>1
    <3> QED
      BY <1>8, <3>1, <3>2, <3>3
  <2>2. CASE i # 0 /\ i < b
    <3>1. w[a + i] = q[i] /\ w[(a + i) + 1] = q[i + 1] /\ i \in 1 .. b /\ a + i \in 1 .. a + b /\ a + i < Len(w)
      <4>1. a + i \in 1 .. a + b /\ (a + i) + 1 \in 1 .. a + b /\ ~(a + i <= a) /\ ~((a + i) + 1 <= a)
            /\ (a + i) - a = i /\ ((a + i) + 1) - a = i + 1
        BY <1>1, <2>2
      <4> QED
        BY <1>1, <1>2, <2>2, <4>1
    <3> QED
      BY <1>1, <1>3, <2>2, <3>1 DEF IsEscape, b
  <2>3. CASE i # 0 /\ i = b
    <3>1. ~ (a + i < Len(w)) /\ ~ (i < Len(q))
      BY <1>1, <1>2, <2>3 DEF b
    <3> QED
      BY <3>1 DEF IsEscape
  <2> QED
    BY <1>1, <2>1, <2>2, <2>3
<1>10. \A i \in 1 .. a : pw[i] = pp[i]
  <2> SUFFICES ASSUME NEW i \in 1 .. a PROVE pw[i] = pp[i]
    OBVIOUS
  <2>1. i \in 0 .. a /\ i - 1 \in 0 .. a /\ i \in 1 .. a + b /\ w[i] = p[i]
    BY <1>1, <1>2
  <2>2. Piece(w, i) = Piece(p, i)
    BY <1>8, <2>1 DEF Piece
  <2> QED
    BY <1>5, <1>7, <2>1, <2>2 DEF pw, pp
<1>11. \A i \in 1 .. b : pw[a + i] = pq[i]
  <2> SUFFICES ASSUME NEW i \in 1 .. b PROVE pw[a + i] = pq[i]
    OBVIOUS
  <2>1. i \in 0 .. b /\ i - 1 \in 0 .. b /\ (a + i) - 1 = a + (i - 1) /\ a + i \in 1 .. a + b /\ w[a + i] = q[i]
    <3>1. i \in 0 .. b /\ i - 1 \in 0 .. b /\ (a + i) - 1 = a + (i - 1) /\ a + i \in 1 .. a + b
          /\ ~(a + i <= a) /\ (a + i) - a = i
      BY <1>1
    <3> QED
      BY <1>2, <3>1
  <2>2. Piece(w, a + i) = Piece(q, i)
    BY <1>9, <2>1 DEF Piece
  <2> QED
    BY <1>6, <1>7, <2>1, <2>2 DEF pw, pq
<1>12. pw = pp \o pq
  <2> DEFINE S == Seq(Tokens)
  <2>1. pp \in Seq(S) /\ pq \in Seq(S) /\ pw \in Seq(S) /\ Len(pp) = a /\ Len(pq) = b /\ Len(pw) = a + b
    BY <1>5, <1>6, <1>7 DEF pp, pq, pw
  <2> HIDE DEF S
  <2>2. pp \o pq \in Seq(S) /\ Len(pp \o pq) = a + b
        /\ \A i \in 1 .. a + b : (pp \o pq)[i] = IF i <= a THEN pp[i] ELSE pq[i - a]
    BY <2>1, ConcatProperties
  <2>3. ASSUME NEW i \in 1 .. a + b PROVE pw[i] = (pp \o pq)[i]
    <3>1. CASE i <= a
      BY <1>1, <1>10, <2>2, <3>1
    <3>2. CASE ~(i <= a)
      <4>1. i - a \in 1 .. b /\ a + (i - a) = i
        BY <1>1, <3>2
      <4>2. pw[a + (i - a)] = pq[i - a]
        BY <1>11, <4>1
      <4> QED
        BY <2>2, <3>2, <4>1, <4>2
    <3> QED
      BY <3>1, <3>2
  <2> QED
    BY <2>1, <2>2, <2>3, SeqEqual
<1>13. pp \in Seq(Seq(Tokens)) /\ pq \in Seq(Seq(Tokens))
  BY <1>5, <1>6 DEF pp, pq
<1>14. FlattenSeq(pw) = FlattenSeq(pp) \o FlattenSeq(pq)
  BY <1>12, <1>13, FlattenConcat
<1> QED
  BY <1>14, Translated DEF pp, pq, pw, w

LEMMA FlattenOne ==
    ASSUME NEW T, NEW x \in Seq(T)
    PROVE  FlattenSeq(<<x>>) = x
<1> DEFINE S == Seq(T)
<1>1. x \in S
  OBVIOUS
<1> HIDE DEF S
<1>2. <<x>> \in Seq(S) /\ <<x>> # <<>> /\ Head(<<x>>) = x /\ Tail(<<x>>) = <<>>
  BY <1>1
<1>3. <<x>> \in Seq(Seq(T))
  BY <1>2 DEF S
<1>4. FlattenSeq(<<x>>) = Head(<<x>>) \o FlattenSeq(Tail(<<x>>))
  BY <1>2, <1>3, FlattenHead
<1>5. FlattenSeq(<<>>) = <<>>
  BY DEF FlattenSeq
<1> QED
  BY <1>2, <1>4, <1>5, ConcatEmptySeq

LEMMA FlattenTwo ==
    ASSUME NEW T, NEW x \in Seq(T), NEW y \in Seq(T)
    PROVE  FlattenSeq(<<x, y>>) = x \o y
<1> DEFINE S == Seq(T)
<1>1. x \in S /\ y \in S
  OBVIOUS
<1> HIDE DEF S
<1>2. <<x, y>> \in Seq(S) /\ <<x, y>> # <<>> /\ Head(<<x, y>>) = x /\ Tail(<<x, y>>) = <<y>>
  BY <1>1
<1>3. <<x, y>> \in Seq(Seq(T))
  BY <1>2 DEF S
<1>4. FlattenSeq(<<x, y>>) = Head(<<x, y>>) \o FlattenSeq(Tail(<<x, y>>))
  BY <1>2, <1>3, FlattenHead
<1> QED
  BY <1>2, <1>4, FlattenOne

LEMMA OneToken ==
    ASSUME NEW c \in Tokens
    PROVE  Translate(<<c>>) = IF c = "." THEN <<"/">> ELSE EncodedToken(c)
<1> DEFINE p == <<c>>
           x == IF c = "." THEN <<"/">> ELSE EncodedToken(c)
<1>1. p \in Seq(Tokens) /\ Len(p) = 1 /\ p[1] = c /\ DOMAIN p = 1 .. 1
  OBVIOUS
<1>2. x \in Seq(Tokens)
  BY NamingAssumption, ShortTexts, TokenCode
<1> HIDE DEF p
<1>3. ~ IsEscape(p, 1) /\ ~ IsEscape(p, 0)
  BY <1>1 DEF IsEscape
<1>4. Piece(p, 1) = x
  BY <1>1, <1>3 DEF Piece
<1>5. PiecesOf(p) = <<x>>
  <2>1. PiecesOf(p) = [i \in 1 .. 1 |-> x]
    BY <1>1, <1>4 DEF PiecesOf
  <2> HIDE DEF x
  <2> QED
    BY <2>1
<1> HIDE DEF x
<1>6. FlattenSeq(<<x>>) = x
  BY <1>2, FlattenOne
<1> QED
  BY <1>5, <1>6, Translated DEF p, x

LEMMA EscapedDot == Translate(<<"\\", ".">>) = <<".">>
<1> DEFINE p == <<"\\", ".">>
<1>1. Len(p) = 2 /\ p[1] = "\\" /\ p[2] = "." /\ DOMAIN p = 1 .. 2
  OBVIOUS
<1>2. <<>> \in Seq(Tokens) /\ <<".">> \in Seq(Tokens)
  BY NamingAssumption, ShortTexts, EmptySeq
<1> HIDE DEF p
<1>3. IsEscape(p, 1) /\ ~ IsEscape(p, 2)
  BY <1>1 DEF IsEscape
<1>4. Piece(p, 1) = <<>> /\ Piece(p, 2) = <<".">>
  BY <1>1, <1>3 DEF Piece
<1>5. PiecesOf(p) = << <<>>, <<".">> >>
  <2>1. PiecesOf(p) = [i \in 1 .. 2 |-> IF i = 1 THEN <<>> ELSE <<".">>]
    BY <1>1, <1>4 DEF PiecesOf
  <2> QED
    BY <2>1
<1>6. FlattenSeq(<< <<>>, <<".">> >>) = <<>> \o <<".">>
  BY <1>2, FlattenTwo
<1>7. <<>> \o <<".">> = <<".">>
  BY <1>2, ConcatEmptySeq
<1> QED
  BY <1>5, <1>6, <1>7, Translated DEF p

LEMMA SettledConcat ==
    ASSUME NEW T, NEW a \in Seq(T), NEW b \in Seq(T), Settled(a), Settled(b)
    PROVE  Settled(a \o b)
<1>1. Len(a) \in Nat /\ Len(b) \in Nat /\ a \o b \in Seq(T) /\ Len(a \o b) = Len(a) + Len(b)
      /\ \A i \in 1 .. Len(a) + Len(b) : (a \o b)[i] = IF i <= Len(a) THEN a[i] ELSE b[i - Len(a)]
  BY ConcatProperties, LenProperties
<1>2. (a # <<>> => Len(a) # 0 /\ a[Len(a)] # "\\") /\ (b # <<>> => Len(b) # 0 /\ b[Len(b)] # "\\")
      /\ (a = <<>> => Len(a) = 0) /\ (b = <<>> => Len(b) = 0)
  BY EmptySeq DEF Settled
<1> DEFINE w == a \o b
           m == Len(a)
           n == Len(b)
<1>3. CASE n = 0
  <2>1. w # <<>> => m # 0 /\ m \in 1 .. m + n /\ w[m] = a[m] /\ Len(w) = m
    BY <1>1, <1>2, <1>3, EmptySeq
  <2> QED
    BY <1>2, <2>1 DEF Settled
<1>4. CASE n # 0
  <2>1. m + n \in 1 .. m + n /\ ~(m + n <= m) /\ (m + n) - m = n
    BY <1>1, <1>4
  <2>2. w[m + n] = b[n] /\ b[n] # "\\"
    BY <1>1, <1>2, <1>4, <2>1
  <2> QED
    BY <1>1, <2>2 DEF Settled
<1> QED
  BY <1>3, <1>4

LEMMA FrontAndBack ==
    ASSUME NEW S, NEW s \in Seq(S), NEW k \in 0 .. Len(s)
    PROVE  /\ SubSeq(s, 1, k) \in Seq(S) /\ Len(SubSeq(s, 1, k)) = k
           /\ \A i \in 1 .. k : SubSeq(s, 1, k)[i] = s[i]
           /\ SubSeq(s, k + 1, Len(s)) \in Seq(S)
           /\ s = SubSeq(s, 1, k) \o SubSeq(s, k + 1, Len(s))
<1> DEFINE n == Len(s)
           a == SubSeq(s, 1, k)
           b == SubSeq(s, k + 1, n)
<1>1. n \in Nat /\ k \in 0 .. n /\ \A i \in 1 .. n : s[i] \in S
  BY LenProperties
<1>2. 1 \in 1 .. n + 1 /\ k \in 1 - 1 .. n /\ n \in k .. n /\ 0 \in Int /\ 1 \in Int /\ n \in Int /\ k + 1 \in Int /\ k \in Int
  BY <1>1
<1>3. a \in Seq(S) /\ Len(a) = k /\ \A i \in 1 .. k : a[i] = s[i]
  <2>1. \A i \in 1 .. k : s[i] \in S
    BY <1>1
  <2> HIDE DEF n
  <2>2. /\ a \in Seq(S) /\ Len(a) = IF 1 <= k THEN k - 1 + 1 ELSE 0
        /\ \A i \in 1 .. k - 1 + 1 : a[i] = s[1 + i - 1]
    BY <1>2, <2>1, SubSeqProperties
  <2> HIDE DEF a
  <2> QED
    BY <1>1, <2>2
<1>4. b \in Seq(S)
  <2>1. \A i \in k + 1 .. n : s[i] \in S
    BY <1>1
  <2> HIDE DEF n
  <2> QED
    BY <1>2, <2>1, SubSeqProperties
<1>5. a \o b = SubSeq(s, 1, n)
  BY <1>1, <1>2, ConcatAdjacentSubSeq
<1>6. SubSeq(s, 1, n) = s
  BY SubSeqFull
<1> QED
  BY <1>3, <1>4, <1>5, <1>6

LEMMA PairOfTokens == ASSUME NEW a, NEW b PROVE <<a>> \o <<b>> = <<a, b>>
<1> DEFINE S == {a, b}
           x == <<a>>
           y == <<b>>
           z == <<a, b>>
<1>1. x \in Seq(S) /\ y \in Seq(S) /\ z \in Seq(S)
  OBVIOUS
<1>2. Len(x) = 1 /\ Len(y) = 1 /\ Len(z) = 2 /\ x[1] = a /\ y[1] = b /\ z[1] = a /\ z[2] = b
  OBVIOUS
<1> HIDE DEF S, x, y, z
<1>3. x \o y \in Seq(S) /\ Len(x \o y) = 2 /\ \A i \in 1 .. 2 : (x \o y)[i] = IF i <= 1 THEN x[i] ELSE y[i - 1]
  BY <1>1, <1>2, ConcatProperties
<1>4. \A i \in 1 .. 2 : (x \o y)[i] = z[i]
  BY <1>2, <1>3
<1>5. x \o y = z
  BY <1>1, <1>2, <1>3, <1>4, SeqEqual
<1> QED
  BY <1>5 DEF x, y, z

LEMMA DotAndStars ==
    ASSUME NEW prefix \in Seq(Tokens), "**" \in Tokens
    PROVE  (prefix \o <<".">>) \o <<"**">> = prefix \o <<".", "**">>
<1> DEFINE dot == <<".">>
           stars == <<"**">>
           both == <<".", "**">>
<1>1. dot \in Seq(Tokens) /\ stars \in Seq(Tokens)
  BY NamingAssumption, ShortTexts
<1>2. dot \o stars = both
  BY PairOfTokens
<1> HIDE DEF dot, stars, both
<1>3. (prefix \o dot) \o stars = prefix \o (dot \o stars)
  BY <1>1, Associative
<1> QED
  BY <1>2, <1>3 DEF dot, stars, both

-----------------------------------------------------------------------------
(* Names spelled out *)

(* Names hold no wildcard and no backslash.                                 *)
Quiet == Tokens \ {"*", "**", "\\"}

Spell == [c \in Quiet |-> IF c = "." THEN <<"\\", ".">> ELSE <<c>>]
Spelled(text) == Written(Spell, text)

LEMMA SpellOne ==
    /\ Spell \in [Quiet -> Seq(Tokens)]
    /\ \A c \in Quiet : Settled(Spell[c]) /\ Translate(Spell[c]) = EncodedToken(c)
<1>1. ASSUME NEW c \in Quiet
      PROVE  Spell[c] \in Seq(Tokens) /\ Settled(Spell[c]) /\ Translate(Spell[c]) = EncodedToken(c)
  <2>1. c \in Tokens /\ c # "\\"
    BY DEF Quiet
  <2>2. CASE c = "."
    <3>1. Spell[c] = <<"\\", ".">>
      BY <2>2 DEF Spell
    <3>2. \A x, y \in Tokens : <<x, y>> \in Seq(Tokens)
      OBVIOUS
    <3>3. <<"\\", ".">> \in Seq(Tokens)
      BY <3>2, NamingAssumption
    <3>4. Settled(<<"\\", ".">>)
      BY DEF Settled
    <3>5. EncodedToken(c) = <<".">>
      BY <2>1, <2>2, TokenCode
    <3> QED
      BY <3>1, <3>3, <3>4, <3>5, EscapedDot
  <2>3. CASE c # "."
    <3>1. Spell[c] = <<c>>
      BY <2>3 DEF Spell
    <3>2. <<c>> \in Seq(Tokens)
      BY <2>1, ShortTexts
    <3>3. Settled(<<c>>)
      BY <2>1 DEF Settled
    <3> QED
      BY <2>1, <2>3, <3>1, <3>2, <3>3, OneToken
  <2> QED
    BY <2>2, <2>3
<1> QED
  BY <1>1 DEF Spell

LEMMA SpelledTranslates ==
    ASSUME NEW text \in Seq(Quiet)
    PROVE  Spelled(text) \in Seq(Tokens) /\ Settled(Spelled(text)) /\ Translate(Spelled(text)) = Encode(text)
<1> DEFINE Good(s) == Spelled(s) \in Seq(Tokens) /\ Settled(Spelled(s)) /\ Translate(Spelled(s)) = Encode(s)
           P == {s \in Seq(Quiet) : Good(s)}
<1>0. \A s \in Seq(Quiet) : s \in Seq(Tokens)
  <2>1. Quiet \subseteq Tokens
    BY DEF Quiet
  <2> QED
    BY <2>1, SeqMonotonic
<1>1. <<>> \in P
  <2>1. Spelled(<<>>) = <<>> /\ Encode(<<>>) = <<>>
    BY WrittenEmpty, EncodeEmpty DEF Spelled
  <2>2. Translate(<<>>) = <<>>
    <3>1. PiecesOf(<<>>) = <<>>
      BY DEF PiecesOf
    <3> QED
      BY <3>1, Translated DEF FlattenSeq
  <2> QED
    BY <2>1, <2>2, EmptySeq DEF Settled
<1>2. ASSUME NEW s \in Seq(Quiet), s # <<>>, Tail(s) \in P PROVE s \in P
  <2>1. Head(s) \in Quiet /\ Tail(s) \in Seq(Quiet) /\ s \in Seq(Tokens)
    BY <1>0, <1>2, HeadTailProperties
  <2> DEFINE a == Spell[Head(s)]
             b == Spelled(Tail(s))
  <2>2. a \in Seq(Tokens) /\ Settled(a) /\ Translate(a) = EncodedToken(Head(s))
    BY <2>1, SpellOne
  <2>3. b \in Seq(Tokens) /\ Settled(b) /\ Translate(b) = Encode(Tail(s))
    BY <1>2
  <2>4. Spelled(s) = a \o b
    BY <1>2, SpellOne, WrittenHead DEF Spelled
  <2>5. Encode(s) = EncodedToken(Head(s)) \o Encode(Tail(s))
    BY <1>2, <2>1, EncodeHead
  <2> HIDE DEF a, b, P
  <2>6. a \o b \in Seq(Tokens) /\ Settled(a \o b)
    BY <2>2, <2>3, ConcatProperties, SettledConcat
  <2>7. Translate(a \o b) = Translate(a) \o Translate(b)
    BY <2>2, <2>3, TranslateConcat
  <2> QED
    BY <2>2, <2>3, <2>4, <2>5, <2>6, <2>7 DEF P
<1>3. P \in SUBSET Seq(Quiet)
  OBVIOUS
<1> HIDE DEF P
<1>4. text \in P
  BY <1>1, <1>2, <1>3, TailInduction
<1> QED
  BY <1>4 DEF P

Dotted == [x \in Seq(Quiet) |-> <<".">> \o Spelled(x)]
Slashed == [x \in Seq(Quiet) |-> <<"/">> \o Encode(x)]

LEMMA DottedOne ==
    /\ Dotted \in [Seq(Quiet) -> Seq(Tokens)] /\ Slashed \in [Seq(Quiet) -> Seq(Tokens)]
    /\ \A x \in Seq(Quiet) : Settled(Dotted[x]) /\ Translate(Dotted[x]) = Slashed[x]
<1> DEFINE dot == <<".">>
           slash == <<"/">>
<1>0. dot \in Seq(Tokens) /\ slash \in Seq(Tokens)
  BY NamingAssumption, ShortTexts
<1>1. Translate(dot) = slash /\ Settled(dot)
  BY NamingAssumption, OneToken DEF Settled
<1> HIDE DEF dot, slash
<1>2. ASSUME NEW x \in Seq(Quiet)
      PROVE  /\ dot \o Spelled(x) \in Seq(Tokens) /\ slash \o Encode(x) \in Seq(Tokens)
             /\ Settled(dot \o Spelled(x)) /\ Translate(dot \o Spelled(x)) = slash \o Encode(x)
  <2>1. Spelled(x) \in Seq(Tokens) /\ Settled(Spelled(x)) /\ Translate(Spelled(x)) = Encode(x)
    BY SpelledTranslates
  <2>2. Encode(x) \in Seq(Tokens)
    <3>1. Quiet \subseteq Tokens
      BY DEF Quiet
    <3> QED
      BY <3>1, SeqMonotonic, EncodeType
  <2>3. Translate(dot \o Spelled(x)) = Translate(dot) \o Translate(Spelled(x))
    BY <1>0, <1>1, <2>1, TranslateConcat
  <2> QED
    BY <1>0, <1>1, <2>1, <2>2, <2>3, ConcatProperties, SettledConcat
<1>3. Dotted = [x \in Seq(Quiet) |-> dot \o Spelled(x)] /\ Slashed = [x \in Seq(Quiet) |-> slash \o Encode(x)]
  BY DEF Dotted, Slashed, dot, slash
<1> QED
  BY <1>2, <1>3

LEMMA DottedTranslates ==
    ASSUME NEW rest \in Seq(Seq(Quiet))
    PROVE  /\ Written(Dotted, rest) \in Seq(Tokens) /\ Settled(Written(Dotted, rest))
           /\ Translate(Written(Dotted, rest)) = Written(Slashed, rest)
<1> DEFINE S == Seq(Quiet)
           D(s) == Written(Dotted, s)
           Good(s) == D(s) \in Seq(Tokens) /\ Settled(D(s)) /\ Translate(D(s)) = Written(Slashed, s)
           P == {s \in Seq(S) : Good(s)}
<1>0. Dotted \in [S -> Seq(Tokens)] /\ Slashed \in [S -> Seq(Tokens)] /\ rest \in Seq(S)
      /\ \A x \in S : Settled(Dotted[x]) /\ Translate(Dotted[x]) = Slashed[x]
  BY DottedOne
<1> HIDE DEF S
<1>1. <<>> \in P
  <2>1. D(<<>>) = <<>> /\ Written(Slashed, <<>>) = <<>>
    BY WrittenEmpty
  <2>2. Translate(<<>>) = <<>>
    <3>1. PiecesOf(<<>>) = <<>>
      BY DEF PiecesOf
    <3> QED
      BY <3>1, Translated DEF FlattenSeq
  <2> QED
    BY <2>1, <2>2, EmptySeq DEF Settled
<1>2. ASSUME NEW s \in Seq(S), s # <<>>, Tail(s) \in P PROVE s \in P
  <2>1. Head(s) \in S /\ Tail(s) \in Seq(S)
    BY <1>2, HeadTailProperties
  <2> DEFINE a == Dotted[Head(s)]
             b == D(Tail(s))
  <2>2. a \in Seq(Tokens) /\ Settled(a) /\ Translate(a) = Slashed[Head(s)]
    BY <1>0, <2>1
  <2>3. b \in Seq(Tokens) /\ Settled(b) /\ Translate(b) = Written(Slashed, Tail(s))
    BY <1>2
  <2>4. D(s) = a \o b
    BY <1>0, <1>2, WrittenHead
  <2>5. Written(Slashed, s) = Slashed[Head(s)] \o Written(Slashed, Tail(s))
    BY <1>0, <1>2, WrittenHead
  <2> HIDE DEF a, b, P
  <2>6. a \o b \in Seq(Tokens) /\ Settled(a \o b)
    BY <2>2, <2>3, ConcatProperties, SettledConcat
  <2>7. Translate(a \o b) = Translate(a) \o Translate(b)
    BY <2>2, <2>3, TranslateConcat
  <2> QED
    BY <2>2, <2>3, <2>4, <2>5, <2>6, <2>7 DEF P
<1>3. P \in SUBSET Seq(S)
  OBVIOUS
<1> HIDE DEF P
<1>4. rest \in P
  BY <1>0, <1>1, <1>2, <1>3, TailInduction
<1> QED
  BY <1>4 DEF P

-----------------------------------------------------------------------------
(* Tables *)

(* A table's name, segment by segment.                                      *)
LEMMA Rendering ==
    ASSUME NEW table \in Seq(Seq(Tokens))
    PROVE  /\ [i \in DOMAIN table |-> Encode(table[i])] \in Seq(Seq(Plain))
           /\ Len([i \in DOMAIN table |-> Encode(table[i])]) = Len(table)
<1> DEFINE n == Len(table)
           texts == [i \in DOMAIN table |-> Encode(table[i])]
<1>1. n \in Nat /\ DOMAIN table = 1 .. n /\ \A i \in 1 .. n : table[i] \in Seq(Tokens)
  BY LenProperties
<1>2. \A i \in 1 .. n : Encode(table[i]) \in Seq(Plain)
  BY <1>1, EncodeType
<1> HIDE DEF n
<1>3. texts \in [1 .. n -> Seq(Plain)]
  BY <1>1, <1>2
<1> HIDE DEF texts
<1>4. texts \in Seq(Seq(Plain)) /\ Len(texts) = n
  BY <1>1, <1>3
<1> QED
  BY <1>4 DEF texts, n

(* No two tables are rendered alike: neither a separator nor an escape in a *)
(* name can be mistaken for one the rendering wrote                         *)
(* (policy/matcher.rs:77-106).                                              *)
THEOREM RenderInjective ==
    ASSUME NEW t \in Seq(Seq(Tokens)), NEW u \in Seq(Seq(Tokens)), t # <<>>, u # <<>>, Render(t) = Render(u)
    PROVE  t = u
<1> DEFINE r == [i \in DOMAIN t |-> Encode(t[i])]
           q == [i \in DOMAIN u |-> Encode(u[i])]
<1>1. r \in Seq(Seq(Plain)) /\ Len(r) = Len(t) /\ q \in Seq(Seq(Plain)) /\ Len(q) = Len(u)
  BY Rendering
<1>2. Len(t) \in Nat /\ Len(t) # 0 /\ Len(u) \in Nat /\ Len(u) # 0
      /\ DOMAIN t = 1 .. Len(t) /\ DOMAIN u = 1 .. Len(u)
      /\ (\A i \in 1 .. Len(t) : t[i] \in Seq(Tokens)) /\ (\A i \in 1 .. Len(u) : u[i] \in Seq(Tokens))
  BY EmptySeq, LenProperties
<1>3. (\A i \in 1 .. Len(t) : r[i] = Encode(t[i])) /\ (\A i \in 1 .. Len(u) : q[i] = Encode(u[i]))
  BY <1>2
<1>4. Join(r) = Join(q)
  BY Zenon DEF Render
<1> HIDE DEF r, q
<1>5. r # <<>> /\ q # <<>>
  BY <1>1, <1>2, EmptySeq
<1>6. "/" \in Tokens /\ Plain \subseteq Tokens /\ "/" \notin Plain
  BY NamingAssumption DEF Plain
<1>7. r = q
  BY <1>1, <1>4, <1>5, <1>6, JoinInjective
<1>8. Len(t) = Len(u) /\ \A i \in 1 .. Len(t) : t[i] = u[i]
  <2>1. Len(t) = Len(u)
    BY <1>1, <1>7
  <2>2. ASSUME NEW i \in 1 .. Len(t) PROVE t[i] = u[i]
    <3>1. Encode(t[i]) = Encode(u[i]) /\ t[i] \in Seq(Tokens) /\ u[i] \in Seq(Tokens)
      BY <1>2, <1>3, <1>7, <2>1
    <3> QED
      BY <3>1, EncodeInjective
  <2> QED
    BY <2>1, <2>2
<1> QED
  BY <1>8, SeqEqual

LEMMA RenderType ==
    ASSUME NEW t \in Seq(Seq(Tokens)), t # <<>>
    PROVE  Render(t) \in Seq(Tokens)
<1> DEFINE r == [i \in DOMAIN t |-> Encode(t[i])]
<1>1. r \in Seq(Seq(Plain)) /\ Len(r) = Len(t)
  BY Rendering
<1>2. "/" \in Tokens /\ Plain \subseteq Tokens
  BY NamingAssumption DEF Plain
<1>3. r # <<>>
  BY <1>1, EmptySeq
<1>4. Render(t) = Join(r)
  BY DEF Render
<1> HIDE DEF r
<1>5. r \in Seq(Seq(Tokens))
  BY <1>1, <1>2, SeqMonotonic
<1> QED
  BY <1>2, <1>3, <1>4, <1>5, JoinIsBehind

(* The same, its hypotheses and its conclusion each under a name.           *)
Separable(S, T, sep, code, text) ==
    sep \in Seq(T) /\ code \in [S -> Seq(T)] /\ text \in Seq(S) /\ text # <<>>

Splits(S, sep, code, text) ==
    Parts(sep, code, text) = code[Head(text)] \o Written(After(S, sep, code), Tail(text))

LEMMA SeparatedSplits ==
    \A S, T, sep, code, text : Separable(S, T, sep, code, text) => Splits(S, sep, code, text)
<1> SUFFICES ASSUME NEW S, NEW T, NEW sep, NEW code, NEW text, Separable(S, T, sep, code, text)
             PROVE  Splits(S, sep, code, text)
  OBVIOUS
<1>1. sep \in Seq(T) /\ code \in [S -> Seq(T)] /\ text \in Seq(S) /\ text # <<>>
  BY DEF Separable
<1> QED
  BY <1>1, Separated, SMTT(40) DEF Splits

LEMMA RenderSlashed ==
    ASSUME NEW t \in Seq(Seq(Quiet)), t # <<>>
    PROVE  Render(t) = Encode(Head(t)) \o Written(Slashed, Tail(t))
<1> DEFINE S == Seq(Quiet)
           code == [x \in S |-> Encode(x)]
           slash == <<"/">>
<1>1. \A x \in S : x \in Seq(Tokens) /\ Encode(x) \in Seq(Tokens)
  <2>1. Quiet \subseteq Tokens
    BY DEF Quiet
  <2> QED
    BY <2>1, SeqMonotonic, EncodeType
<1>2. code \in [S -> Seq(Tokens)] /\ t \in Seq(S) /\ slash \in Seq(Tokens)
  BY <1>1, NamingAssumption, ShortTexts
<1>3. Head(t) \in S /\ DOMAIN t = 1 .. Len(t) /\ \A i \in DOMAIN t : t[i] \in S
  BY <1>2, HeadTailProperties, LenProperties
<1>4. Render(t) = Parts(slash, code, t)
  <2> DEFINE r == [i \in DOMAIN t |-> Encode(t[i])]
  <2>1. DOMAIN r = DOMAIN t /\ \A i \in DOMAIN t : r[i] = code[t[i]]
    BY <1>3
  <2>2. Render(t) = FlattenSeq([i \in DOMAIN r |-> (IF i = 1 THEN <<>> ELSE slash) \o r[i]])
    BY Zenon DEF Render, Join
  <2> HIDE DEF r, code, slash, S
  <2>3. [i \in DOMAIN r |-> (IF i = 1 THEN <<>> ELSE slash) \o r[i]]
            = [i \in DOMAIN t |-> (IF i = 1 THEN <<>> ELSE slash) \o code[t[i]]]
    BY <2>1
  <2> QED
    BY <2>2, <2>3 DEF Parts
<1>5. code[Head(t)] = Encode(Head(t))
  BY <1>3
<1>6. After(S, slash, code) = Slashed
  BY DEF Slashed, After
<1> HIDE DEF S, code, slash
<1>7. Parts(slash, code, t) = code[Head(t)] \o Written(After(S, slash, code), Tail(t))
  <2>1. Separable(S, Tokens, slash, code, t)
    BY <1>2 DEF Separable
  <2>2. Splits(S, slash, code, t)
    BY <2>1, SeparatedSplits, Zenon
  <2> QED
    BY <2>2, Zenon DEF Splits
<1> QED
  BY <1>4, <1>5, <1>6, <1>7

(* A pattern that spells a table is its rendering.                          *)
LEMMA TableTranslates ==
    ASSUME NEW t \in Seq(Seq(Quiet)), t # <<>>
    PROVE  Translate(Spelled(Head(t)) \o Written(Dotted, Tail(t))) = Render(t)
<1> DEFINE S == Seq(Quiet)
           a == Spelled(Head(t))
           b == Written(Dotted, Tail(t))
<1>1. Head(t) \in Seq(Quiet) /\ Tail(t) \in Seq(Seq(Quiet))
  <2>1. t \in Seq(S)
    OBVIOUS
  <2> HIDE DEF S
  <2>2. Head(t) \in S /\ Tail(t) \in Seq(S)
    BY <2>1, HeadTailProperties
  <2> QED
    BY <2>2 DEF S
<1>2. a \in Seq(Tokens) /\ Settled(a) /\ Translate(a) = Encode(Head(t))
  BY <1>1, SpelledTranslates
<1>3. b \in Seq(Tokens) /\ Translate(b) = Written(Slashed, Tail(t))
  BY <1>1, DottedTranslates
<1> HIDE DEF a, b
<1>4. Translate(a \o b) = Translate(a) \o Translate(b)
  BY <1>2, <1>3, TranslateConcat
<1> QED
  BY <1>2, <1>3, <1>4, RenderSlashed DEF a, b

LEMMA QuietTokens == \A c \in Quiet : EncodedToken(c) \in Seq(Quiet)
<1> SUFFICES ASSUME NEW c \in Quiet PROVE EncodedToken(c) \in Seq(Quiet)
  OBVIOUS
<1>1. c \in Tokens
  BY DEF Quiet
<1>2. \A x \in {"%", "2", "5", "F"} : x \in Quiet
  BY NamingAssumption DEF Quiet
<1>3. <<"%", "2", "5">> \in Seq(Quiet) /\ <<"%", "2", "F">> \in Seq(Quiet) /\ <<c>> \in Seq(Quiet)
  BY <1>2, ShortTexts
<1> QED
  BY <1>1, <1>3, TokenCode

LEMMA RenderQuiet ==
    ASSUME NEW t \in Seq(Seq(Quiet)), t # <<>>
    PROVE  Render(t) \in Seq(Quiet)
<1> DEFINE n == Len(t)
           r == [i \in DOMAIN t |-> Encode(t[i])]
           code == [x \in Quiet |-> EncodedToken(x)]
<1>1. n \in Nat /\ n # 0 /\ DOMAIN t = 1 .. n /\ \A i \in 1 .. n : t[i] \in Seq(Quiet)
  BY EmptySeq, LenProperties
<1>2. code \in [Quiet -> Seq(Quiet)] /\ \A x \in Quiet : code[x] = EncodedToken(x)
  BY QuietTokens
<1>3. ASSUME NEW x \in Seq(Quiet) PROVE Encode(x) \in Seq(Quiet)
  <2>1. Written(code, x) \in Seq(Quiet)
    BY <1>2, WrittenType
  <2>2. \A i \in DOMAIN x : x[i] \in Quiet
    OBVIOUS
  <2>3. [i \in DOMAIN x |-> EncodedToken(x[i])] = [i \in DOMAIN x |-> code[x[i]]]
    BY <1>2, <2>2
  <2> QED
    BY <2>1, <2>3 DEF Encode, Written
<1>4. r \in [1 .. n -> Seq(Quiet)]
  BY <1>1, <1>3
<1>5. Render(t) = Join(r)
  BY DEF Render
<1> HIDE DEF n, r, code
<1>6. r \in Seq(Seq(Quiet)) /\ Len(r) = n
  BY <1>1, <1>4
<1>7. r # <<>> /\ "/" \in Quiet
  BY <1>1, <1>6, EmptySeq, NamingAssumption DEF Quiet
<1> QED
  BY <1>5, <1>6, <1>7, JoinIsBehind

(* A pattern that spells one table, its dots escaped, matches that table    *)
(* and no other (policy/matcher.rs:38-137).                                 *)
THEOREM SpelledMatches ==
    ASSUME NEW t \in Seq(Seq(Quiet)), t # <<>>, NEW u \in Seq(Seq(Tokens)), u # <<>>
    PROVE  Matches(Spelled(Head(t)) \o Written(Dotted, Tail(t)), u) <=> u = t
<1> DEFINE glob == Render(t)
           text == Render(u)
<1>1. Matches(Spelled(Head(t)) \o Written(Dotted, Tail(t)), u) <=> GlobMatches(glob, text)
  BY TableTranslates DEF Matches
<1>2. Quiet \subseteq Tokens
  BY DEF Quiet
<1>3. t \in Seq(Seq(Tokens))
  BY <1>2, SeqMonotonic
<1>4. glob \in Seq(Tokens) /\ text \in Seq(Tokens)
  BY <1>3, RenderType
<1>5. \A i \in 1 .. Len(glob) : glob[i] \notin {"*", "**"}
  <2>1. glob \in Seq(Quiet)
    BY RenderQuiet
  <2> HIDE DEF glob
  <2>2. \A i \in 1 .. Len(glob) : glob[i] \in Quiet
    BY <2>1
  <2> QED
    BY <2>2 DEF Quiet
<1> HIDE DEF glob, text
<1>6. GlobMatches(glob, text) <=> glob = text
  BY <1>4, <1>5, PlainGlob
<1>7. glob = text <=> u = t
  BY <1>3, RenderInjective DEF glob, text
<1> QED
  BY <1>1, <1>6, <1>7

(* What follows a prefix that is literal decides nothing about how the      *)
(* prefix itself is matched: a ** behind it matches all that anything does  *)
(* (policy/mod.rs:309-333).                                                 *)
THEOREM PrefixCovers ==
    ASSUME NEW prefix \in Seq(Tokens), \A i \in DOMAIN prefix : prefix[i] # "\\",
           NEW more \in Seq(Tokens), "**" \in Tokens, NEW u \in Seq(Seq(Tokens)), u # <<>>,
           Matches((prefix \o <<".">>) \o more, u)
    PROVE  Matches((prefix \o <<".">>) \o <<"**">>, u)
<1> DEFINE p == prefix \o <<".">>
           front == Translate(p)
           broad == front \o <<"**">>
           narrow == front \o Translate(more)
           text == Render(u)
           n == Len(front)
<1>0. <<".">> \in Seq(Tokens) /\ <<"**">> \in Seq(Tokens)
  BY NamingAssumption, ShortTexts
<1>1. p \in Seq(Tokens) /\ Settled(p)
  <2>1. Settled(prefix)
    BY EmptySeq DEF Settled
  <2>2. Settled(<<".">>)
    BY DEF Settled
  <2> QED
    BY <1>0, <2>1, <2>2, ConcatProperties, SettledConcat
<1> HIDE DEF p
<1>2. Translate(p \o <<"**">>) = front \o Translate(<<"**">>) /\ Translate(p \o more) = narrow
  BY <1>0, <1>1, TranslateConcat
<1>3. Translate(<<"**">>) = <<"**">>
  BY OneToken, TokenCode
<1>4. Translate(p \o <<"**">>) = broad
  BY <1>2, <1>3
<1>5. front \in Seq(Tokens) /\ Translate(more) \in Seq(Tokens) /\ text \in Seq(Tokens)
  BY <1>1, TranslateType, RenderType
<1>6. GlobMatches(narrow, text)
  BY <1>2 DEF Matches, p
<1> DEFINE tail == Translate(more)
           stars == <<"**">>
<1>7. stars \in Seq(Tokens) /\ Len(stars) = 1 /\ stars[1] = "**" /\ tail \in Seq(Tokens)
  BY <1>0, <1>5
<1> HIDE DEF front, text, tail, stars
<1>8. n \in Nat
  BY <1>5, LenProperties
<1>9. broad \in Seq(Tokens) /\ Len(broad) = n + 1 /\ broad[n + 1] = "**" /\ \A i \in 1 .. n : broad[i] = front[i]
  <2>0. front \o stars \in Seq(Tokens) /\ Len(front \o stars) = n + Len(stars)
        /\ \A i \in 1 .. n + Len(stars) : (front \o stars)[i] = IF i <= n THEN front[i] ELSE stars[i - n]
    BY <1>5, <1>7, ConcatProperties
  <2>1. front \o stars \in Seq(Tokens) /\ Len(front \o stars) = n + 1
        /\ \A i \in 1 .. n + 1 : (front \o stars)[i] = IF i <= n THEN front[i] ELSE stars[i - n]
    <3> HIDE DEF n
    <3> QED
      BY <1>7, <2>0
  <2>2. n + 1 \in 1 .. n + 1 /\ (n + 1) - n = 1 /\ ~(n + 1 <= n) /\ \A i \in 1 .. n : i \in 1 .. n + 1 /\ i <= n
    BY <1>8
  <2>3. broad = front \o stars
    BY DEF stars
  <2> HIDE DEF broad, n
  <2>4. broad[n + 1] = "**"
    BY <1>7, <2>1, <2>2, <2>3
  <2>5. \A i \in 1 .. n : broad[i] = front[i]
    BY <2>1, <2>2, <2>3
  <2> QED
    BY <2>1, <2>3, <2>4, <2>5
<1>10. narrow \in Seq(Tokens) /\ n <= Len(narrow) /\ \A i \in 1 .. n : narrow[i] = front[i]
  <2>1. front \o tail \in Seq(Tokens) /\ Len(front \o tail) = n + Len(tail) /\ Len(tail) \in Nat
        /\ \A i \in 1 .. n + Len(tail) : (front \o tail)[i] = IF i <= n THEN front[i] ELSE tail[i - n]
    BY <1>5, <1>7, ConcatProperties, LenProperties
  <2>2. n <= n + Len(tail) /\ \A i \in 1 .. n : i \in 1 .. n + Len(tail) /\ i <= n
    BY <1>8, <2>1
  <2>3. narrow = front \o tail
    BY DEF tail
  <2> HIDE DEF narrow, n
  <2>4. \A i \in 1 .. n : narrow[i] = front[i]
    BY <2>1, <2>2, <2>3
  <2> QED
    BY <2>1, <2>2, <2>3, <2>4
<1>11. GlobMatches(broad, text)
  <2> HIDE DEF broad, narrow, n
  <2>1. \A i \in 1 .. n : broad[i] = narrow[i]
    BY <1>9, <1>10
  <2> QED
    BY <1>5, <1>6, <1>8, <1>9, <1>10, <2>1, Swallowed
<1> QED
  BY <1>4, <1>11 DEF Matches, text, p

LEMMA AllCovered ==
    ASSUME NEW u \in Seq(Seq(Tokens)), u # <<>>, "**" \in Tokens, NEW narrow \in Seq(Tokens), Matches(narrow, u)
    PROVE  Matches(<<"**">>, u)
<1> DEFINE broad == <<"**">>
           text == Render(u)
           glob == Translate(narrow)
<1>1. Translate(<<"**">>) = broad
  BY OneToken, TokenCode
<1>2. broad \in Seq(Tokens) /\ Len(broad) = 0 + 1 /\ broad[0 + 1] = "**"
  BY ShortTexts
<1>3. text \in Seq(Tokens) /\ glob \in Seq(Tokens) /\ GlobMatches(glob, text) /\ 0 <= Len(glob)
  <2>1. glob \in Seq(Tokens)
    BY TranslateType
  <2> QED
    BY <2>1, RenderType, LenProperties DEF Matches
<1> HIDE DEF broad, text, glob
<1>4. GlobMatches(broad, text)
  <2>1. \A i \in 1 .. 0 : broad[i] = glob[i]
    OBVIOUS
  <2> QED
    BY <1>2, <1>3, <2>1, Swallowed
<1> QED
  BY <1>1, <1>4 DEF Matches, text, broad
=============================================================================
