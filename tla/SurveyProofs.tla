---------------------------- MODULE SurveyProofs ----------------------------
(***************************************************************************)
(* What the way from a policy to one table's upkeep promises in any        *)
(* catalog, under any policy and for any names: the walk finds what stayed *)
(* in place, and once; a setting that governs is one the policy allows;    *)
(* what differs is written differently; a group is rewritten as a reader   *)
(* saw it; and what is still referred to, in whatever spelling, is not     *)
(* cleaned up.                                                             *)
(*                                                                         *)
(* The rewrite of a group comes first, as it needs none of the walk.  The  *)
(* argument follows a row's place: a sort gives every place its rank among *)
(* the finitely many of the frame (SortedIs), each task is in one bucket   *)
(* (BucketsPart), the joins of a bucket leave what a scan returns          *)
(* (BucketIsTheScan), and cutting into files drops nothing (RolledOut).    *)
(***************************************************************************)
EXTENDS Survey, NamingProofs, FiniteSetTheorems, FunctionTheorems, SequenceTheorems, TLAPS

-----------------------------------------------------------------------------
(* The order of rows *)

Cell == Int \cup {Null}

(* A column puts any two cells that differ in one order, and no two in both.*)
LEMMA CellOrder ==
    ASSUME NEW column \in SortField, NEW x \in Cell, NEW y \in Cell, NEW z \in Cell
    PROVE  /\ ~ Less(column, x, x)
           /\ x # y => Less(column, x, y) \/ Less(column, y, x)
           /\ ~ (Less(column, x, y) /\ Less(column, y, x))
           /\ Less(column, x, y) /\ Less(column, y, z) => Less(column, x, z)
<1>0. column.nullsFirst \in BOOLEAN /\ column.descending \in BOOLEAN
  BY DEF SortField
<1>1. \A u, v \in Cell : Less(column, u, v) <=>
          /\ u # v
          /\ IF u = Null THEN column.nullsFirst
             ELSE IF v = Null THEN ~ column.nullsFirst
             ELSE IF column.descending THEN u > v ELSE u < v
  BY DEF Less
<1> QED
  BY <1>0, <1>1 DEF Cell

(* What a sort reads of a row is a cell.                                    *)
LEMMA SortCells ==
    ASSUME NEW sort \in Seq(SortField), CheckSortColumns(sort), NEW i \in DOMAIN sort, NEW row \in Row
    PROVE  sort[i] \in SortField /\ row[sort[i].name] \in Cell
<1>1. sort[i].name \in Range(ColumnOf)
  BY DEF CheckSortColumns
<1> QED
  BY <1>1 DEF Row, Cell

Ties(sort, row1, row2) == \A i \in DOMAIN sort : row1[sort[i].name] = row2[sort[i].name]

(* The first column in which two rows differ.                               *)
LEMMA FirstApart ==
    ASSUME NEW sort \in Seq(SortField), NEW row1, NEW row2, ~ Ties(sort, row1, row2)
    PROVE  \E i \in DOMAIN sort :
               /\ row1[sort[i].name] # row2[sort[i].name]
               /\ \A j \in 1 .. i - 1 : row1[sort[j].name] = row2[sort[j].name]
<1> DEFINE apart == {i \in DOMAIN sort : row1[sort[i].name] # row2[sort[i].name]}
<1>1. apart \in SUBSET Nat /\ apart # {}
  BY DEF Ties
<1>2. Min(apart) \in apart /\ \A j \in apart : Min(apart) <= j
  BY <1>1, MinIsLeast
<1>3. ASSUME NEW i \in apart, \A j \in apart : i <= j
      PROVE  \A j \in 1 .. i - 1 : row1[sort[j].name] = row2[sort[j].name]
  <2> SUFFICES ASSUME NEW j \in 1 .. i - 1 PROVE j \in DOMAIN sort /\ j \notin apart
    OBVIOUS
  <2>1. i \in 1 .. Len(sort) /\ Len(sort) \in Nat
    OBVIOUS
  <2>2. j \in 1 .. Len(sort) /\ j < i
    BY <2>1
  <2>3. j \notin apart
    BY <1>3, <2>1, <2>2
  <2> QED
    BY <2>2, <2>3
<1> QED
  BY <1>2, <1>3

(* Rows that do not tie come in one order.                                  *)
LEMMA RowsApart ==
    ASSUME NEW sort \in Seq(SortField), CheckSortColumns(sort), NEW a \in Row, NEW b \in Row
    PROVE  SortsBefore(sort, a, b) \/ SortsBefore(sort, b, a) \/ Ties(sort, a, b)
<1> SUFFICES ASSUME ~ Ties(sort, a, b) PROVE SortsBefore(sort, a, b) \/ SortsBefore(sort, b, a)
  OBVIOUS
<1>1. PICK i \in DOMAIN sort :
          /\ a[sort[i].name] # b[sort[i].name]
          /\ \A j \in 1 .. i - 1 : a[sort[j].name] = b[sort[j].name]
  BY FirstApart
<1>2. sort[i] \in SortField /\ a[sort[i].name] \in Cell /\ b[sort[i].name] \in Cell
  BY SortCells
<1>3. Less(sort[i], a[sort[i].name], b[sort[i].name]) \/ Less(sort[i], b[sort[i].name], a[sort[i].name])
  BY <1>1, <1>2, CellOrder
<1> QED
  BY <1>1, <1>3 DEF SortsBefore

LEMMA RowsInOrder ==
    ASSUME NEW sort \in Seq(SortField), CheckSortColumns(sort), NEW a \in Row, NEW b \in Row, NEW c \in Row
    PROVE  /\ Ties(sort, a, b) => ~ SortsBefore(sort, a, b)
           /\ Ties(sort, a, b) /\ SortsBefore(sort, b, c) => SortsBefore(sort, a, c)
           /\ SortsBefore(sort, a, b) /\ Ties(sort, b, c) => SortsBefore(sort, a, c)
           /\ SortsBefore(sort, a, b) /\ SortsBefore(sort, b, c) => SortsBefore(sort, a, c)
<1> DEFINE cell(row, i) == row[sort[i].name]
<1>0. Len(sort) \in Nat /\ DOMAIN sort = 1 .. Len(sort)
  OBVIOUS
<1>1. \A i \in DOMAIN sort : /\ sort[i] \in SortField
                             /\ cell(a, i) \in Cell /\ cell(b, i) \in Cell /\ cell(c, i) \in Cell
  BY SortCells
<1>2. \A row1, row2 : SortsBefore(sort, row1, row2) <=>
          \E i \in DOMAIN sort : /\ Less(sort[i], cell(row1, i), cell(row2, i))
                                 /\ \A j \in 1 .. i - 1 : cell(row1, j) = cell(row2, j)
  BY DEF SortsBefore
<1>3. \A i \in DOMAIN sort : \A j \in 1 .. i - 1 : j \in DOMAIN sort
  BY <1>0
<1>4. \A row1, row2 : Ties(sort, row1, row2) <=> \A i \in DOMAIN sort : cell(row1, i) = cell(row2, i)
  BY DEF Ties
<1> HIDE DEF cell
<1>5. ASSUME Ties(sort, a, b) PROVE ~ SortsBefore(sort, a, b)
  <2>1. \A i \in DOMAIN sort : ~ Less(sort[i], cell(a, i), cell(b, i))
    BY <1>1, <1>4, <1>5, CellOrder
  <2> QED
    BY <1>2, <2>1
<1>6. ASSUME Ties(sort, a, b), SortsBefore(sort, b, c) PROVE SortsBefore(sort, a, c)
  <2>1. PICK i \in DOMAIN sort : /\ Less(sort[i], cell(b, i), cell(c, i))
                                 /\ \A j \in 1 .. i - 1 : cell(b, j) = cell(c, j)
    BY <1>2, <1>6
  <2>2. Less(sort[i], cell(a, i), cell(c, i)) /\ \A j \in 1 .. i - 1 : cell(a, j) = cell(c, j)
    BY <1>3, <1>4, <1>6, <2>1
  <2> QED
    BY <1>2, <2>2
<1>7. ASSUME SortsBefore(sort, a, b), Ties(sort, b, c) PROVE SortsBefore(sort, a, c)
  <2>1. PICK i \in DOMAIN sort : /\ Less(sort[i], cell(a, i), cell(b, i))
                                 /\ \A j \in 1 .. i - 1 : cell(a, j) = cell(b, j)
    BY <1>2, <1>7
  <2>2. Less(sort[i], cell(a, i), cell(c, i)) /\ \A j \in 1 .. i - 1 : cell(a, j) = cell(c, j)
    BY <1>3, <1>4, <1>7, <2>1
  <2> QED
    BY <1>2, <2>2
<1>8. ASSUME SortsBefore(sort, a, b), SortsBefore(sort, b, c) PROVE SortsBefore(sort, a, c)
  <2>1. PICK i \in DOMAIN sort : /\ Less(sort[i], cell(a, i), cell(b, i))
                                 /\ \A j \in 1 .. i - 1 : cell(a, j) = cell(b, j)
    BY <1>2, <1>8
  <2>2. PICK k \in DOMAIN sort : /\ Less(sort[k], cell(b, k), cell(c, k))
                                 /\ \A j \in 1 .. k - 1 : cell(b, j) = cell(c, j)
    BY <1>2, <1>8
  <2>3. i \in Nat /\ k \in Nat
    BY <1>0
  <2>4. CASE i < k
    <3>1. i \in 1 .. k - 1 /\ \A j \in 1 .. i - 1 : j \in 1 .. k - 1
      BY <1>0, <2>3, <2>4
    <3>2. Less(sort[i], cell(a, i), cell(c, i)) /\ \A j \in 1 .. i - 1 : cell(a, j) = cell(c, j)
      BY <2>1, <2>2, <3>1
    <3> QED
      BY <1>2, <3>2
  <2>5. CASE k < i
    <3>1. k \in 1 .. i - 1 /\ \A j \in 1 .. k - 1 : j \in 1 .. i - 1
      BY <1>0, <2>3, <2>5
    <3>2. Less(sort[k], cell(a, k), cell(c, k)) /\ \A j \in 1 .. k - 1 : cell(a, j) = cell(c, j)
      BY <2>1, <2>2, <3>1
    <3> QED
      BY <1>2, <3>2
  <2>6. CASE i = k
    <3>1. Less(sort[i], cell(a, i), cell(c, i))
      BY <1>1, <2>1, <2>2, <2>6, CellOrder
    <3>2. \A j \in 1 .. i - 1 : cell(a, j) = cell(c, j)
      BY <2>1, <2>2, <2>6
    <3> QED
      BY <1>2, <3>1, <3>2
  <2> QED
    BY <2>3, <2>4, <2>5, <2>6
<1> QED
  BY <1>5, <1>6, <1>7, <1>8

-----------------------------------------------------------------------------
(* Putting in order *)

(* A relation that orders a finite set gives each member its own rank, the  *)
(* number of those before it, and every rank a member.                      *)
Orders(R, F) ==
    /\ \A p \in F : <<p, p>> \notin R
    /\ \A p, q \in F : p # q => <<p, q>> \in R \/ <<q, p>> \in R
    /\ \A p, q, r \in F : <<p, q>> \in R /\ <<q, r>> \in R => <<p, r>> \in R

Rank(R, F, p) == Cardinality({q \in F : <<q, p>> \in R})

LEMMA RankRises ==
    ASSUME NEW R, NEW F, IsFiniteSet(F), Orders(R, F), NEW p \in F, NEW q \in F, <<p, q>> \in R
    PROVE  Rank(R, F, p) < Rank(R, F, q)
<1> DEFINE A == {r \in F : <<r, p>> \in R}
           B == {r \in F : <<r, q>> \in R}
<1>1. A \subseteq B /\ p \in B /\ p \notin A /\ B \in SUBSET F
  BY DEF Orders
<1> HIDE DEF A, B
<1>2. IsFiniteSet(B) /\ Cardinality(B) \in Nat
  BY <1>1, FS_Subset, FS_CardinalityType
<1>3. IsFiniteSet(A) /\ Cardinality(A) \in Nat /\ Cardinality(A) <= Cardinality(B) /\ Cardinality(A) # Cardinality(B)
  BY <1>1, <1>2, FS_Subset, FS_CardinalityType
<1> QED
  BY <1>2, <1>3 DEF Rank, A, B

LEMMA RanksFilled ==
    ASSUME NEW R, NEW F, IsFiniteSet(F), Orders(R, F)
    PROVE  /\ Cardinality(F) \in Nat
           /\ \A p \in F : Rank(R, F, p) \in 0 .. Cardinality(F) - 1
           /\ \A p, q \in F : Rank(R, F, p) = Rank(R, F, q) => p = q
           /\ \A n \in 0 .. Cardinality(F) - 1 : \E p \in F : Rank(R, F, p) = n
<1> DEFINE N == Cardinality(F)
           rank == [p \in F |-> Rank(R, F, p)]
<1>1. N \in Nat
  BY FS_CardinalityType
<1>2. ASSUME NEW p \in F PROVE rank[p] \in 0 .. N - 1
  <2> DEFINE A == {q \in F : <<q, p>> \in R}
  <2>1. A \in SUBSET F /\ p \notin A
    BY DEF Orders
  <2>2. Cardinality(A) \in Nat /\ Cardinality(A) <= N /\ (Cardinality(A) = N => A = F)
    BY <2>1, FS_Subset, FS_CardinalityType
  <2>3. Cardinality(A) # N
    BY <2>1, <2>2
  <2> QED
    BY <1>1, <2>2, <2>3 DEF Rank
<1>3. ASSUME NEW p \in F, NEW q \in F, rank[p] = rank[q] PROVE p = q
  <2>1. ~(rank[p] < rank[q]) /\ ~(rank[q] < rank[p])
    BY <1>1, <1>2, <1>3
  <2> QED
    BY <2>1, RankRises DEF Orders
<1>4. rank \in Injection(F, 0 .. N - 1)
  <2>1. rank \in [F -> 0 .. N - 1]
    BY <1>2
  <2> HIDE DEF rank, N
  <2> QED
    BY <1>3, <2>1, Fun_IsInj
<1>5. IsFiniteSet(0 .. N - 1) /\ Cardinality(0 .. N - 1) = N
  <2>1. 0 \in Int /\ N - 1 \in Int
    BY <1>1
  <2>2. IsFiniteSet(0 .. N - 1) /\ Cardinality(0 .. N - 1) = IF 0 > N - 1 THEN 0 ELSE (N - 1) - 0 + 1
    BY <2>1, FS_Interval, Zenon
  <2> QED
    BY <1>1, <2>2
<1>6. rank \in Surjection(F, 0 .. N - 1)
  <2> HIDE DEF rank
  <2> QED
    BY <1>4, <1>5, FS_Injection DEF N
<1>7. \A n \in 0 .. N - 1 : \E p \in F : rank[p] = n
  <2> HIDE DEF rank
  <2> QED
    BY <1>6 DEF Surjection
<1> QED
  BY <1>1, <1>2, <1>3, <1>7

Numbers == Nat \X Nat \X Nat

LEMMA ReadInOrder ==
    ASSUME NEW p \in Numbers, NEW q \in Numbers, NEW r \in Numbers
    PROVE  /\ ~ ReadBefore(p, p)
           /\ p # q => ReadBefore(p, q) \/ ReadBefore(q, p)
           /\ ReadBefore(p, q) /\ ReadBefore(q, r) => ReadBefore(p, r)
<1>1. \A u, v : ReadBefore(u, v) <=>
          \/ u[1] < v[1]
          \/ u[1] = v[1] /\ u[2] < v[2]
          \/ u[1] = v[1] /\ u[2] = v[2] /\ u[3] < v[3]
  <2> SUFFICES ASSUME NEW u, NEW v
               PROVE  ReadBefore(u, v) <=>
                          \/ u[1] < v[1]
                          \/ u[1] = v[1] /\ u[2] < v[2]
                          \/ u[1] = v[1] /\ u[2] = v[2] /\ u[3] < v[3]
    OBVIOUS
  <2>1. \A i : i \in 1 .. 3 <=> i = 1 \/ i = 2 \/ i = 3
    OBVIOUS
  <2>2. \A j : ~ (j \in 1 .. 1 - 1) /\ (j \in 1 .. 2 - 1 <=> j = 1) /\ (j \in 1 .. 3 - 1 <=> j = 1 \/ j = 2)
    OBVIOUS
  <2> QED
    BY <2>1, <2>2, Zenon DEF ReadBefore
<1>2. \A u \in Numbers : u = <<u[1], u[2], u[3]>> /\ u[1] \in Nat /\ u[2] \in Nat /\ u[3] \in Nat
  BY DEF Numbers
<1>3. p[1] \in Nat /\ p[2] \in Nat /\ p[3] \in Nat /\ q[1] \in Nat /\ q[2] \in Nat /\ q[3] \in Nat
      /\ r[1] \in Nat /\ r[2] \in Nat /\ r[3] \in Nat
  BY <1>2
<1>4. p # q => p[1] # q[1] \/ p[2] # q[2] \/ p[3] # q[3]
  BY <1>2, Zenon
<1>5. ~ ReadBefore(p, p)
  BY <1>1, <1>3
<1>6. p # q => ReadBefore(p, q) \/ ReadBefore(q, p)
  BY <1>1, <1>3, <1>4
<1>7. ReadBefore(p, q) /\ ReadBefore(q, r) => ReadBefore(p, r)
  BY <1>1, <1>3
<1> QED
  BY <1>5, <1>6, <1>7

(* What is sorted is what there was, each row once, and in order.           *)
LEMMA SortedIs ==
    ASSUME NEW tasks, NEW frame, NEW sort \in Seq(SortField), CheckSortColumns(sort), IsFiniteSet(frame),
           \A p \in frame : p \in Numbers /\ RowAt(tasks, <<p[2], p[3]>>) \in Row
    PROVE  \E at \in Bijection(1 .. Cardinality(frame), frame) :
               /\ Sorted(tasks, frame, sort) =
                     [k \in 1 .. Cardinality(frame) |-> RowAt(tasks, <<at[k][2], at[k][3]>>)]
               /\ \A i, j \in 1 .. Cardinality(frame) : i < j =>
                     ~ SortsBefore(sort, RowAt(tasks, <<at[j][2], at[j][3]>>), RowAt(tasks, <<at[i][2], at[i][3]>>))
<1> DEFINE N == Cardinality(frame)
           row(p) == RowAt(tasks, <<p[2], p[3]>>)
           before(p, q) == \/ SortsBefore(sort, row(p), row(q))
                           \/ ~ SortsBefore(sort, row(q), row(p)) /\ ReadBefore(p, q)
           R == {pair \in frame \X frame : before(pair[1], pair[2])}
           at == [k \in 1 .. N |-> CHOOSE p \in frame : Rank(R, frame, p) = k - 1]
<1>1. \A p \in frame : p \in Numbers /\ row(p) \in Row
  OBVIOUS
<1>2. Sorted(tasks, frame, sort) =
          [k \in 1 .. N |-> row(CHOOSE p \in frame : Cardinality({q \in frame : before(q, p)}) = k - 1)]
  BY Zenon DEF Sorted
<1> HIDE DEF row
<1>3. \A p, q \in frame : <<p, q>> \in R <=> before(p, q)
  OBVIOUS
<1>4. \A p, q \in frame : ~ SortsBefore(sort, row(p), row(q)) /\ ~ SortsBefore(sort, row(q), row(p)) =>
          Ties(sort, row(p), row(q))
  BY <1>1, RowsApart
<1>5. Orders(R, frame)
  <2>1. ASSUME NEW p \in frame PROVE ~ before(p, p)
    <3>1. Ties(sort, row(p), row(p))
      BY DEF Ties
    <3> QED
      BY <1>1, <3>1, RowsInOrder, ReadInOrder
  <2>2. ASSUME NEW p \in frame, NEW q \in frame, p # q PROVE before(p, q) \/ before(q, p)
    BY <1>1, <2>2, ReadInOrder
  <2>3. ASSUME NEW p \in frame, NEW q \in frame, NEW r \in frame, before(p, q), before(q, r) PROVE before(p, r)
    <3>0. row(p) \in Row /\ row(q) \in Row /\ row(r) \in Row /\ p \in Numbers /\ q \in Numbers /\ r \in Numbers
      BY <1>1
    <3>1. CASE SortsBefore(sort, row(p), row(q)) /\ SortsBefore(sort, row(q), row(r))
      BY <3>0, <3>1, RowsInOrder
    <3>2. CASE SortsBefore(sort, row(p), row(q)) /\ ~ SortsBefore(sort, row(q), row(r))
      <4>1. Ties(sort, row(q), row(r))
        BY <1>4, <2>3, <3>2
      <4> QED
        BY <3>0, <3>2, <4>1, RowsInOrder
    <3>3. CASE ~ SortsBefore(sort, row(p), row(q)) /\ SortsBefore(sort, row(q), row(r))
      <4>1. Ties(sort, row(p), row(q))
        BY <1>4, <2>3, <3>3
      <4> QED
        BY <3>0, <3>3, <4>1, RowsInOrder
    <3>4. CASE ~ SortsBefore(sort, row(p), row(q)) /\ ~ SortsBefore(sort, row(q), row(r))
      <4>1. Ties(sort, row(p), row(q)) /\ Ties(sort, row(q), row(r))
        BY <1>4, <2>3, <3>4
      <4>2. Ties(sort, row(r), row(p))
        BY <4>1 DEF Ties
      <4>3. ~ SortsBefore(sort, row(r), row(p))
        BY <3>0, <4>2, RowsInOrder
      <4>4. ReadBefore(p, r)
        BY <2>3, <3>0, <3>4, ReadInOrder
      <4> QED
        BY <4>3, <4>4
    <3> QED
      BY <3>1, <3>2, <3>3, <3>4
  <2> HIDE DEF R, before
  <2> QED
    BY <1>3, <2>1, <2>2, <2>3 DEF Orders
<1>6. \A p \in frame : Rank(R, frame, p) = Cardinality({q \in frame : before(q, p)})
  <2> SUFFICES ASSUME NEW p \in frame PROVE {q \in frame : <<q, p>> \in R} = {q \in frame : before(q, p)}
    BY DEF Rank
  <2> HIDE DEF R, before
  <2> QED
    BY <1>3
<1>7. \A p, q \in frame : SortsBefore(sort, row(p), row(q)) => <<p, q>> \in R
  BY <1>3
<1> HIDE DEF R, before
<1>8. /\ N \in Nat
      /\ \A p \in frame : Rank(R, frame, p) \in 0 .. N - 1
      /\ \A p, q \in frame : Rank(R, frame, p) = Rank(R, frame, q) => p = q
      /\ \A n \in 0 .. N - 1 : \E p \in frame : Rank(R, frame, p) = n
  BY <1>5, RanksFilled
<1> HIDE DEF N
<1>9. \A k \in 1 .. N : at[k] \in frame /\ Rank(R, frame, at[k]) = k - 1
  <2> SUFFICES ASSUME NEW k \in 1 .. N PROVE at[k] \in frame /\ Rank(R, frame, at[k]) = k - 1
    OBVIOUS
  <2>1. k - 1 \in 0 .. N - 1
    BY <1>8
  <2>2. \E p \in frame : Rank(R, frame, p) = k - 1
    BY <1>8, <2>1
  <2> QED
    BY <2>2
<1>10. Sorted(tasks, frame, sort) = [k \in 1 .. N |-> row(at[k])]
  <2>1. ASSUME NEW k \in 1 .. N
        PROVE  (CHOOSE p \in frame : Cardinality({q \in frame : before(q, p)}) = k - 1) = at[k]
    <3>1. \A p : p \in frame /\ Cardinality({q \in frame : before(q, p)}) = k - 1 <=>
                 p \in frame /\ Rank(R, frame, p) = k - 1
      BY <1>6
    <3>2. (CHOOSE p : p \in frame /\ Cardinality({q \in frame : before(q, p)}) = k - 1) =
          (CHOOSE p : p \in frame /\ Rank(R, frame, p) = k - 1)
      BY <3>1
    <3> QED
      BY <3>2
  <2> QED
    BY <1>2, <2>1
<1>11. at \in Bijection(1 .. N, frame)
  <2>1. at \in [1 .. N -> frame]
    BY <1>9
  <2> HIDE DEF at
  <2>2. ASSUME NEW i \in 1 .. N, NEW j \in 1 .. N, at[i] = at[j] PROVE i = j
    <3>1. i - 1 = j - 1 /\ i \in Int /\ j \in Int
      BY <1>8, <1>9, <2>2
    <3> QED
      BY <3>1
  <2>3. at \in Injection(1 .. N, frame)
    BY <2>1, <2>2, Fun_IsInj
  <2>4. ASSUME NEW p \in frame PROVE \E k \in 1 .. N : at[k] = p
    <3>1. Rank(R, frame, p) + 1 \in 1 .. N /\ (Rank(R, frame, p) + 1) - 1 = Rank(R, frame, p)
      BY <1>8
    <3>2. at[Rank(R, frame, p) + 1] = p
      BY <1>8, <1>9, <3>1
    <3> QED
      BY <3>1, <3>2
  <2>5. at \in Surjection(1 .. N, frame)
    BY <2>1, <2>4 DEF Surjection
  <2> QED
    BY <2>3, <2>5 DEF Bijection
<1> HIDE DEF at
<1>12. ASSUME NEW i \in 1 .. N, NEW j \in 1 .. N, i < j PROVE ~ SortsBefore(sort, row(at[j]), row(at[i]))
  <2> SUFFICES ASSUME <<at[j], at[i]>> \in R PROVE FALSE
    BY <1>7, <1>9
  <2>1. Rank(R, frame, at[j]) < Rank(R, frame, at[i])
    BY <1>5, <1>9, RankRises
  <2>2. j - 1 < i - 1 /\ i \in Int /\ j \in Int
    BY <1>8, <1>9, <2>1
  <2> QED
    BY <1>12, <2>2
<1> QED
  BY <1>10, <1>11, <1>12 DEF N, row

-----------------------------------------------------------------------------
(* Joining deletes away *)

LEMMA FiniteImage ==
    ASSUME NEW S, IsFiniteSet(S), NEW f, f = [x \in S |-> f[x]]
    PROVE  IsFiniteSet({f[x] : x \in S})
<1> DEFINE T == {f[x] : x \in S}
<1>1. f \in [S -> T] /\ \A y \in T : \E x \in S : f[x] = y
  OBVIOUS
<1> HIDE DEF T
<1>2. f \in Surjection(S, T)
  BY <1>1 DEF Surjection
<1>3. IsFiniteSet(T)
  BY <1>2, FS_Surjection
<1> QED
  BY <1>3 DEF T

(* A finite set in sequence.                                                *)
LEMMA InSequence ==
    ASSUME NEW S, IsFiniteSet(S)
    PROVE  SetToSeq(S) \in Seq(S) /\ \A x \in S : \E i \in 1 .. Len(SetToSeq(S)) : SetToSeq(S)[i] = x
<1> DEFINE N == Cardinality(S)
           f == SetToSeq(S)
<1>1. N \in Nat /\ ExistsBijection(1 .. N, S)
  BY FS_CardinalityType
<1>2. PICK g : g \in Bijection(1 .. N, S)
  BY <1>1 DEF ExistsBijection
<1>3. g \in [1 .. N -> S] /\ IsInjective(g)
  BY <1>2 DEF Bijection, Injection
<1>4. f \in [1 .. N -> S] /\ IsInjective(f)
  BY <1>3 DEF SetToSeq
<1> HIDE DEF f
<1>5. f \in Injection(1 .. N, S)
  BY <1>4 DEF Injection
<1>6. IsFiniteSet(1 .. N) /\ Cardinality(1 .. N) = N
  <2>1. 1 \in Int /\ N \in Int
    BY <1>1
  <2>2. IsFiniteSet(1 .. N) /\ Cardinality(1 .. N) = IF 1 > N THEN 0 ELSE N - 1 + 1
    BY <2>1, FS_Interval, Zenon
  <2> QED
    BY <1>1, <2>2
<1>7. f \in Surjection(1 .. N, S)
  BY <1>5, <1>6, FS_Injection DEF N
<1>8. \A x \in S : \E i \in 1 .. N : f[i] = x
  BY <1>7 DEF Surjection
<1>9. f \in Seq(S) /\ Len(f) = N
  BY <1>1, <1>4
<1> QED
  BY <1>8, <1>9 DEF f

(* A row passes an anti-join if no deleted row of the set matches it.       *)
Passes(tasks, p, set) ==
    \A deleted \in DeleteScan(set) : \E c \in DOMAIN deleted : RowAt(tasks, p)[c] # deleted[c]

LEMMA AntiJoin ==
    ASSUME NEW tasks, NEW frame, NEW set
    PROVE  LeftAnti(tasks, frame, set) = {p \in frame : Passes(tasks, p, set)}
  BY DEF LeftAnti, Passes, IsNotDistinctFrom

LEMMA SetsFinite ==
    ASSUME NEW D \in SUBSET DOMAIN DeleteFile
    PROVE  IsFiniteSet(EqualityDeleteSets(D))
<1> DEFINE f == [d \in D |-> [columns |-> Columns(d), deletes |-> {e \in D : Columns(e) = Columns(d)}]]
<1>1. IsFiniteSet(D)
  BY RewriteAssumption, FS_Subset
<1>2. EqualityDeleteSets(D) = {f[d] : d \in D}
  BY DEF EqualityDeleteSets
<1>3. f = [d \in D |-> f[d]]
  OBVIOUS
<1> HIDE DEF f
<1> QED
  BY <1>1, <1>2, <1>3, FiniteImage

(* The joins one after the other leave what passes each of them.            *)
LEMMA JoinedAway ==
    ASSUME NEW tasks, NEW D \in SUBSET DOMAIN DeleteFile
    PROVE  BucketFrame(tasks, D) =
               {p \in ReadTasks(tasks, D) : \A set \in EqualityDeleteSets(D) : Passes(tasks, p, set)}
<1> DEFINE sets == SetToSeq(EqualityDeleteSets(D))
           N == Len(sets)
           read == ReadTasks(tasks, D)
           Eq(g) == g = [n \in 0 .. N |-> IF n = 0 THEN read ELSE LeftAnti(tasks, g[n - 1], sets[n])]
           left == CHOOSE g : Eq(g)
           f == [n \in 0 .. N |-> {p \in read : \A i \in 1 .. n : Passes(tasks, p, sets[i])}]
<1>1. sets \in Seq(EqualityDeleteSets(D)) /\ \A x \in EqualityDeleteSets(D) : \E i \in 1 .. N : sets[i] = x
  BY SetsFinite, InSequence
<1>2. N \in Nat /\ \A i \in 1 .. N : sets[i] \in EqualityDeleteSets(D)
  BY <1>1
<1>3. BucketFrame(tasks, D) = left[N]
  BY DEF BucketFrame
<1> HIDE DEF sets, N, read
<1>4. Eq(f)
  <2>1. ASSUME NEW n \in 0 .. N
        PROVE  f[n] = IF n = 0 THEN read ELSE LeftAnti(tasks, f[n - 1], sets[n])
    <3>1. CASE n = 0
      BY <3>1
    <3>2. CASE n # 0
      <4>1. n - 1 \in 0 .. N /\ n \in 1 .. N
        BY <1>2, <3>2
      <4>2. \A i : i \in 1 .. n <=> i \in 1 .. n - 1 \/ i = n
        BY <3>2
      <4>3. f[n - 1] = {p \in read : \A i \in 1 .. n - 1 : Passes(tasks, p, sets[i])}
        BY <4>1
      <4>4. LeftAnti(tasks, f[n - 1], sets[n]) = {p \in f[n - 1] : Passes(tasks, p, sets[n])}
        BY AntiJoin
      <4>5. f[n] = {p \in read : \A i \in 1 .. n : Passes(tasks, p, sets[i])}
        OBVIOUS
      <4> HIDE DEF f
      <4>6. \A p : p \in f[n] <=> p \in LeftAnti(tasks, f[n - 1], sets[n])
        BY <4>2, <4>3, <4>4, <4>5
      <4> QED
        BY <3>2, <4>6
    <3> QED
      BY <3>1, <3>2
  <2>2. f = [n \in 0 .. N |-> f[n]]
    OBVIOUS
  <2> HIDE DEF f
  <2>3. [n \in 0 .. N |-> f[n]] = [n \in 0 .. N |-> IF n = 0 THEN read ELSE LeftAnti(tasks, f[n - 1], sets[n])]
    BY <2>1
  <2> QED
    BY <2>2, <2>3
<1>5. Eq(left)
  BY <1>4
<1> HIDE DEF left
<1> DEFINE S == {n \in Nat : n <= N => left[n] = f[n]}
<1>6. 0 \in S
  <2>1. 0 \in 0 .. N
    BY <1>2
  <2>2. left[0] = read /\ f[0] = read
    BY <1>4, <1>5, <2>1
  <2> QED
    BY <2>2
<1>7. ASSUME NEW n \in S PROVE n + 1 \in S
  <2> SUFFICES ASSUME n + 1 <= N PROVE left[n + 1] = f[n + 1]
    OBVIOUS
  <2> HIDE DEF f
  <2>1. left[n] = f[n]
    BY <1>2
  <2>2. n + 1 \in 0 .. N /\ n + 1 # 0 /\ (n + 1) - 1 = n
    BY <1>2
  <2>3. left[n + 1] = LeftAnti(tasks, left[n], sets[n + 1])
    BY <1>5, <2>2
  <2>4. f[n + 1] = LeftAnti(tasks, f[n], sets[n + 1])
    BY <1>4, <2>2
  <2> QED
    BY <2>1, <2>3, <2>4
<1>8. N \in S
  <2> HIDE DEF S
  <2>1. S \in SUBSET Nat
    BY DEF S
  <2> QED
    BY <1>2, <1>6, <1>7, <2>1, Upwards
<1>9. left[N] = {p \in read : \A i \in 1 .. N : Passes(tasks, p, sets[i])}
  BY <1>2, <1>8
<1>10. \A p : (\A i \in 1 .. N : Passes(tasks, p, sets[i])) <=> \A set \in EqualityDeleteSets(D) : Passes(tasks, p, set)
  BY <1>1, <1>2
<1> QED
  BY <1>3, <1>9, <1>10 DEF read

(* What a bucket keeps is what a scan of its tasks returns.                 *)
LEMMA BucketIsTheScan ==
    ASSUME NEW tasks, NEW D \in SUBSET DOMAIN DeleteFile
    PROVE  BucketFrame(tasks, D) = {p \in Scanned(tasks) : tasks[p[1]].deletes = D}
<1> DEFINE apart(p, d, deleted) ==
               \E id \in Range(DeleteFile[d].ids) : RowAt(tasks, p)[ColumnOf[id]] # deleted[ColumnOf[id]]
<1>1. ASSUME NEW d PROVE \A c : c \in Range(Columns(d)) <=> \E id \in Range(DeleteFile[d].ids) : c = ColumnOf[id]
  BY DEF Range, Columns
<1>2. ASSUME NEW p, NEW d \in D, NEW row
      PROVE  LET deleted == [c \in Range(Columns(d)) |-> row[c]]
             IN  (\E c \in DOMAIN deleted : RowAt(tasks, p)[c] # deleted[c]) <=> apart(p, d, row)
  <2> DEFINE deleted == [c \in Range(Columns(d)) |-> row[c]]
  <2>1. DOMAIN deleted = Range(Columns(d)) /\ \A c \in Range(Columns(d)) : deleted[c] = row[c]
    OBVIOUS
  <2> HIDE DEF deleted
  <2>2. (\E c \in DOMAIN deleted : RowAt(tasks, p)[c] # deleted[c]) <=>
            \E c \in Range(Columns(d)) : RowAt(tasks, p)[c] # row[c]
    BY <2>1
  <2>3. (\E c \in Range(Columns(d)) : RowAt(tasks, p)[c] # row[c]) <=> apart(p, d, row)
    BY <1>1
  <2> QED
    BY <2>2, <2>3 DEF deleted
<1>3. ASSUME NEW p
      PROVE  (\A set \in EqualityDeleteSets(D) : Passes(tasks, p, set)) <=>
                 \A d \in D : \A deleted \in DeleteFile[d].rows : apart(p, d, deleted)
  <2>1. ASSUME \A set \in EqualityDeleteSets(D) : Passes(tasks, p, set), NEW d \in D, NEW row \in DeleteFile[d].rows
        PROVE  apart(p, d, row)
    <3> DEFINE set == [columns |-> Columns(d), deletes |-> {e \in D : Columns(e) = Columns(d)}]
               deleted == [c \in Range(Columns(d)) |-> row[c]]
    <3>1. set \in EqualityDeleteSets(D)
      BY DEF EqualityDeleteSets
    <3>2. deleted \in DeleteScan(set)
      <4>1. d \in set.deletes /\ set.columns = Columns(d)
        OBVIOUS
      <4> HIDE DEF set
      <4>2. row \in UNION {DeleteFile[e].rows : e \in set.deletes}
        BY <4>1
      <4> QED
        BY <4>1, <4>2 DEF DeleteScan
    <3>3. \E c \in DOMAIN deleted : RowAt(tasks, p)[c] # deleted[c]
      <4> HIDE DEF deleted, set
      <4> QED
        BY <2>1, <3>1, <3>2 DEF Passes
    <3> HIDE DEF apart
    <3> QED
      BY <1>2, <3>3
  <2>2. ASSUME \A d \in D : \A deleted \in DeleteFile[d].rows : apart(p, d, deleted), NEW set \in EqualityDeleteSets(D)
        PROVE  Passes(tasks, p, set)
    <3> SUFFICES ASSUME NEW deleted \in DeleteScan(set) PROVE \E c \in DOMAIN deleted : RowAt(tasks, p)[c] # deleted[c]
      BY DEF Passes
    <3>1. PICK e \in D : set = [columns |-> Columns(e), deletes |-> {d \in D : Columns(d) = Columns(e)}]
      BY DEF EqualityDeleteSets
    <3>2. PICK row \in UNION {DeleteFile[d].rows : d \in set.deletes} : deleted = [c \in Range(set.columns) |-> row[c]]
      BY DEF DeleteScan
    <3>3. PICK d \in D : row \in DeleteFile[d].rows /\ set.columns = Columns(d)
      BY <3>1, <3>2
    <3>4. apart(p, d, row)
      BY <2>2, <3>3
    <3> HIDE DEF apart
    <3> QED
      BY <1>2, <3>2, <3>3, <3>4
  <2> QED
    BY <2>1, <2>2
<1>4. BucketFrame(tasks, D) = {p \in ReadTasks(tasks, D) : \A d \in D : \A deleted \in DeleteFile[d].rows : apart(p, d, deleted)}
  <2> HIDE DEF apart
  <2> QED
    BY <1>3, JoinedAway
<1>5. \A p : p \in Scanned(tasks) <=>
          p \in PlacesOf(tasks) /\ \A d \in tasks[p[1]].deletes : \A deleted \in DeleteFile[d].rows : apart(p, d, deleted)
  BY DEF Scanned
<1> HIDE DEF apart
<1> QED
  BY <1>4, <1>5 DEF ReadTasks

-----------------------------------------------------------------------------
(* Uniting the buckets *)

LEMMA PlacesFinite ==
    ASSUME NEW tasks \in Seq(Task)
    PROVE  /\ IsFiniteSet(PlacesOf(tasks))
           /\ \A p \in PlacesOf(tasks) :
                  /\ p = <<p[1], p[2]>> /\ p[1] \in Nat /\ p[2] \in Nat
                  /\ p[1] \in DOMAIN tasks /\ RowAt(tasks, p) \in Row
<1>1. Len(tasks) \in Nat /\ DOMAIN tasks = 1 .. Len(tasks) /\ \A t \in DOMAIN tasks : tasks[t].rows \in Seq(Row)
  <2>1. Len(tasks) \in Nat /\ DOMAIN tasks = 1 .. Len(tasks) /\ \A t \in DOMAIN tasks : tasks[t] \in Task
    OBVIOUS
  <2>2. \A task \in Task : task.rows \in Seq(Row)
    BY DEF Task
  <2> QED
    BY <2>1, <2>2
<1>2. \A n \in Nat : IsFiniteSet(1 .. n)
  BY FS_Interval
<1>3. ASSUME NEW t \in DOMAIN tasks PROVE IsFiniteSet({<<t, n>> : n \in DOMAIN tasks[t].rows})
  <2> DEFINE f == [n \in DOMAIN tasks[t].rows |-> <<t, n>>]
  <2>1. IsFiniteSet(DOMAIN tasks[t].rows)
    <3>1. Len(tasks[t].rows) \in Nat /\ DOMAIN tasks[t].rows = 1 .. Len(tasks[t].rows)
      BY <1>1
    <3> QED
      BY <1>2, <3>1
  <2>2. f = [n \in DOMAIN tasks[t].rows |-> f[n]] /\ \A n \in DOMAIN tasks[t].rows : f[n] = <<t, n>>
    OBVIOUS
  <2> HIDE DEF f
  <2>3. IsFiniteSet({f[n] : n \in DOMAIN tasks[t].rows})
    BY <2>1, <2>2, FiniteImage
  <2>4. {f[n] : n \in DOMAIN tasks[t].rows} = {<<t, n>> : n \in DOMAIN tasks[t].rows}
    BY <2>2
  <2> QED
    BY <2>3, <2>4
<1> DEFINE g == [t \in DOMAIN tasks |-> {<<t, n>> : n \in DOMAIN tasks[t].rows}]
<1>4. PlacesOf(tasks) = UNION {g[t] : t \in DOMAIN tasks}
  BY DEF PlacesOf
<1>5. g = [t \in DOMAIN tasks |-> g[t]] /\ \A t \in DOMAIN tasks : IsFiniteSet(g[t])
  BY <1>3
<1> HIDE DEF g
<1>6. IsFiniteSet({g[t] : t \in DOMAIN tasks})
  BY <1>1, <1>2, <1>5, FiniteImage
<1>7. IsFiniteSet(PlacesOf(tasks))
  <2> DEFINE G == {g[t] : t \in DOMAIN tasks}
  <2>1. IsFiniteSet(G) /\ \A T \in G : IsFiniteSet(T)
    BY <1>5, <1>6
  <2> HIDE DEF G
  <2>2. IsFiniteSet(UNION G)
    BY <2>1, FS_UNION
  <2> QED
    BY <1>4, <2>2 DEF G
<1>8. ASSUME NEW p \in PlacesOf(tasks)
      PROVE  /\ p = <<p[1], p[2]>> /\ p[1] \in Nat /\ p[2] \in Nat
             /\ p[1] \in DOMAIN tasks /\ RowAt(tasks, p) \in Row
  <2>0. PICK t \in DOMAIN tasks : \E n \in DOMAIN tasks[t].rows : p = <<t, n>>
    BY DEF PlacesOf
  <2>1. PICK n \in DOMAIN tasks[t].rows : p = <<t, n>>
    BY <2>0
  <2>2. tasks[t].rows \in Seq(Row)
    BY <1>1
  <2>3. t \in Nat /\ n \in Nat /\ tasks[t].rows[n] \in Row
    BY <1>1, <2>1, <2>2
  <2> QED
    BY <2>1, <2>3 DEF RowAt
<1> QED
  BY <1>7, <1>8

(* Each task is in one bucket.                                              *)
LEMMA BucketsPart ==
    ASSUME NEW tasks \in Seq(Task), NEW buckets \in BucketOrders(tasks)
    PROVE  /\ DOMAIN buckets \subseteq Nat
           /\ \A b \in DOMAIN buckets : buckets[b] \in SUBSET DOMAIN DeleteFile
           /\ \A b, c \in DOMAIN buckets : buckets[b] = buckets[c] => b = c
           /\ \A t \in DOMAIN tasks : \E b \in DOMAIN buckets : buckets[b] = tasks[t].deletes
<1> DEFINE S == {t.deletes : t \in Range(tasks)}
           N == Cardinality(S)
<1>1. \A t \in DOMAIN tasks : tasks[t] \in Task /\ tasks[t] \in Range(tasks)
  BY DEF Range
<1>2. \A t \in Range(tasks) : t \in Task
  BY <1>1 DEF Range
<1>3. \A s \in S : s \in SUBSET DOMAIN DeleteFile
  BY <1>2 DEF Task
<1>4. buckets \in [1 .. N -> S] /\ \A i, j \in 1 .. N : i # j => buckets[i] # buckets[j]
  BY Zenon DEF BucketOrders, SetToSeqs
<1>5. IsFiniteSet(S)
  <2> DEFINE f == [t \in DOMAIN tasks |-> tasks[t].deletes]
  <2>1. S = {f[t] : t \in DOMAIN tasks}
    BY DEF Range
  <2>2. f = [t \in DOMAIN tasks |-> f[t]]
    OBVIOUS
  <2>3. IsFiniteSet(DOMAIN tasks)
    <3>1. Len(tasks) \in Nat /\ DOMAIN tasks = 1 .. Len(tasks)
      OBVIOUS
    <3> QED
      BY <3>1, FS_Interval
  <2> HIDE DEF f, S
  <2> QED
    BY <2>1, <2>2, <2>3, FiniteImage
<1> HIDE DEF S
<1>6. N \in Nat /\ IsFiniteSet(1 .. N) /\ Cardinality(1 .. N) = N
  <2>1. N \in Nat
    BY <1>5, FS_CardinalityType
  <2>2. 1 \in Int /\ N \in Int
    BY <2>1
  <2>3. IsFiniteSet(1 .. N) /\ Cardinality(1 .. N) = IF 1 > N THEN 0 ELSE N - 1 + 1
    BY <2>2, FS_Interval, Zenon
  <2> QED
    BY <2>1, <2>3
<1>7. buckets \in Injection(1 .. N, S)
  BY <1>4, Fun_IsInj
<1>8. buckets \in Surjection(1 .. N, S)
  BY <1>5, <1>6, <1>7, FS_Injection DEF N
<1>9. \A s \in S : \E b \in 1 .. N : buckets[b] = s
  BY <1>8 DEF Surjection
<1>10. \A t \in DOMAIN tasks : tasks[t].deletes \in S
  BY <1>1 DEF S
<1> HIDE DEF N
<1>11. DOMAIN buckets = 1 .. N
  BY <1>4
<1> QED
  BY <1>3, <1>4, <1>6, <1>9, <1>10, <1>11

(* The union holds what a scan returns, each row under one bucket.          *)
LEMMA UnionIsTheScan ==
    ASSUME NEW tasks \in Seq(Task), NEW buckets \in BucketOrders(tasks)
    PROVE  /\ IsFiniteSet(Union(tasks, buckets))
           /\ \A u \in Union(tasks, buckets) :
                  u \in Numbers /\ <<u[2], u[3]>> \in Scanned(tasks) /\ RowAt(tasks, <<u[2], u[3]>>) \in Row
           /\ \A u, v \in Union(tasks, buckets) : <<u[2], u[3]>> = <<v[2], v[3]>> => u = v
           /\ \A p \in Scanned(tasks) : \E u \in Union(tasks, buckets) : <<u[2], u[3]>> = p
<1> DEFINE U == Union(tasks, buckets)
<1>1. \A p \in Scanned(tasks) : p \in PlacesOf(tasks)
  BY DEF Scanned
<1>2. \A p \in Scanned(tasks) : /\ p = <<p[1], p[2]>> /\ p[1] \in Nat /\ p[2] \in Nat
                                 /\ p[1] \in DOMAIN tasks /\ RowAt(tasks, p) \in Row
  BY <1>1, PlacesFinite
<1>3. /\ DOMAIN buckets \subseteq Nat
      /\ \A b \in DOMAIN buckets : buckets[b] \in SUBSET DOMAIN DeleteFile
      /\ \A b, c \in DOMAIN buckets : buckets[b] = buckets[c] => b = c
      /\ \A t \in DOMAIN tasks : \E b \in DOMAIN buckets : buckets[b] = tasks[t].deletes
  BY BucketsPart
<1>4. \A b \in DOMAIN buckets : BucketFrame(tasks, buckets[b]) = {p \in Scanned(tasks) : tasks[p[1]].deletes = buckets[b]}
  BY <1>3, BucketIsTheScan
<1>5. \A u : u \in U <=> \E b \in DOMAIN buckets : \E p \in Scanned(tasks) :
                           tasks[p[1]].deletes = buckets[b] /\ u = <<b, p[1], p[2]>>
  BY <1>4 DEF Union
<1> HIDE DEF U
<1>6. ASSUME NEW u \in U
      PROVE  /\ u \in Numbers /\ <<u[2], u[3]>> \in Scanned(tasks) /\ RowAt(tasks, <<u[2], u[3]>>) \in Row
             /\ u[1] \in DOMAIN buckets /\ buckets[u[1]] = tasks[u[2]].deletes /\ u = <<u[1], u[2], u[3]>>
  <2>1. PICK b \in DOMAIN buckets, p \in Scanned(tasks) : tasks[p[1]].deletes = buckets[b] /\ u = <<b, p[1], p[2]>>
    BY <1>5
  <2>2. u[1] = b /\ <<u[2], u[3]>> = p /\ u[2] = p[1] /\ u[3] = p[2]
    BY <1>2, <2>1
  <2> QED
    BY <1>2, <1>3, <2>1, <2>2 DEF Numbers
<1>7. ASSUME NEW u \in U, NEW v \in U, <<u[2], u[3]>> = <<v[2], v[3]>> PROVE u = v
  <2>1. u[2] = v[2] /\ u[3] = v[3]
    BY <1>7
  <2>2. u[1] = v[1]
    <3>1. u[1] \in DOMAIN buckets /\ v[1] \in DOMAIN buckets
          /\ buckets[u[1]] = tasks[u[2]].deletes /\ buckets[v[1]] = tasks[v[2]].deletes
      BY <1>6
    <3>2. buckets[u[1]] = buckets[v[1]]
      BY <2>1, <3>1
    <3> QED
      BY <1>3, <3>1, <3>2
  <2>3. u = <<u[1], u[2], u[3]>> /\ v = <<v[1], v[2], v[3]>>
    BY <1>6
  <2> QED
    BY <2>1, <2>2, <2>3
<1>8. ASSUME NEW p \in Scanned(tasks) PROVE \E u \in U : <<u[2], u[3]>> = p
  <2>1. PICK b \in DOMAIN buckets : buckets[b] = tasks[p[1]].deletes
    BY <1>2, <1>3
  <2>2. <<b, p[1], p[2]>> \in U
    BY <1>5, <2>1
  <2> DEFINE u == <<b, p[1], p[2]>>
  <2>3. <<u[2], u[3]>> = p
    BY <1>2
  <2> QED
    BY <2>2, <2>3
<1>9. IsFiniteSet(U)
  <2>1. IsFiniteSet(Scanned(tasks))
    BY <1>1, PlacesFinite, FS_Subset
  <2> DEFINE f == [u \in U |-> <<u[2], u[3]>>]
  <2>2. f \in [U -> Scanned(tasks)] /\ \A u, v \in U : f[u] = f[v] => u = v
    BY <1>6, <1>7
  <2> HIDE DEF f
  <2>3. f \in Injection(U, Scanned(tasks))
    BY <2>2, Fun_IsInj
  <2> QED
    BY <2>1, <2>3, FS_Injection
<1> QED
  BY <1>6, <1>7, <1>8, <1>9 DEF U

-----------------------------------------------------------------------------
(* Cutting into files *)

LEMMA RoundedUp ==
    ASSUME NEW L \in Nat, NEW P \in Nat \ {0}, NEW q, q = (L + P - 1) \div P
    PROVE  /\ q \in Nat /\ L <= q * P
           /\ \A i \in 1 .. q : /\ (i - 1) * P \in Nat /\ (i - 1) * P < L
                                 /\ i * P \in Nat /\ i * P = (i - 1) * P + P
<1>1. q \in Nat /\ q * P <= L + P - 1 /\ L + P - 1 < q * P + P
  <2>1. L + P - 1 \in Nat
    OBVIOUS
  <2>2. \A a \in Nat : a \div P \in Nat /\ (a \div P) * P <= a /\ a < (a \div P) * P + P
    OBVIOUS
  <2> QED
    BY <2>1, <2>2
<1>2. q * P \in Nat
  BY <1>1
<1>3. ASSUME NEW i \in 1 .. q
      PROVE  (i - 1) * P \in Nat /\ (i - 1) * P < L /\ i * P \in Nat /\ i * P = (i - 1) * P + P
  <2>1. i \in Nat /\ i - 1 \in Nat /\ q - i \in Nat
    BY <1>1
  <2>2. i * P \in Nat /\ (i - 1) * P \in Nat /\ (q - i) * P \in Nat
    BY <2>1
  <2>3. i * P = (i - 1) * P + P
    BY <2>1
  <2>4. q * P = i * P + (q - i) * P
    BY <1>1, <2>1
  <2> QED
    BY <1>1, <1>2, <2>2, <2>3, <2>4
<1> QED
  BY <1>1, <1>2, <1>3

LEMMA Lesser ==
    ASSUME NEW a \in Nat, NEW b \in Nat
    PROVE  Min({a, b}) = IF a <= b THEN a ELSE b
<1>1. {a, b} \in SUBSET Nat /\ {a, b} # {}
  OBVIOUS
<1>2. Min({a, b}) \in {a, b} /\ \A y \in {a, b} : Min({a, b}) <= y
  BY <1>1, MinIsLeast
<1> HIDE DEF Min
<1> QED
  BY <1>2

(* The files one after the other are the rows that were written to them.    *)
LEMMA RolledOut ==
    ASSUME NEW T, NEW rows \in Seq(T)
    PROVE  FlattenSeq(Roll(rows)) = rows
<1> DEFINE L == Len(rows)
           P == PerFile
           q == (L + P - 1) \div P
           last(i) == Min({i * P, L})
           pieces == [i \in 1 .. q |-> SubSeq(rows, (i - 1) * P + 1, last(i))]
           f == [i \in 0 .. q |-> SubSeq(rows, 1, last(i))]
<1>1. Roll(rows) = pieces
  BY DEF Roll
<1>2. L \in Nat /\ P \in Nat \ {0}
  BY RewriteAssumption
<1>3. /\ q \in Nat /\ L <= q * P
      /\ \A i \in 1 .. q : /\ (i - 1) * P \in Nat /\ (i - 1) * P < L
                            /\ i * P \in Nat /\ i * P = (i - 1) * P + P
  BY <1>2, RoundedUp
<1> HIDE DEF q, P
<1>4. 0 * P = 0 /\ q * P \in Nat
  BY <1>2, <1>3
<1>5. \A i \in 0 .. q : i * P \in Nat
  BY <1>2, <1>3
<1>6. \A i \in 0 .. q : last(i) = IF i * P <= L THEN i * P ELSE L
  BY <1>2, <1>5, Lesser
<1>7. last(0) = 0 /\ last(q) = L
  <2>1. 0 \in 0 .. q /\ q \in 0 .. q
    BY <1>3
  <2>2. /\ last(0) = IF 0 * P <= L THEN 0 * P ELSE L
        /\ last(q) = IF q * P <= L THEN q * P ELSE L
    BY <1>6, <2>1
  <2>3. L <= q * P
    BY <1>3
  <2> HIDE DEF last, L
  <2> QED
    BY <1>2, <1>4, <2>2, <2>3
<1>8. \A i \in 1 .. q : last(i - 1) = (i - 1) * P /\ last(i) \in last(i - 1) .. L
  <2> SUFFICES ASSUME NEW i \in 1 .. q PROVE last(i - 1) = (i - 1) * P /\ last(i) \in last(i - 1) .. L
    OBVIOUS
  <2>1. i \in 0 .. q /\ i - 1 \in 0 .. q
    BY <1>3
  <2>2. last(i - 1) = IF (i - 1) * P <= L THEN (i - 1) * P ELSE L
    BY <1>6, <2>1
  <2>3. last(i) = IF i * P <= L THEN i * P ELSE L
    BY <1>6, <2>1
  <2> HIDE DEF last, L
  <2>4. (i - 1) * P \in Nat /\ (i - 1) * P < L /\ i * P \in Nat /\ i * P = (i - 1) * P + P
    BY <1>3
  <2> QED
    BY <1>2, <2>2, <2>3, <2>4
<1>9. \A i \in 0 .. q : last(i) \in 0 .. L
  BY <1>2, <1>5, <1>6
<1> HIDE DEF last, L
<1>10. \A i \in 0 .. q : f[i] = SubSeq(rows, 1, last(i))
  OBVIOUS
<1>11. \A m, n \in Nat : 1 <= m /\ n <= L => SubSeq(rows, m, n) \in Seq(T)
  <2> SUFFICES ASSUME NEW m \in Nat, NEW n \in Nat, 1 <= m, n <= L PROVE SubSeq(rows, m, n) \in Seq(T)
    OBVIOUS
  <2>1. \A i \in m .. n : i \in 1 .. Len(rows)
    BY DEF L
  <2>2. \A i \in m .. n : rows[i] \in T
    BY <2>1
  <2> QED
    BY <2>2, SubSeqProperties
<1>12. pieces \in Seq(Seq(T)) /\ Len(pieces) = q
  <2>1. ASSUME NEW i \in 1 .. q PROVE SubSeq(rows, (i - 1) * P + 1, last(i)) \in Seq(T)
    <3>0. (i - 1) * P \in Nat /\ i \in 0 .. q
      BY <1>3
    <3>1. i \in 0 .. q /\ (i - 1) * P + 1 \in Nat /\ 1 <= (i - 1) * P + 1
      BY <3>0
    <3>2. last(i) \in Nat /\ last(i) <= L
      BY <1>2, <1>9, <3>1
    <3> QED
      BY <1>11, <3>1, <3>2
  <2>2. pieces \in [1 .. q -> Seq(T)]
    BY <2>1
  <2> HIDE DEF pieces
  <2> QED
    BY <1>3, <2>2
<1>13. Partials(f, pieces, q, T)
  <2>1. f \in [0 .. q -> Seq(T)]
    <3> SUFFICES ASSUME NEW i \in 0 .. q PROVE SubSeq(rows, 1, last(i)) \in Seq(T)
      OBVIOUS
    <3>1. last(i) \in Nat /\ last(i) <= L
      BY <1>2, <1>9
    <3> QED
      BY <1>11, <3>1
  <2>2. f[0] = <<>>
    <3>1. 0 \in 0 .. q
      BY <1>3
    <3>2. SubSeq(rows, 1, 0) = <<>>
      BY SubSeqEmpty
    <3> QED
      BY <1>7, <1>10, <3>1, <3>2
  <2>3. ASSUME NEW i \in 0 .. q - 1 PROVE f[i + 1] = f[i] \o pieces[i + 1]
    <3>1. i + 1 \in 1 .. q /\ (i + 1) - 1 = i /\ i \in 0 .. q /\ i + 1 \in 0 .. q
      BY <1>3
    <3>2. last(i) = i * P /\ last(i + 1) \in last(i) .. L
      BY <1>8, <3>1
    <3>3. pieces[i + 1] = SubSeq(rows, last(i) + 1, last(i + 1))
      BY <3>1, <3>2
    <3>4. last(i) \in 0 .. L
      BY <1>9, <3>1
    <3>5. SubSeq(rows, 1, last(i)) \o SubSeq(rows, last(i) + 1, last(i + 1)) = SubSeq(rows, 1, last(i + 1))
      <4>1. 1 \in 1 .. Len(rows) + 1 /\ last(i) \in 1 - 1 .. Len(rows) /\ last(i + 1) \in last(i) .. Len(rows)
        BY <1>2, <3>2, <3>4 DEF L
      <4> QED
        BY <4>1, ConcatAdjacentSubSeq
    <3> HIDE DEF f, pieces
    <3> QED
      BY <1>10, <3>1, <3>3, <3>5
  <2> HIDE DEF f, pieces
  <2> QED
    BY <2>1, <2>2, <2>3 DEF Partials
<1>14. FlattenSeq(pieces) = f[q]
  <2> HIDE DEF f, pieces
  <2> QED
    BY <1>12, <1>13, Flattened
<1>15. f[q] = SubSeq(rows, 1, Len(rows))
  BY <1>3, <1>7, <1>10 DEF L
<1>16. SubSeq(rows, 1, Len(rows)) = rows
  BY SubSeqFull
<1> QED
  BY <1>1, <1>14, <1>15, <1>16

(* The rows a reader saw of a group, each as often, in order and filed      *)
(* where all of its files were.                                             *)
AsScanned(tasks, sort, written, after) ==
    /\ \A row : Cardinality({p \in Scanned(tasks) : RowAt(tasks, p) = row}) =
                Cardinality({i \in DOMAIN after : after[i] = row})
    /\ \A t \in Range(tasks) : t.tuple = written.tuple
    /\ \A i, j \in DOMAIN after : i < j => ~ SortsBefore(sort, after[j], after[i])

(* A rewrite that is not refused writes a group as it was scanned.          *)
LEMMA RewriteWrites ==
    ASSUME NEW tasks \in Seq(Task), NEW readAgain, NEW buckets \in BucketOrders(tasks),
           NEW sort \in Seq(SortField), NEW written,
           written = RewriteGroup(tasks, buckets, sort, readAgain), written # Refused
    PROVE  AsScanned(tasks, sort, written, FlattenSeq(written.files))
<1> DEFINE after == FlattenSeq(written.files)
<1> DEFINE U == Union(tasks, buckets)
           N == Cardinality(U)
           rows == Sorted(tasks, U, sort)
           place(u) == <<u[2], u[3]>>
<1>1. CheckSortColumns(sort) /\ PartitionKeyFor(tasks) # Refused
  BY DEF RewriteGroup
<1>2. written = [tuple |-> PartitionKeyFor(tasks), files |-> Roll(rows)]
  BY Zenon DEF RewriteGroup
<1>3. written.tuple = PartitionKeyFor(tasks) /\ written.files = Roll(rows)
  BY <1>2
<1>4. \A t \in Range(tasks) : t.tuple = written.tuple
  BY <1>1, <1>3 DEF PartitionKeyFor
<1>5. /\ IsFiniteSet(U)
      /\ \A u \in U : u \in Numbers /\ place(u) \in Scanned(tasks) /\ RowAt(tasks, place(u)) \in Row
      /\ \A u, v \in U : place(u) = place(v) => u = v
      /\ \A p \in Scanned(tasks) : \E u \in U : place(u) = p
  BY UnionIsTheScan
<1> HIDE DEF U
<1>6. PICK at \in Bijection(1 .. N, U) :
          /\ rows = [k \in 1 .. N |-> RowAt(tasks, place(at[k]))]
          /\ \A i, j \in 1 .. N : i < j => ~ SortsBefore(sort, RowAt(tasks, place(at[j])), RowAt(tasks, place(at[i])))
  BY <1>1, <1>5, SortedIs
<1> HIDE DEF place, rows
<1>7. N \in Nat
  BY <1>5, FS_CardinalityType
<1> HIDE DEF N
<1>8. at \in [1 .. N -> U] /\ (\A i, j \in 1 .. N : at[i] = at[j] => i = j) /\ \A u \in U : \E k \in 1 .. N : at[k] = u
  BY DEF Bijection, Injection, Surjection, IsInjective
<1>9. rows \in Seq(Row) /\ DOMAIN rows = 1 .. N /\ \A k \in 1 .. N : rows[k] = RowAt(tasks, place(at[k]))
  <2>1. \A k \in 1 .. N : RowAt(tasks, place(at[k])) \in Row
    BY <1>5, <1>8
  <2>2. rows \in [1 .. N -> Row]
    BY <1>6, <2>1
  <2> QED
    BY <1>6, <1>7, <2>2
<1>10. after = rows
  BY <1>3, <1>9, RolledOut
<1> HIDE DEF after
<1>11. \A i, j \in DOMAIN after : i < j => ~ SortsBefore(sort, after[j], after[i])
  BY <1>6, <1>9, <1>10
<1>12. ASSUME NEW row
       PROVE  Cardinality({p \in Scanned(tasks) : RowAt(tasks, p) = row}) =
              Cardinality({i \in DOMAIN after : after[i] = row})
  <2> DEFINE I == {i \in DOMAIN after : after[i] = row}
             P == {p \in Scanned(tasks) : RowAt(tasks, p) = row}
             f == [i \in I |-> place(at[i])]
  <2>1. \A i : i \in I <=> i \in 1 .. N /\ RowAt(tasks, place(at[i])) = row
    BY <1>9, <1>10
  <2>2. IsFiniteSet(I)
    <3>1. IsFiniteSet(1 .. N) /\ I \in SUBSET (1 .. N)
      BY <1>7, <2>1, FS_Interval
    <3> QED
      BY <3>1, FS_Subset
  <2> HIDE DEF I
  <2>3. f \in [I -> P]
    BY <1>5, <1>8, <2>1
  <2>4. ASSUME NEW i \in I, NEW j \in I, f[i] = f[j] PROVE i = j
    <3>1. place(at[i]) = place(at[j]) /\ at[i] \in U /\ at[j] \in U /\ i \in 1 .. N /\ j \in 1 .. N
      BY <1>8, <2>1, <2>4
    <3> QED
      BY <1>5, <1>8, <3>1
  <2>5. ASSUME NEW p \in P PROVE \E i \in I : f[i] = p
    <3>1. PICK u \in U : place(u) = p
      BY <1>5
    <3>2. PICK k \in 1 .. N : at[k] = u
      BY <1>8
    <3>3. k \in I
      BY <2>1, <3>1, <3>2
    <3> QED
      BY <3>1, <3>2, <3>3
  <2> HIDE DEF f, P
  <2>6. f \in Injection(I, P)
    BY <2>3, <2>4, Fun_IsInj
  <2>7. f \in Bijection(I, P)
    BY <2>3, <2>5, <2>6 DEF Bijection, Surjection
  <2>8. Cardinality(P) = Cardinality(I)
    BY <2>2, <2>7, FS_Bijection DEF ExistsBijection
  <2> QED
    BY <2>8 DEF I, P
<1> QED
  BY <1>4, <1>11, <1>12 DEF AsScanned, after

-----------------------------------------------------------------------------
(* The facts the rest is about *)

USE PolicyAssumption, SurveyAssumption

-----------------------------------------------------------------------------
(* Types *)

Contents == [tables : SUBSET Tables, children : [Namespaces -> SUBSET Namespaces]]

PCs == {"config", "compiled", "rejected", "walking", "failed", "decide", "examined", "cleaned", "rewritten"}

Walks ==
    [pc : PCs, queue : SUBSET Namespaces, level : SUBSET Namespaces, started : SUBSET Namespaces,
     listed : SUBSET Namespaces, found : [Tables -> 0 .. 2]]

TypeOK ==
    /\ config \in Configs
    /\ catalog \in Contents
    /\ steady \in Contents
    /\ walk \in Walks
    /\ changes \in Nat

-----------------------------------------------------------------------------
(* The walk *)

Unstarted == {"config", "compiled", "rejected"}
Ended == {"decide", "examined", "cleaned", "rewritten"}

(* The namespaces whose tables have been listed. *)
Answered == (walk.listed \ walk.level) \cup walk.started

(* A table is found when its namespace answers, and a namespace answers     *)
(* once; what was there all along was there to be listed; and whatever is   *)
(* below a namespace that is done with is listed or queued.                 *)
WalkOK ==
    /\ walk.started \subseteq walk.level /\ walk.level \subseteq walk.listed
    /\ walk.pc \in Unstarted => walk.listed = {} /\ walk.queue = {}
    /\ walk.pc \notin Unstarted => Roots \subseteq walk.listed \cup walk.queue
    /\ walk.pc \in Ended => walk.level = {} /\ walk.queue = {}
    /\ \A t \in Tables : walk.found[t] <= 1 /\ (walk.found[t] # 0 => NamespaceOf(t) \in Answered)
    /\ \A t \in steady.tables : NamespaceOf(t) \in Answered => walk.found[t] = 1
    /\ \A ns \in walk.listed \ walk.level : steady.children[ns] \subseteq walk.listed \cup walk.queue
    /\ steady.tables \subseteq catalog.tables
    /\ \A ns \in Namespaces : steady.children[ns] \subseteq catalog.children[ns]

WalkInv == TypeOK /\ WalkOK

LEMMA WalkInit == Init => WalkInv
<1> SUFFICES ASSUME Init PROVE WalkInv
  OBVIOUS
<1>1. TypeOK
  BY DEF Init, TypeOK, Contents, Walks, PCs
<1> QED
  BY <1>1 DEF Init, WalkInv, WalkOK, Answered, Unstarted, Ended, TypeOK, Contents

(* A step that moves the program counter on and leaves the rest of the walk *)
(* as it is.                                                                *)
LEMMA Onward ==
    ASSUME WalkInv, NEW pc \in PCs, walk' = [walk EXCEPT !.pc = pc],
           walk.pc \in Unstarted <=> pc \in Unstarted, pc \in Ended => walk.pc \in Ended,
           UNCHANGED <<config, catalog, steady, changes>>
    PROVE  WalkInv'
<1>1. /\ walk' \in Walks /\ walk'.pc = pc /\ walk'.queue = walk.queue /\ walk'.level = walk.level
      /\ walk'.started = walk.started /\ walk'.listed = walk.listed /\ walk'.found = walk.found
  BY DEF WalkInv, TypeOK, Walks
<1>2. TypeOK'
  BY <1>1 DEF WalkInv, TypeOK
<1>3. Answered' = Answered
  BY <1>1 DEF Answered
<1>4. WalkOK'
  BY <1>1, <1>3 DEF WalkInv, WalkOK
<1> QED
  BY <1>2, <1>4 DEF WalkInv

LEMMA WalkStarts == ASSUME WalkInv, Start PROVE WalkInv'
<1>1. /\ walk' \in Walks /\ walk'.pc = "walking" /\ walk'.queue = Roots /\ walk'.level = walk.level
      /\ walk'.started = walk.started /\ walk'.listed = walk.listed /\ walk'.found = walk.found
  BY DEF WalkInv, TypeOK, Walks, Start, PCs
<1>2. TypeOK'
  BY <1>1 DEF WalkInv, TypeOK, Start
<1>3. walk.listed = {} /\ Answered = {} /\ Answered' = {}
  BY <1>1 DEF Answered, WalkInv, WalkOK, Start, Unstarted
<1>4. WalkOK'
  <2>1. catalog' = catalog /\ steady' = catalog
    BY DEF Start
  <2> QED
    BY <1>1, <1>3, <2>1 DEF WalkInv, WalkOK, Unstarted, Ended, TypeOK, Contents
<1> QED
  BY <1>2, <1>4 DEF WalkInv

LEMMA WalkDescends == ASSUME WalkInv, Descend PROVE WalkInv'
<1> DEFINE level == Fresh(walk.queue, walk.listed)
<1>0. level = walk.queue \ walk.listed /\ walk.level = {} /\ walk.started = {} /\ walk.pc = "walking"
  BY DEF Fresh, WalkInv, WalkOK, Descend
<1>1. CASE level = {}
  <2>1. /\ walk' \in Walks /\ walk'.pc = "decide" /\ walk'.queue = {} /\ walk'.level = walk.level
        /\ walk'.started = walk.started /\ walk'.listed = walk.listed /\ walk'.found = walk.found
    BY <1>1 DEF WalkInv, TypeOK, Walks, Descend, PCs
  <2>2. TypeOK'
    BY <2>1 DEF WalkInv, TypeOK, Descend
  <2>3. Answered' = Answered /\ walk.queue \subseteq walk.listed
    BY <1>0, <1>1, <2>1 DEF Answered
  <2>4. WalkOK'
    BY <1>0, <2>1, <2>3 DEF WalkInv, WalkOK, Unstarted, Ended, Descend
  <2> QED
    BY <2>2, <2>4 DEF WalkInv
<1>2. CASE level # {}
  <2>1. /\ walk' \in Walks /\ walk'.pc = walk.pc /\ walk'.queue = {} /\ walk'.level = level
        /\ walk'.started = walk.started /\ walk'.listed = walk.listed \cup level /\ walk'.found = walk.found
    <3>1. level \subseteq Namespaces
      BY <1>0 DEF WalkInv, TypeOK, Walks
    <3>2. walk' = [walk EXCEPT !.level = level, !.listed = @ \cup level, !.queue = {}]
      BY <1>2 DEF Descend
    <3> HIDE DEF level
    <3> QED
      BY <3>1, <3>2 DEF WalkInv, TypeOK, Walks
  <2>2. TypeOK'
    BY <2>1 DEF WalkInv, TypeOK, Descend
  <2>3. Answered' = Answered
    BY <1>0, <2>1 DEF Answered
  <2>4. walk'.listed \cup walk'.queue = walk.listed \cup walk.queue /\ walk'.listed \ walk'.level = walk.listed \ walk.level
    BY <1>0, <2>1
  <2>5. WalkOK'
    BY <1>0, <2>1, <2>3, <2>4 DEF WalkInv, WalkOK, Unstarted, Ended, Descend
  <2> QED
    BY <2>2, <2>5 DEF WalkInv
<1> QED
  BY <1>1, <1>2

LEMMA TablesListed == ASSUME WalkInv, NEW ns \in Namespaces, ListTables(ns) PROVE WalkInv'
<1> DEFINE found == [t \in Tables |->
                IF t \in catalog.tables /\ NamespaceOf(t) = ns THEN Min({2, walk.found[t] + 1}) ELSE walk.found[t]]
<1>0. ns \in walk.level /\ ns \notin walk.started /\ walk.pc = "walking" /\ ns \in walk.listed
  BY DEF ListTables, WalkInv, WalkOK
<1>1. ns \notin Answered
  BY <1>0 DEF Answered
<1>2. \A t \in Tables : NamespaceOf(t) = ns => walk.found[t] = 0
  BY <1>1 DEF WalkInv, WalkOK
<1>3. Min({2, 0 + 1}) = 1
  BY DEF Min
<1>4. \A t \in Tables : found[t] = IF t \in catalog.tables /\ NamespaceOf(t) = ns THEN 1 ELSE walk.found[t]
  <2>1. \A t \in Tables : NamespaceOf(t) = ns => Min({2, walk.found[t] + 1}) = 1
    BY <1>2, <1>3
  <2> QED
    BY <2>1
<1>5. found \in [Tables -> 0 .. 2]
  <2>1. walk.found \in [Tables -> 0 .. 2]
    BY DEF WalkInv, TypeOK, Walks
  <2>2. \A t \in Tables : found[t] \in 0 .. 2
    BY <1>4, <2>1
  <2> QED
    BY <2>2
<1>6. /\ walk' \in Walks /\ walk'.pc = walk.pc /\ walk'.queue = walk.queue /\ walk'.level = walk.level
      /\ walk'.started = walk.started \cup {ns} /\ walk'.listed = walk.listed /\ walk'.found = found
  <2>1. walk' = [walk EXCEPT !.started = @ \cup {ns}, !.found = found]
    BY DEF ListTables, WalkInv, TypeOK, Walks
  <2> HIDE DEF found
  <2> QED
    BY <1>5, <2>1 DEF WalkInv, TypeOK, Walks
<1> HIDE DEF found
<1>7. TypeOK'
  BY <1>6 DEF WalkInv, TypeOK, ListTables
<1>8. Answered' = Answered \cup {ns}
  BY <1>6 DEF Answered
<1>9. UNCHANGED <<catalog, steady>>
  BY DEF ListTables
<1>10. \A t \in Tables : found[t] <= 1 /\ (found[t] # 0 => NamespaceOf(t) \in Answered')
  <2> SUFFICES ASSUME NEW t \in Tables
               PROVE  found[t] <= 1 /\ (found[t] # 0 => NamespaceOf(t) \in Answered')
    OBVIOUS
  <2>1. walk.found[t] <= 1 /\ (walk.found[t] # 0 => NamespaceOf(t) \in Answered)
    BY DEF WalkInv, WalkOK
  <2>2. CASE t \in catalog.tables /\ NamespaceOf(t) = ns
    <3>1. found[t] = 1
      BY <1>4, <2>2
    <3>2. NamespaceOf(t) \in Answered'
      BY <1>8, <2>2, Zenon
    <3> QED
      BY <3>1, <3>2
  <2>3. CASE ~ (t \in catalog.tables /\ NamespaceOf(t) = ns)
    <3>1. found[t] = walk.found[t]
      BY <1>4, <2>3
    <3> QED
      BY <1>8, <2>1, <3>1, Zenon
  <2> QED
    BY <2>2, <2>3
<1>11. \A t \in steady.tables : NamespaceOf(t) \in Answered' => found[t] = 1
  BY <1>4, <1>8 DEF WalkInv, WalkOK, TypeOK, Contents
<1>12. WalkOK'
  BY <1>0, <1>6, <1>9, <1>10, <1>11 DEF WalkInv, WalkOK, Unstarted, Ended
<1> QED
  BY <1>7, <1>12 DEF WalkInv

LEMMA ChildrenListed == ASSUME WalkInv, NEW ns \in Namespaces, ListChildren(ns) PROVE WalkInv'
<1>0. ns \in walk.level /\ ns \in walk.started /\ walk.pc = "walking" /\ ns \in walk.listed
  BY DEF ListChildren, WalkInv, WalkOK
<1>1. catalog.children[ns] \subseteq Namespaces
  BY DEF WalkInv, TypeOK, Contents
<1>2. /\ walk' \in Walks /\ walk'.pc = walk.pc /\ walk'.queue = walk.queue \cup catalog.children[ns]
      /\ walk'.level = walk.level \ {ns} /\ walk'.started = walk.started \ {ns}
      /\ walk'.listed = walk.listed /\ walk'.found = walk.found
  <2>1. walk' = [walk EXCEPT !.level = @ \ {ns}, !.started = @ \ {ns}, !.queue = @ \cup catalog.children[ns]]
    BY DEF ListChildren, Queued
  <2> QED
    BY <1>1, <2>1 DEF WalkInv, TypeOK, Walks
<1>3. TypeOK'
  BY <1>2 DEF WalkInv, TypeOK, ListChildren
<1>4. Answered' = Answered
  BY <1>0, <1>2 DEF Answered, WalkInv, WalkOK
<1>5. UNCHANGED <<catalog, steady>>
  BY DEF ListChildren
<1>6. \A m \in walk'.listed \ walk'.level : steady.children[m] \subseteq walk'.listed \cup walk'.queue
  BY <1>2 DEF WalkInv, WalkOK
<1>7. WalkOK'
  BY <1>0, <1>2, <1>4, <1>5, <1>6 DEF WalkInv, WalkOK, Unstarted, Ended
<1> QED
  BY <1>3, <1>7 DEF WalkInv

(* Others change the catalog: what was there all along can only get less.   *)
LEMMA CatalogChanges == ASSUME WalkInv, NEW new \in Contents, Changes(new) PROVE WalkInv'
<1> DEFINE children == [ns \in Namespaces |-> steady.children[ns] \cap new.children[ns]]
<1>1. walk' = walk /\ config' = config /\ changes' = changes + 1 /\ catalog' = new /\ walk.pc = "walking"
  BY DEF Changes
<1>2. steady' = [tables |-> steady.tables \cap new.tables, children |-> children]
  BY DEF Changes
<1>3. children \in [Namespaces -> SUBSET Namespaces]
  BY DEF WalkInv, TypeOK, Contents
<1>4. steady' \in Contents /\ steady'.tables = steady.tables \cap new.tables
      /\ \A ns \in Namespaces : steady'.children[ns] = steady.children[ns] \cap new.children[ns]
  <2>1. \A ns \in Namespaces : children[ns] = steady.children[ns] \cap new.children[ns]
    OBVIOUS
  <2>2. steady.tables \cap new.tables \in SUBSET Tables
    BY DEF WalkInv, TypeOK, Contents
  <2> HIDE DEF children
  <2> QED
    BY <1>2, <1>3, <2>1, <2>2 DEF Contents
<1>5. TypeOK'
  BY <1>1, <1>4 DEF WalkInv, TypeOK
<1>6. Answered' = Answered
  BY <1>1 DEF Answered
<1>7. \A ns \in walk.listed \ walk.level : ns \in Namespaces
  BY DEF WalkInv, TypeOK, Walks
<1>8. WalkOK'
  BY <1>1, <1>4, <1>6, <1>7 DEF WalkInv, WalkOK
<1> QED
  BY <1>5, <1>8 DEF WalkInv

LEMMA WalkStep == WalkInv /\ [Next]_vars => WalkInv'
<1> SUFFICES ASSUME WalkInv, [Next]_vars PROVE WalkInv'
  OBVIOUS
<1>1. CASE UNCHANGED vars
  <2>1. UNCHANGED <<config, catalog, steady, walk, changes>>
    BY <1>1 DEF vars
  <2> QED
    BY <2>1 DEF WalkInv, TypeOK, WalkOK, Answered
<1>2. CASE Compile
  <2> DEFINE pc == IF Compiles(config.rules, config.defaults) THEN "compiled" ELSE "rejected"
  <2>1. walk' = [walk EXCEPT !.pc = pc] /\ pc \in {"compiled", "rejected"} /\ walk.pc = "config"
    BY <1>2 DEF Compile
  <2>2. pc \in PCs /\ pc \in Unstarted /\ pc \notin Ended /\ walk.pc \in Unstarted
    BY <2>1 DEF PCs, Unstarted, Ended
  <2>3. UNCHANGED <<config, catalog, steady, changes>>
    BY <1>2 DEF Compile
  <2> HIDE DEF pc
  <2> QED
    BY <2>1, <2>2, <2>3, Onward
<1>3. CASE Start
  BY <1>3, WalkStarts
<1>4. CASE Descend
  BY <1>4, WalkDescends
<1>5. CASE ListingFails
  BY <1>5, Onward DEF ListingFails, PCs, Unstarted, Ended
<1>6. CASE \E ns \in Namespaces : ListTables(ns) \/ ListChildren(ns)
  BY <1>6, TablesListed, ChildrenListed
<1>7. ASSUME NEW t \in Tables, DecideOn(t) PROVE WalkInv'
  <2>1. UNCHANGED <<config, catalog, steady, walk, changes>>
    BY <1>7 DEF DecideOn
  <2> QED
    BY <2>1 DEF WalkInv, TypeOK, WalkOK, Answered
<1>8. ASSUME NEW t \in Tables, Create(t) \/ Drop(t) PROVE WalkInv'
  <2>1. catalog \in Contents
    BY DEF WalkInv, TypeOK
  <2>2. [catalog EXCEPT !.tables = @ \cup {t}] \in Contents
    BY <2>1 DEF Contents
  <2>3. [catalog EXCEPT !.tables = @ \ {t}] \in Contents
    BY <2>1 DEF Contents
  <2> QED
    BY <1>8, <2>2, <2>3, CatalogChanges DEF Create, Drop
<1>9. ASSUME NEW ns \in Namespaces, NEW child \in Namespaces, Mount(ns, child) \/ Unmount(ns, child) PROVE WalkInv'
  <2>1. catalog \in Contents
    BY DEF WalkInv, TypeOK
  <2>2. \A below \in SUBSET Namespaces : [catalog EXCEPT !.children[ns] = below] \in Contents
    BY <2>1 DEF Contents
  <2>3. catalog.children[ns] \in SUBSET Namespaces
    BY <2>1 DEF Contents
  <2>4. [catalog EXCEPT !.children[ns] = @ \cup {child}] \in Contents
    BY <2>2, <2>3
  <2>5. [catalog EXCEPT !.children[ns] = @ \ {child}] \in Contents
    BY <2>2, <2>3
  <2> QED
    BY <1>9, <2>4, <2>5, CatalogChanges DEF Mount, Unmount
<1>10. CASE Examine
  BY <1>10, Onward DEF Examine, LooksInside, PCs, Unstarted, Ended
<1>11. CASE CleanUp
  BY <1>11, Onward DEF CleanUp, LooksInside, PCs, Unstarted, Ended
<1>12. CASE Rewrite
  BY <1>12, Onward DEF Rewrite, LooksInside, PCs, Unstarted, Ended
<1>13. CASE Pass
  BY <1>2, <1>3, <1>4, <1>5, <1>6, <1>13 DEF Pass
<1> QED
  BY <1>1, <1>7, <1>8, <1>9, <1>10, <1>11, <1>12, <1>13 DEF Next

(* The configuration, the catalog, the walk and the count of changes keep   *)
(* their types.                                                             *)
THEOREM TypeCorrect == Spec => []TypeOK
<1>1. WalkInv => TypeOK
  BY DEF WalkInv
<1> QED
  BY <1>1, WalkInit, WalkStep, PTL DEF Spec

(* In a catalog of any shape, cyclic or not, that changes as it may while   *)
(* it is walked: a table that was there all along, below namespaces that    *)
(* were, is found, and none twice (discovery.rs:55-140).  When the walk     *)
(* ends, what was listed holds the roots and what is below its members.     *)
THEOREM WalkFindsAll == Spec => []FoundExactlyOnce
<1>1. WalkInv => FoundExactlyOnce
  <2> SUFFICES ASSUME WalkInv PROVE FoundExactlyOnce
    OBVIOUS
  <2>1. \A t \in Tables : walk.found[t] <= 1
    BY DEF WalkInv, WalkOK
  <2>2. ASSUME walk.pc = "decide", NEW t \in steady.tables, NamespaceOf(t) \in Reached
        PROVE  walk.found[t] = 1
    <3>1. walk.level = {} /\ walk.queue = {} /\ walk.listed \subseteq Namespaces
      BY <2>2 DEF WalkInv, WalkOK, Ended, TypeOK, Walks
    <3>2. Roots \subseteq walk.listed /\ \A ns \in walk.listed : steady.children[ns] \subseteq walk.listed
      BY <2>2, <3>1 DEF WalkInv, WalkOK, Unstarted
    <3>3. NamespaceOf(t) \in walk.listed
      BY <2>2, <3>1, <3>2 DEF Reached
    <3>4. NamespaceOf(t) \in Answered
      BY <3>1, <3>3 DEF Answered
    <3> QED
      BY <3>4 DEF WalkInv, WalkOK
  <2> QED
    BY <2>1, <2>2 DEF FoundExactlyOnce
<1> QED
  BY <1>1, WalkInit, WalkStep, PTL DEF Spec

-----------------------------------------------------------------------------
(* The end of the walk *)

(* What is left of a walk: three steps for a namespace that was not yet     *)
(* listed, since that it is counted among a level takes one; two and one    *)
(* for those of the level, and one to see that there is no other.           *)
LeftToList ==
    3 * Cardinality(Namespaces \ walk.listed) + Cardinality(walk.level)
        + Cardinality(walk.level \ walk.started) + (IF walk.pc = "walking" THEN 1 ELSE 0)

(* In a walk nothing is done twice: whatever is reported, in a catalog that *)
(* lists namespaces below themselves or that others change meanwhile, each  *)
(* step leaves less to do than there was, and nobody else's leaves more     *)
(* (discovery.rs:55-140).  WalkEnds adds that the steps are taken.          *)
THEOREM WalksWindDown ==
    ASSUME IsFiniteSet(Namespaces)
    PROVE  Spec => [][walk.pc = "walking" => LeftToList' \in 0 .. LeftToList /\ (Pass => LeftToList' # LeftToList)]_vars
<1>1. ASSUME WalkInv, [Next]_vars, walk.pc = "walking"
      PROVE  LeftToList' \in 0 .. LeftToList /\ (Pass => LeftToList' # LeftToList)
  <2> DEFINE unlisted == Namespaces \ walk.listed
             waiting == walk.level \ walk.started
             more == IF walk.pc = "walking" THEN 1 ELSE 0
  <2>1. walk.level \in SUBSET Namespaces /\ walk.started \subseteq walk.level /\ walk.listed \in SUBSET Namespaces
    BY <1>1 DEF WalkInv, WalkOK, TypeOK, Walks
  <2>2. \A S \in SUBSET Namespaces : IsFiniteSet(S) /\ Cardinality(S) \in Nat
    BY FS_Subset, FS_CardinalityType
  <2>3. \A S \in SUBSET Namespaces : \A x \in S : Cardinality(S \ {x}) = Cardinality(S) - 1
    BY <2>2, FS_RemoveElement
  <2>4. LeftToList = 3 * Cardinality(unlisted) + Cardinality(walk.level) + Cardinality(waiting) + 1
    BY <1>1 DEF LeftToList
  <2>5. LeftToList' = 3 * Cardinality(Namespaces \ walk'.listed) + Cardinality(walk'.level)
                          + Cardinality(walk'.level \ walk'.started) + (IF walk'.pc = "walking" THEN 1 ELSE 0)
    BY DEF LeftToList
  <2>6. Cardinality(unlisted) \in Nat /\ Cardinality(walk.level) \in Nat /\ Cardinality(waiting) \in Nat
    BY <2>1, <2>2
  <2>7. CASE walk' = walk /\ ~ Pass
    <3>1. LeftToList' = LeftToList
      BY <2>5, <2>7 DEF LeftToList
    <3> QED
      BY <2>4, <2>6, <2>7, <3>1
  <2>8. CASE Descend
    <3> DEFINE level == Fresh(walk.queue, walk.listed)
    <3>1. walk.level = {} /\ level \subseteq unlisted /\ walk.started = {} /\ level \in SUBSET Namespaces
      BY <1>1, <2>1, <2>8 DEF Descend, Fresh, WalkInv, TypeOK, Walks
    <3>2. Cardinality(walk.level) = 0 /\ Cardinality(waiting) = 0
      BY <3>1, FS_EmptySet
    <3>3. CASE level = {}
      <4>1. walk'.pc = "decide" /\ walk'.listed = walk.listed /\ walk'.level = walk.level /\ walk'.started = walk.started
        BY <1>1, <2>8, <3>3 DEF Descend, WalkInv, TypeOK, Walks
      <4> QED
        BY <2>4, <2>5, <2>6, <3>2, <4>1
    <3>4. CASE level # {}
      <4> HIDE DEF level
      <4>1. walk'.pc = "walking" /\ walk'.listed = walk.listed \cup level /\ walk'.level = level /\ walk'.started = {}
        BY <1>1, <2>8, <3>1, <3>4 DEF Descend, WalkInv, TypeOK, Walks, level
      <4>2. Namespaces \ walk'.listed = unlisted \ level /\ walk'.level \ walk'.started = level
        BY <4>1
      <4>3. Cardinality(unlisted \ level) = Cardinality(unlisted) - Cardinality(level)
        <5>1. IsFiniteSet(unlisted) /\ IsFiniteSet(level) /\ unlisted \cap level = level
          BY <2>2, <3>1
        <5>2. Cardinality(unlisted \ level) = Cardinality(unlisted) - Cardinality(unlisted \cap level)
          BY <5>1, FS_Difference
        <5> QED
          BY <5>1, <5>2
      <4>4. Cardinality(level) \in Nat /\ Cardinality(level) # 0 /\ Cardinality(unlisted \ level) \in Nat
        <5>1. IsFiniteSet(level) /\ unlisted \ level \in SUBSET Namespaces
          BY <2>2, <3>1
        <5> QED
          BY <2>2, <3>1, <3>4, <5>1, FS_EmptySet
      <4>5. LeftToList' = 3 * (Cardinality(unlisted) - Cardinality(level)) + Cardinality(level) + Cardinality(level) + 1
        BY <2>5, <4>1, <4>2, <4>3
      <4>6. LeftToList = 3 * Cardinality(unlisted) + 1
        BY <2>4, <2>6, <3>2
      <4> DEFINE u == Cardinality(unlisted)
                 n == Cardinality(level)
      <4>7. u \in Nat /\ n \in Nat /\ n # 0 /\ u - n \in Nat /\ LeftToList = 3 * u + 1 /\ LeftToList' = 3 * (u - n) + n + n + 1
        BY <2>6, <4>3, <4>4, <4>5, <4>6
      <4> HIDE DEF u, n
      <4>8. LeftToList' = LeftToList - n /\ LeftToList \in Nat /\ LeftToList' \in Nat
        BY <4>7
      <4> QED
        BY <4>7, <4>8
    <3> QED
      BY <3>3, <3>4
  <2>9. CASE ListingFails
    <3>1. walk'.pc = "failed" /\ walk'.listed = walk.listed /\ walk'.level = walk.level /\ walk'.started = walk.started
      BY <1>1, <2>9 DEF ListingFails, WalkInv, TypeOK, Walks
    <3> QED
      BY <2>4, <2>5, <2>6, <3>1
  <2>10. ASSUME NEW ns \in Namespaces, ListTables(ns)
         PROVE  LeftToList' \in 0 .. LeftToList /\ LeftToList' # LeftToList
    <3>1. /\ ns \in waiting /\ walk'.pc = walk.pc /\ walk'.listed = walk.listed /\ walk'.level = walk.level
          /\ walk'.started = walk.started \cup {ns}
      BY <1>1, <2>10 DEF ListTables, WalkInv, TypeOK, Walks
    <3>2. Cardinality(walk'.level \ walk'.started) = Cardinality(waiting) - 1
      <4>1. walk'.level \ walk'.started = waiting \ {ns}
        BY <3>1
      <4> QED
        BY <2>1, <2>3, <3>1, <4>1
    <3>3. Cardinality(walk'.level \ walk'.started) \in Nat
      BY <2>1, <2>2, <3>1
    <3> QED
      BY <1>1, <2>4, <2>5, <2>6, <3>1, <3>2, <3>3
  <2>11. ASSUME NEW ns \in Namespaces, ListChildren(ns)
         PROVE  LeftToList' \in 0 .. LeftToList /\ LeftToList' # LeftToList
    <3>1. /\ ns \in walk.level /\ ns \in walk.started /\ walk'.pc = walk.pc /\ walk'.listed = walk.listed
          /\ walk'.level = walk.level \ {ns} /\ walk'.started = walk.started \ {ns}
      BY <1>1, <2>1, <2>11 DEF ListChildren, WalkInv, TypeOK, Walks
    <3>2. walk'.level \ walk'.started = waiting
      BY <3>1
    <3>3. Cardinality(walk'.level) = Cardinality(walk.level) - 1 /\ Cardinality(walk'.level) \in Nat
      BY <2>1, <2>2, <2>3, <3>1
    <3>4. LeftToList' = 3 * Cardinality(unlisted) + Cardinality(walk'.level) + Cardinality(waiting) + 1
      BY <1>1, <2>5, <3>1, <3>2
    <3> DEFINE u == Cardinality(unlisted)
               l == Cardinality(walk.level)
               w == Cardinality(waiting)
    <3>5. u \in Nat /\ l \in Nat /\ w \in Nat /\ l - 1 \in Nat /\ LeftToList = 3 * u + l + w + 1
          /\ LeftToList' = 3 * u + (l - 1) + w + 1
      BY <2>4, <2>6, <3>3, <3>4
    <3> HIDE DEF u, l, w
    <3> QED
      BY <3>5
  <2>12. ~ Compile /\ ~ Start /\ ~ Examine /\ ~ CleanUp /\ ~ Rewrite /\ ~ \E t \in Tables : DecideOn(t)
    BY <1>1 DEF Compile, Start, Examine, CleanUp, Rewrite, LooksInside, DecideOn
  <2>13. Pass <=> Descend \/ ListingFails \/ \E ns \in Namespaces : ListTables(ns) \/ ListChildren(ns)
    BY <2>12 DEF Pass
  <2>14. Pass \/ walk' = walk
    <3>1. (\E t \in Tables : Create(t) \/ Drop(t)) \/ (\E ns, child \in Namespaces : Mount(ns, child) \/ Unmount(ns, child))
              => walk' = walk
      BY DEF Create, Drop, Mount, Unmount, Changes
    <3> QED
      BY <1>1, <2>12, <3>1 DEF Next, vars
  <2> QED
    BY <2>7, <2>8, <2>9, <2>10, <2>11, <2>13, <2>14
<1> QED
  BY <1>1, WalkInit, WalkStep, PTL DEF Spec

-----------------------------------------------------------------------------
(* Settings *)

(* What is resolved is what the first of the four layers that has a value   *)
(* says.                                                                    *)
LEMMA ResolvedFrom ==
    ASSUME NEW s \in Settings, NEW rule, NEW defaults, NEW properties, NEW resolved,
           resolved = Resolve(s, rule, defaults, properties)
    PROVE  /\ rule.set[s] # Unset => resolved = [from |-> "rule", value |-> rule.set[s]]
           /\ rule.set[s] = Unset /\ defaults.set[s] # Unset =>
                resolved = [from |-> "defaults", value |-> defaults.set[s]]
           /\ rule.set[s] = Unset /\ defaults.set[s] = Unset /\ Parse(s, properties[s]) # Unset =>
                resolved = [from |-> "property", value |-> Parse(s, properties[s])]
           /\ rule.set[s] = Unset /\ defaults.set[s] = Unset /\ Parse(s, properties[s]) = Unset =>
                resolved = [from |-> "documented", value |-> Documented[s]]
<1> DEFINE first == [from |-> "rule", value |-> rule.set[s]]
           second == [from |-> "defaults", value |-> defaults.set[s]]
           third == [from |-> "property", value |-> Parse(s, properties[s])]
           fourth == [from |-> "documented", value |-> Documented[s]]
           layers == <<first, second, third, fourth>>
           made == {i \in DOMAIN layers : layers[i].value # Unset}
<1>1. Documented[s] # Unset
  OBVIOUS
<1>2. /\ first.value = rule.set[s] /\ second.value = defaults.set[s]
      /\ third.value = Parse(s, properties[s]) /\ fourth.value = Documented[s]
  OBVIOUS
<1>3. resolved = layers[Min(made)]
  BY DEF Resolve, FirstSet
<1> HIDE DEF first, second, third, fourth
<1>4. made \in SUBSET Nat /\ made \subseteq 1 .. 4 /\ 4 \in made
  BY <1>1, <1>2
<1>5. /\ 1 \in made <=> rule.set[s] # Unset
      /\ 2 \in made <=> defaults.set[s] # Unset
      /\ 3 \in made <=> Parse(s, properties[s]) # Unset
  BY <1>2
<1>6. layers[1] = first /\ layers[2] = second /\ layers[3] = third /\ layers[4] = fourth
  OBVIOUS
<1> HIDE DEF layers, made
<1>7. Min(made) \in {1, 2, 3, 4} /\ Min(made) \in made /\ \A y \in made : Min(made) <= y
  <2>1. Min(made) \in made /\ \A y \in made : Min(made) <= y
    BY <1>4, MinIsLeast
  <2>2. 1 .. 4 = {1, 2, 3, 4}
    OBVIOUS
  <2> QED
    BY <1>4, <2>1, <2>2
<1>8. rule.set[s] # Unset => Min(made) = 1
  BY <1>4, <1>5, <1>7
<1>9. rule.set[s] = Unset /\ defaults.set[s] # Unset => Min(made) = 2
  BY <1>4, <1>5, <1>7
<1>10. rule.set[s] = Unset /\ defaults.set[s] = Unset /\ Parse(s, properties[s]) # Unset => Min(made) = 3
  BY <1>4, <1>5, <1>7
<1>11. rule.set[s] = Unset /\ defaults.set[s] = Unset /\ Parse(s, properties[s]) = Unset => Min(made) = 4
  BY <1>4, <1>5, <1>7
<1> QED
  BY <1>3, <1>6, <1>8, <1>9, <1>10, <1>11 DEF first, second, third, fourth

(* A property parses to a number its setting may have.                      *)
LEMMA ParsedIsAllowed ==
    ASSUME NEW s \in Settings, NEW property \in Nat \cup {Unset, Malformed}, Parse(s, property) # Unset
    PROVE  Parse(s, property) \in Nat /\ Parse(s, property) >= Least[s]
<1>1. CASE Property[s] = "positive"
  <2>1. Parse(s, property) = ParsePositive(property) /\ Least[s] = 1
    BY <1>1 DEF Parse
  <2>2. property \notin {Unset, Malformed, 0} /\ ParsePositive(property) = property
    BY <2>1 DEF ParsePositive
  <2> QED
    BY <2>1, <2>2
<1>2. CASE Property[s] = "natural"
  <2>1. Parse(s, property) = ParseNatural(property) /\ Least[s] = 0
    BY <1>2 DEF Parse
  <2>2. property \notin {Unset, Malformed} /\ ParseNatural(property) = property
    BY <2>1 DEF ParseNatural
  <2> QED
    BY <2>1, <2>2
<1>3. CASE Property[s] = "none"
  BY <1>3 DEF Parse
<1> QED
  BY <1>1, <1>2, <1>3

(* A layer that compiles sets nothing below the least.                      *)
LEMMA SetIsAllowed ==
    ASSUME NEW layer \in Layer, ValidLayer(layer), NEW s \in Settings, layer.set[s] # Unset
    PROVE  layer.set[s] \in Nat /\ layer.set[s] >= Least[s]
<1>1. layer.set[s] \in Nat
  BY DEF Layer
<1>2. Property[s] \in {"positive", "natural", "none"} /\ Least[s] \in Nat
  OBVIOUS
<1>3. Property[s] # "natural" => ~(layer.set[s] < Least[s])
  BY <1>2 DEF ValidLayer, ValidSizes, ValidOrphans, Below
<1>4. Property[s] = "natural" => Least[s] = 0
  OBVIOUS
<1> QED
  BY <1>1, <1>2, <1>3, <1>4

(* Decisions are made under a policy that compiled, and stand until the     *)
(* table's contents are looked at.                                          *)
DecisionOK ==
    /\ walk.pc \notin {"config", "rejected"} => Compiles(config.rules, config.defaults)
    /\ decision # NoDecision =>
        /\ walk.pc = "decide"
        /\ \E t \in Tables, facts \in Facts :
            decision = [table |-> t, facts |-> facts,
                        outcome |-> Decide(config.rules, config.defaults, t, facts)]

LEMMA DecisionInit == Init => DecisionOK
  BY DEF Init, DecisionOK

LEMMA DecisionStep == TypeOK /\ DecisionOK /\ [Next]_vars => DecisionOK'
<1> SUFFICES ASSUME TypeOK, DecisionOK, [Next]_vars PROVE DecisionOK'
  OBVIOUS
<1>0. \A pc : [walk EXCEPT !.pc = pc].pc = pc
  BY DEF TypeOK, Walks
<1>1. CASE UNCHANGED vars
  BY <1>1 DEF vars, DecisionOK
<1>2. CASE Compile
  BY <1>0, <1>2 DEF Compile, DecisionOK
<1>3. CASE Start \/ Descend \/ ListingFails \/ (\E ns \in Namespaces : ListTables(ns) \/ ListChildren(ns))
  <2>1. walk.pc \in {"compiled", "walking"} /\ UNCHANGED <<config, decision>>
    BY <1>3 DEF Start, Descend, ListingFails, ListTables, ListChildren
  <2> QED
    BY <2>1 DEF DecisionOK
<1>4. ASSUME NEW t \in Tables, DecideOn(t) PROVE DecisionOK'
  BY <1>4 DEF DecideOn, DecisionOK
<1>5. CASE (\E t \in Tables : Create(t) \/ Drop(t)) \/ \E ns, child \in Namespaces : Mount(ns, child) \/ Unmount(ns, child)
  <2>1. UNCHANGED <<config, walk, decision>>
    BY <1>5 DEF Create, Drop, Mount, Unmount, Changes
  <2> QED
    BY <2>1 DEF DecisionOK
<1>6. CASE Examine \/ CleanUp \/ Rewrite
  <2>1. walk.pc = "decide" /\ decision' = NoDecision /\ config' = config
    BY <1>6 DEF Examine, CleanUp, Rewrite, LooksInside
  <2> QED
    BY <2>1 DEF DecisionOK
<1> QED
  BY <1>1, <1>2, <1>3, <1>4, <1>5, <1>6 DEF Next, Pass

(* Whoever is maintained is governed by a rule that compiled.               *)
LEMMA DecidedBy ==
    ASSUME TypeOK, DecisionOK, Maintained
    PROVE  \E layer \in Layer, facts \in Facts :
               /\ ValidLayer(layer) /\ config.defaults \in Layer /\ ValidLayer(config.defaults)
               /\ decision.facts = facts
               /\ decision.outcome.set = [s \in Settings |-> Resolve(s, layer, config.defaults, facts.properties)]
               /\ decision.outcome.sort = ResolveSort(layer, config.defaults, facts.sort)
               /\ decision.outcome.warnings = Unparseable(facts.properties)
<1> DEFINE rules == config.rules
           defaults == config.defaults
<1>1. rules \in Seq(PolicyRule) /\ defaults \in Layer
  BY DEF TypeOK
<1>2. PICK t \in Tables, facts \in Facts :
          decision = [table |-> t, facts |-> facts, outcome |-> Decide(rules, defaults, t, facts)]
  BY DEF DecisionOK, Maintained
<1>3. Compiles(rules, defaults)
  BY DEF DecisionOK, Maintained
<1> DEFINE matching == {i \in DOMAIN rules : Matches(rules[i].pattern, t)}
           first == Min(matching)
           layer == rules[first].layer
<1>4. decision.outcome = Decide(rules, defaults, t, facts) /\ decision.facts = facts
  BY <1>2
<1> HIDE DEF rules, defaults
<1>5. matching # {} /\ Decide(rules, defaults, t, facts) =
          [verdict |-> "maintain", rule |-> first,
           set |-> [q \in Settings |-> Resolve(q, layer, defaults, facts.properties)],
           sort |-> ResolveSort(layer, defaults, facts.sort),
           warnings |-> Unparseable(facts.properties)]
  <2>1. Decide(rules, defaults, t, facts).verdict = "maintain"
    BY <1>4 DEF Maintained
  <2>2. CASE matching = {}
    BY <2>1, <2>2 DEF Decide, Unmatched
  <2>3. CASE matching # {} /\ rules[first].skip
    BY <2>1, <2>3 DEF Decide, Skip
  <2>4. CASE matching # {} /\ ~rules[first].skip
    BY <2>4 DEF Decide
  <2> QED
    BY <2>2, <2>3, <2>4
<1>6. first \in DOMAIN rules
  <2>1. matching \in SUBSET Nat
    BY <1>1
  <2> QED
    BY <1>5, <2>1, MinIsLeast
<1>7. layer \in Layer /\ ValidLayer(layer) /\ ValidLayer(defaults)
  <2>1. rules[first] \in PolicyRule
    BY <1>1, <1>6
  <2> QED
    BY <1>3, <1>6, <2>1 DEF PolicyRule, Compiles, Valid
<1> HIDE DEF layer
<1> QED
  BY <1>1, <1>4, <1>5, <1>7 DEF defaults

(* Any number of settings, rules and tables: a property that is set either  *)
(* governs, is overruled by the policy or is warned of, and no setting that *)
(* governs is below the least, whichever of the four layers supplied it     *)
(* (resolve.rs:289-364, 726-762; settings.rs:130-157, 404-428).             *)
THEOREM PropertiesHeeded == Spec => []PropertiesAreHeeded
<1>1. TypeOK /\ DecisionOK => PropertiesAreHeeded
  <2> SUFFICES ASSUME TypeOK, DecisionOK, Maintained, NEW s \in Settings
               PROVE  /\ Property[s] # "none" /\ decision.facts.properties[s] # Unset =>
                            decision.outcome.set[s].from # "documented" \/ s \in decision.outcome.warnings
                      /\ decision.outcome.set[s].value >= Least[s]
    BY DEF PropertiesAreHeeded
  <2> DEFINE defaults == config.defaults
  <2>1. PICK layer \in Layer, facts \in Facts :
            /\ ValidLayer(layer) /\ defaults \in Layer /\ ValidLayer(defaults)
            /\ decision.facts = facts
            /\ decision.outcome.set = [q \in Settings |-> Resolve(q, layer, defaults, facts.properties)]
            /\ decision.outcome.warnings = Unparseable(facts.properties)
    BY DecidedBy
  <2> DEFINE properties == facts.properties
             resolved == Resolve(s, layer, defaults, properties)
  <2> HIDE DEF defaults
  <2>2. decision.outcome.set[s] = resolved /\ decision.outcome.warnings = Unparseable(properties)
    BY <2>1
  <2>3. properties[s] \in Nat \cup {Unset, Malformed}
    BY DEF TableFacts
  <2> HIDE DEF properties, resolved
  <2>4. resolved = Resolve(s, layer, defaults, properties)
    BY DEF resolved
  <2>5. CASE layer.set[s] # Unset
    <3>1. resolved = [from |-> "rule", value |-> layer.set[s]]
      BY <2>4, <2>5, ResolvedFrom
    <3>2. layer.set[s] \in Nat /\ layer.set[s] >= Least[s]
      BY <2>1, <2>5, SetIsAllowed
    <3> QED
      BY <2>2, <3>1, <3>2
  <2>6. CASE layer.set[s] = Unset /\ defaults.set[s] # Unset
    <3>1. resolved = [from |-> "defaults", value |-> defaults.set[s]]
      BY <2>4, <2>6, ResolvedFrom
    <3>2. defaults.set[s] \in Nat /\ defaults.set[s] >= Least[s]
      BY <2>1, <2>6, SetIsAllowed
    <3> QED
      BY <2>2, <3>1, <3>2
  <2>7. CASE layer.set[s] = Unset /\ defaults.set[s] = Unset /\ Parse(s, properties[s]) # Unset
    <3>1. resolved = [from |-> "property", value |-> Parse(s, properties[s])]
      BY <2>4, <2>7, ResolvedFrom
    <3>2. Parse(s, properties[s]) \in Nat /\ Parse(s, properties[s]) >= Least[s]
      BY <2>3, <2>7, ParsedIsAllowed
    <3> QED
      BY <2>2, <3>1, <3>2
  <2>8. CASE layer.set[s] = Unset /\ defaults.set[s] = Unset /\ Parse(s, properties[s]) = Unset
    <3>1. resolved = [from |-> "documented", value |-> Documented[s]]
      BY <2>4, <2>8, ResolvedFrom
    <3>2. Documented[s] \in Nat /\ Documented[s] >= Least[s]
      OBVIOUS
    <3>3. Property[s] # "none" /\ properties[s] # Unset => s \in Unparseable(properties)
      BY <2>8 DEF Unparseable
    <3> QED
      BY <2>1, <2>2, <3>1, <3>2, <3>3 DEF properties
  <2> QED
    BY <2>5, <2>6, <2>7, <2>8
<1>2. WalkInv => TypeOK
  BY DEF WalkInv
<1> QED
  BY <1>1, <1>2, WalkInit, WalkStep, DecisionInit, DecisionStep, PTL DEF Spec

(* What precedes the first field a rewrite cannot reproduce is an order.    *)
LEMMA SortOrderIs == ASSUME NEW order \in Seq(SortField) PROVE SortOrder(order) \in Seq(SortField)
<1> DEFINE gaps == {i \in DOMAIN order : ~ order[i].plain}
<1>1. CASE gaps = {}
  BY <1>1 DEF SortOrder
<1>2. CASE gaps # {}
  <2>1. Len(order) \in Nat /\ DOMAIN order = 1 .. Len(order)
    OBVIOUS
  <2>2. gaps \in SUBSET Nat /\ gaps \in SUBSET (1 .. Len(order))
    BY <2>1
  <2>3. SortOrder(order) = SubSeq(order, 1, Min(gaps) - 1)
    BY <1>2 DEF SortOrder
  <2> HIDE DEF gaps
  <2>4. Min(gaps) \in 1 .. Len(order)
    BY <1>2, <2>2, MinIsLeast
  <2>5. \A i \in 1 .. Min(gaps) - 1 : order[i] \in SortField
    BY <2>1, <2>4
  <2>6. Min(gaps) - 1 \in Nat /\ 1 \in Nat
    BY <2>1, <2>4
  <2> HIDE DEF Min
  <2>7. SubSeq(order, 1, Min(gaps) - 1) \in Seq(SortField)
    BY <2>5, <2>6, SubSeqProperties
  <2> QED
    BY <2>3, <2>7
<1> QED
  BY <1>1, <1>2

(* Whichever layer names the sort, it is one.                               *)
LEMMA ResolvedSort ==
    ASSUME NEW rule \in Layer, NEW defaults \in Layer, NEW order \in Seq(SortField)
    PROVE  ResolveSort(rule, defaults, order).value \in Seq(SortField)
<1> DEFINE first == [from |-> "rule", value |-> rule.sort]
           second == [from |-> "defaults", value |-> defaults.sort]
           third == [from |-> "table", value |-> SortOrder(order)]
           layers == <<first, second, third>>
           made == {i \in DOMAIN layers : layers[i].value # Unset}
<1>1. SortOrder(order) \in Seq(SortField) /\ SortOrder(order) # Unset
  BY SortOrderIs, PolicyAssumption
<1>2. rule.sort \in {Unset} \cup Seq(SortField) /\ defaults.sort \in {Unset} \cup Seq(SortField)
  BY DEF Layer
<1>3. first.value = rule.sort /\ second.value = defaults.sort /\ third.value = SortOrder(order)
  OBVIOUS
<1>4. ResolveSort(rule, defaults, order) = layers[Min(made)]
  BY DEF ResolveSort, FirstSet
<1> HIDE DEF first, second, third
<1>5. \A i \in 1 .. 3 : layers[i].value \in {Unset} \cup Seq(SortField)
  BY <1>1, <1>2, <1>3
<1>6. made \in SUBSET Nat /\ made \subseteq 1 .. 3 /\ 3 \in made
  BY <1>1, <1>3
<1>7. \A i \in made : layers[i].value # Unset
  OBVIOUS
<1> HIDE DEF layers, made
<1>8. Min(made) \in made
  BY <1>6, MinIsLeast
<1> QED
  BY <1>4, <1>5, <1>6, <1>7, <1>8

(* A table that is maintained is maintained in some order.                  *)
LEMMA DecidedSort ==
    ASSUME TypeOK, DecisionOK, Maintained
    PROVE  decision.outcome.sort.value \in Seq(SortField)
<1>1. PICK layer \in Layer, facts \in Facts :
          config.defaults \in Layer /\ decision.outcome.sort = ResolveSort(layer, config.defaults, facts.sort)
  BY DecidedBy
<1>2. facts.sort \in Seq(SortField)
  BY DEF TableFacts
<1> QED
  BY <1>1, <1>2, ResolvedSort

-----------------------------------------------------------------------------
(* What a table holds *)

(* What was looked at is what the files, the partitions and the references  *)
(* of the table made it.                                                    *)
File(spec, tuple) == [spec |-> spec, tuple |-> tuple, key |-> FileKey(spec, tuple)]

SeenOK ==
    /\ walk.pc = "examined" =>
        \A x \in seen : \E s \in Schemas : \E t \in Under(s) : x = File(s, t)
    /\ walk.pc = "cleaned" =>
        \A c \in seen : \E before, after \in SUBSET Paths : c = [after |-> after, deleted |-> Gone(before, after)]
    /\ walk.pc = "rewritten" =>
        \A r \in seen : \E tasks \in Groups, readAgain \in BOOLEAN : \E buckets \in BucketOrders(tasks) :
            /\ r.tasks = tasks /\ r.sort \in Seq(SortField)
            /\ r.written = RewriteGroup(tasks, buckets, r.sort, readAgain) /\ r.written # Refused

LEMMA SeenInit == Init => SeenOK
  BY DEF Init, SeenOK

LEMMA SeenStep == TypeOK /\ DecisionOK /\ SeenOK /\ [Next]_vars => SeenOK'
<1> SUFFICES ASSUME TypeOK, DecisionOK, SeenOK, [Next]_vars PROVE SeenOK'
  OBVIOUS
<1>0. \A pc : [walk EXCEPT !.pc = pc].pc = pc
  BY DEF TypeOK, Walks
<1>1. CASE UNCHANGED vars
  BY <1>1 DEF vars, SeenOK
<1>2. CASE Compile \/ Start \/ ListingFails
  <2>1. walk'.pc \notin {"examined", "cleaned", "rewritten"}
    BY <1>0, <1>2 DEF Compile, Start, ListingFails
  <2> QED
    BY <2>1 DEF SeenOK
<1>3. CASE Descend
  <2>1. walk'.pc \notin {"examined", "cleaned", "rewritten"}
    <3>1. \A level, listed : [walk EXCEPT !.level = level, !.listed = listed, !.queue = {}].pc = walk.pc
          /\ [walk EXCEPT !.pc = "decide", !.queue = {}].pc = "decide"
      BY DEF TypeOK, Walks
    <3> QED
      BY <1>3, <3>1 DEF Descend
  <2> QED
    BY <2>1 DEF SeenOK
<1>4. CASE \E ns \in Namespaces : ListTables(ns) \/ ListChildren(ns)
  <2>1. walk'.pc = "walking"
    <3>1. PICK ns \in Namespaces : ListTables(ns) \/ ListChildren(ns)
      BY <1>4
    <3>2. CASE ListTables(ns)
      BY <3>2 DEF ListTables, TypeOK, Walks
    <3>3. CASE ListChildren(ns)
      BY <3>3 DEF ListChildren, TypeOK, Walks
    <3> QED
      BY <3>1, <3>2, <3>3
  <2> QED
    BY <2>1 DEF SeenOK
<1>5. ASSUME NEW t \in Tables, DecideOn(t) PROVE SeenOK'
  BY <1>5 DEF DecideOn, SeenOK
<1>6. CASE (\E t \in Tables : Create(t) \/ Drop(t)) \/ \E ns, child \in Namespaces : Mount(ns, child) \/ Unmount(ns, child)
  <2>1. UNCHANGED <<walk, seen>>
    BY <1>6 DEF Create, Drop, Mount, Unmount, Changes
  <2> QED
    BY <2>1 DEF SeenOK
<1>7. CASE Examine
  <2>1. walk'.pc = "examined"
    BY <1>0, <1>7 DEF Examine
  <2>2. PICK s1 \in Schemas, s2 \in Schemas : \E t1 \in Under(s1), t2 \in Under(s2) : seen' = {File(s1, t1), File(s2, t2)}
    BY <1>7 DEF Examine, File
  <2>3. PICK t1 \in Under(s1), t2 \in Under(s2) : seen' = {File(s1, t1), File(s2, t2)}
    BY <2>2
  <2>4. \A x \in seen' : \E s \in Schemas : \E t \in Under(s) : x = File(s, t)
    BY <2>3, Zenon
  <2> QED
    BY <2>1, <2>4 DEF SeenOK
<1>8. CASE CleanUp
  <2>1. walk'.pc = "cleaned"
    BY <1>0, <1>8 DEF CleanUp
  <2>2. \A c \in seen' : \E before, after \in SUBSET Paths : c = [after |-> after, deleted |-> Gone(before, after)]
    BY <1>8 DEF CleanUp
  <2> QED
    BY <2>1, <2>2 DEF SeenOK
<1>9. CASE Rewrite
  <2>1. walk'.pc = "rewritten" /\ LooksInside
    BY <1>0, <1>9 DEF Rewrite
  <2> DEFINE sort == decision.outcome.sort.value
  <2>2. sort \in Seq(SortField)
    BY <2>1, DecidedSort DEF LooksInside
  <2>3. PICK tasks \in Groups, readAgain \in BOOLEAN : \E buckets \in BucketOrders(tasks) :
            LET written == RewriteGroup(tasks, buckets, sort, readAgain)
            IN  seen' = IF written = Refused THEN {} ELSE {[tasks |-> tasks, sort |-> sort, written |-> written]}
    BY <1>9 DEF Rewrite
  <2>4. PICK buckets \in BucketOrders(tasks) :
            LET written == RewriteGroup(tasks, buckets, sort, readAgain)
            IN  seen' = IF written = Refused THEN {} ELSE {[tasks |-> tasks, sort |-> sort, written |-> written]}
    BY <2>3
  <2> HIDE DEF sort
  <2> DEFINE written == RewriteGroup(tasks, buckets, sort, readAgain)
  <2>5. seen' = IF written = Refused THEN {} ELSE {[tasks |-> tasks, sort |-> sort, written |-> written]}
    BY <2>4
  <2>6. \A r \in seen' : r.tasks = tasks /\ r.sort = sort /\ r.written = written /\ written # Refused
    <3> HIDE DEF written
    <3> QED
      BY <2>5
  <2> QED
    BY <2>1, <2>2, <2>6 DEF SeenOK
<1> QED
  BY <1>1, <1>2, <1>3, <1>4, <1>5, <1>6, <1>7, <1>8, <1>9 DEF Next, Pass

(* Whatever the fields of a table's specs and the values in its partitions  *)
(* spell: two files share a key only if they share spec and tuple, so that  *)
(* no group mixes partitions (health/partition.rs:54-158).                  *)
THEOREM PartitionsTold == Spec => []PartitionsAreUnmistakable
<1>1. TypeOK /\ SeenOK => PartitionsAreUnmistakable
  <2> SUFFICES ASSUME SeenOK, walk.pc = "examined", NEW x \in seen, NEW y \in seen, x.key = y.key
               PROVE  x.spec = y.spec /\ (x.spec.known => x.tuple = y.tuple)
    BY DEF PartitionsAreUnmistakable
  <2>1. PICK r \in Schemas : \E a \in Under(r) : x = File(r, a)
    BY DEF SeenOK
  <2>2. PICK a \in Under(r) : x = File(r, a)
    BY <2>1
  <2>3. PICK s \in Schemas : \E b \in Under(s) : y = File(s, b)
    BY DEF SeenOK
  <2>4. PICK b \in Under(s) : y = File(s, b)
    BY <2>3
  <2>5. x.spec = r /\ x.tuple = a /\ x.key = FileKey(r, a) /\ y.spec = s /\ y.tuple = b /\ y.key = FileKey(s, b)
    BY <2>2, <2>4 DEF File
  <2>6. FileKey(r, a).spec = r.id /\ FileKey(s, b).spec = s.id
    BY DEF FileKey, PartitionKey
  <2>7. r = s
    <3>1. FileKey(r, a) = FileKey(s, b)
      BY <2>5, Zenon
    <3>2. r.id = s.id
      BY <2>6, <3>1
    <3>3. \A m, n \in Schemas : m.id = n.id => m = n
      BY Zenon
    <3> QED
      BY <3>2, <3>3
  <2>8. ASSUME r.known PROVE a = b
    <3>1. PartitionPath(r.fields, a) = PartitionPath(r.fields, b)
      <4>1. FileKey(r, a).value = PartitionPath(r.fields, a) /\ FileKey(r, b).value = PartitionPath(r.fields, b)
        BY <2>8 DEF FileKey, PartitionKey
      <4>2. FileKey(r, a) = FileKey(r, b)
        BY <2>5, <2>7, Zenon
      <4> QED
        BY <4>1, <4>2
    <3>2. r.fields \in Seq(Tokens) /\ a \in Values /\ b \in Values /\ Len(a) <= Len(r.fields) /\ Len(b) <= Len(r.fields)
      BY <2>7 DEF Under, Values
    <3> QED
      BY <3>1, <3>2, PathInjective
  <2> QED
    BY <2>5, <2>7, <2>8
<1>2. WalkInv => TypeOK
  BY DEF WalkInv
<1> QED
  BY <1>1, <1>2, WalkInit, WalkStep, DecisionInit, DecisionStep, SeenInit, SeenStep, PTL DEF Spec

(* However the paths of a table are spelled: no cleanup deletes an object   *)
(* that is referred to (ops/reachability.rs:77-125, ops/expire.rs).         *)
THEOREM LiveSpared == Spec => []CleanupSparesLive
<1>1. TypeOK /\ SeenOK => CleanupSparesLive
  <2> SUFFICES ASSUME SeenOK, walk.pc = "cleaned", NEW c \in seen, NEW p \in c.after, NEW d \in c.deleted,
                      Object(p) = Object(d)
               PROVE  FALSE
    BY DEF CleanupSparesLive
  <2>1. PICK before \in SUBSET Paths, after \in SUBSET Paths : c = [after |-> after, deleted |-> Gone(before, after)]
    BY DEF SeenOK
  <2>2. p \in after /\ d \in Gone(before, after)
    BY <2>1
  <2>3. PICK b \in before : d = Normalize(b)
    BY <2>2 DEF Gone
  <2>4. p.key \in Seq(Tokens) /\ b.key \in Seq(Tokens)
    BY <2>2
  <2>5. d.scheme = Canonical(b.scheme) /\ d.key = CollapseSlashes(b.key)
    BY <2>3 DEF Normalize
  <2>6. Canonical(p.scheme) = Canonical(d.scheme) /\ p.key = d.key
    BY DEF Object
  <2>7. Canonical(p.scheme) = d.scheme
    BY <2>5, <2>6 DEF Canonical
  <2>8. CollapseSlashes(p.key) = d.key
    BY <2>4, <2>5, <2>6, CollapsedTwice
  <2>9. Normalize(p) = d
    BY <2>3, <2>5, <2>7, <2>8 DEF Normalize
  <2> QED
    BY <2>2, <2>9 DEF Gone
<1>2. WalkInv => TypeOK
  BY DEF WalkInv
<1> QED
  BY <1>1, <1>2, WalkInit, WalkStep, DecisionInit, DecisionStep, SeenInit, SeenStep, PTL DEF Spec

-----------------------------------------------------------------------------
(* Rules that spell one table *)

LEMMA EscapedText ==
    ASSUME NEW x \in Seq(Quiet)
    PROVE  FlattenSeq([i \in DOMAIN x |-> IF x[i] = "." THEN <<"\\", ".">> ELSE <<x[i]>>]) = Spelled(x)
<1>1. \A i \in DOMAIN x : x[i] \in Quiet
  OBVIOUS
<1>2. \A c \in Quiet : Spell[c] = IF c = "." THEN <<"\\", ".">> ELSE <<c>>
  BY DEF Spell
<1>3. [i \in DOMAIN x |-> IF x[i] = "." THEN <<"\\", ".">> ELSE <<x[i]>>] = [i \in DOMAIN x |-> Spell[x[i]]]
  BY <1>1, <1>2
<1> QED
  BY <1>3 DEF Spelled, Written

(* What the escaping of a name writes for a table, segment by segment.      *)
LEMMA LiteralIs ==
    ASSUME NEW t \in Seq(Seq(Quiet)), t # <<>>
    PROVE  Literal(t) = Spelled(Head(t)) \o Written(Dotted, Tail(t))
<1> DEFINE S == Seq(Quiet)
           code == [x \in S |-> Spelled(x)]
           dot == <<".">>
           escaped(x) == FlattenSeq([i \in DOMAIN x |-> IF x[i] = "." THEN <<"\\", ".">> ELSE <<x[i]>>])
<1>1. \A x \in S : Spelled(x) \in Seq(Tokens)
  BY SpelledTranslates
<1>2. code \in [S -> Seq(Tokens)] /\ t \in Seq(S) /\ dot \in Seq(Tokens)
  BY <1>1, NamingAssumption, ShortTexts
<1>3. Head(t) \in S /\ \A i \in DOMAIN t : t[i] \in S
  BY <1>2, HeadTailProperties, LenProperties
<1>4. \A x \in S : escaped(x) = code[x]
  BY EscapedText
<1>5. Literal(t) = FlattenSeq([i \in DOMAIN t |-> (IF i = 1 THEN <<>> ELSE dot) \o escaped(t[i])])
  BY Zenon DEF Literal
<1>6. code[Head(t)] = Spelled(Head(t))
  BY <1>3
<1>7. After(S, dot, code) = Dotted
  BY DEF After, Dotted
<1> HIDE DEF S, code, dot, escaped
<1>8. [i \in DOMAIN t |-> (IF i = 1 THEN <<>> ELSE dot) \o escaped(t[i])]
        = [i \in DOMAIN t |-> (IF i = 1 THEN <<>> ELSE dot) \o code[t[i]]]
  BY <1>3, <1>4
<1>9. Literal(t) = Parts(dot, code, t)
  BY <1>5, <1>8 DEF Parts
<1>10. Splits(S, dot, code, t)
  <2>1. Separable(S, Tokens, dot, code, t)
    BY <1>2 DEF Separable
  <2> QED
    BY <2>1, SeparatedSplits, Zenon
<1>11. Parts(dot, code, t) = code[Head(t)] \o Written(After(S, dot, code), Tail(t))
  BY <1>10, Zenon DEF Splits
<1> QED
  BY <1>6, <1>7, <1>9, <1>11

LEMMA OrdinaryIsQuiet ==
    ASSUME NEW t \in Tables, Ordinary(t)
    PROVE  t \in Seq(Seq(Quiet)) /\ t # <<>>
<1>1. t \in Seq(Seq(Tokens)) /\ t # <<>>
  OBVIOUS
<1> DEFINE n == Len(t)
           S == Seq(Quiet)
<1>2. n \in Nat /\ DOMAIN t = 1 .. n /\ \A i \in 1 .. n : t[i] \in Seq(Tokens)
  BY <1>1, LenProperties
<1>3. ASSUME NEW i \in 1 .. n PROVE t[i] \in S
  <2>1. t[i] \in Seq(Tokens)
    BY <1>2
  <2> DEFINE m == Len(t[i])
  <2>2. m \in Nat /\ t[i] \in [1 .. m -> Tokens]
    BY <2>1, LenProperties
  <2>3. \A j \in 1 .. m : t[i][j] \in Quiet
    BY <1>2, <2>2 DEF Ordinary, GlobTokens, Quiet
  <2> HIDE DEF m
  <2>4. t[i] \in [1 .. m -> Quiet]
    BY <2>2, <2>3
  <2> QED
    BY <2>2, <2>4
<1>4. t = [i \in 1 .. n |-> t[i]]
  BY <1>1, <1>2
<1> HIDE DEF n, S
<1>5. t \in [1 .. n -> S]
  BY <1>2, <1>3, <1>4
<1>6. t \in Seq(S)
  BY <1>2, <1>5
<1> QED
  BY <1>1, <1>6 DEF S

(* Any names and any rules behind it: a rule that spells one table, its     *)
(* dots escaped, decides on that table and on no other, whatever dots,      *)
(* slashes and percent signs the names hold (policy/matcher.rs:30-132,      *)
(* policy/mod.rs:428-448).                                                  *)
THEOREM LiteralsNameOne == Spec => []LiteralRulesNameOneTable
<1>1. TypeOK /\ DecisionOK => LiteralRulesNameOneTable
  <2> DEFINE rules == config.rules
             governed == decision.outcome.verdict # "unmatched" /\ decision.outcome.rule = 1
  <2> SUFFICES ASSUME TypeOK, DecisionOK, decision # NoDecision, rules # <<>>,
                      NEW t \in Tables, Ordinary(t), rules[1].pattern = Literal(t)
               PROVE  governed <=> decision.table = t
    BY DEF LiteralRulesNameOneTable
  <2>1. rules \in Seq(PolicyRule) /\ 1 \in DOMAIN rules /\ DOMAIN rules \subseteq Nat
        /\ \A i \in DOMAIN rules : i >= 1
    <3>1. rules \in Seq(PolicyRule)
      BY DEF TypeOK
    <3> QED
      BY <3>1, EmptySeq, LenProperties
  <2>2. PICK u \in Tables, facts \in Facts :
            decision = [table |-> u, facts |-> facts, outcome |-> Decide(rules, config.defaults, u, facts)]
    BY DEF DecisionOK
  <2> DEFINE outcome == Decide(rules, config.defaults, u, facts)
             matching == {i \in DOMAIN rules : Matches(rules[i].pattern, u)}
             first == Min(matching)
  <2>3. Matches(rules[1].pattern, u) <=> u = t
    <3>1. t \in Seq(Seq(Quiet)) /\ t # <<>> /\ u \in Seq(Seq(Tokens)) /\ u # <<>>
      BY OrdinaryIsQuiet
    <3> DEFINE spelled == Spelled(Head(t)) \o Written(Dotted, Tail(t))
    <3>2. Literal(t) = spelled
      BY <3>1, LiteralIs
    <3>3. Matches(spelled, u) <=> u = t
      BY <3>1, SpelledMatches
    <3> HIDE DEF spelled
    <3> QED
      BY <3>2, <3>3
  <2>4. 1 \in matching <=> u = t
    BY <2>1, <2>3
  <2>5. matching \in SUBSET Nat /\ \A i \in matching : i >= 1
    BY <2>1
  <2>6. /\ matching = {} => outcome = Unmatched
        /\ matching # {} => outcome.verdict # "unmatched" /\ outcome.rule = first
    BY DEF Decide, Unmatched, Skip
  <2>7. decision.table = u /\ decision.outcome = outcome
    BY <2>2
  <2> HIDE DEF matching, outcome, first
  <2>8. matching # {} => first \in matching /\ \A y \in matching : first <= y
    BY <2>5, MinIsLeast DEF first
  <2>9. outcome = Unmatched => outcome.verdict = "unmatched"
    BY DEF Unmatched
  <2>10. matching # {} => (first = 1 <=> 1 \in matching)
    <3>1. CASE matching # {}
      <4>1. first \in Nat /\ first >= 1 /\ first \in matching
        BY <2>5, <2>8, <3>1
      <4>2. 1 \in matching => first <= 1
        BY <2>8, <3>1
      <4> QED
        BY <4>1, <4>2
    <3> QED
      BY <3>1
  <2> QED
    BY <2>4, <2>6, <2>7, <2>9, <2>10
<1>2. WalkInv => TypeOK
  BY DEF WalkInv
<1> QED
  BY <1>1, <1>2, WalkInit, WalkStep, DecisionInit, DecisionStep, PTL DEF Spec

-----------------------------------------------------------------------------
(* Rules that are dead *)

(* What is refused as covered matches nothing more: an earlier rule for     *)
(* everything, or for everything below a literal prefix, matches whatever a *)
(* later one with the same prefix does.  A suffix without a prefix is not   *)
(* among them: .** matches only names whose first segment is empty.         *)
LEMMA CoversAll ==
    ASSUME NEW broad \in Seq(Tokens), NEW narrow \in Seq(Tokens), broad # <<".", "**">>, Covers(broad, narrow),
           NEW u \in Seq(Seq(Tokens)), u # <<>>, Matches(narrow, u)
    PROVE  Matches(broad, u)
<1>1. CASE broad = <<"**">>
  <2>1. "**" \in Tokens
    <3>1. broad[1] \in Tokens
      BY <1>1
    <3> QED
      BY <1>1, <3>1
  <2> QED
    BY <1>1, <2>1, AllCovered
<1>2. CASE broad # <<"**">>
  <2> DEFINE n == Len(broad)
             prefix == SubSeq(broad, 1, n - 2)
             p == prefix \o <<".">>
             stars == <<"**">>
             dot == <<".">>
             both == <<".", "**">>
  <2>1. /\ n \in Nat /\ n >= 2 /\ SubSeq(broad, n - 1, n) = <<".", "**">>
        /\ \A i \in DOMAIN prefix : prefix[i] \notin GlobTokens
        /\ prefix # <<>> => IsPrefix(Append(prefix, "."), narrow)
    BY <1>2, LenProperties DEF Covers
  <2>2. n - 2 \in 0 .. n /\ n - 2 + 1 = n - 1
    BY <2>1
  <2>3. prefix \in Seq(Tokens) /\ broad = prefix \o both /\ both \in Seq(Tokens)
    <3> HIDE DEF n
    <3>1. n - 2 \in 0 .. Len(broad)
      BY <2>2 DEF n
    <3>2. prefix \in Seq(Tokens) /\ SubSeq(broad, n - 2 + 1, Len(broad)) \in Seq(Tokens)
          /\ broad = prefix \o SubSeq(broad, n - 2 + 1, Len(broad))
      BY <3>1, FrontAndBack
    <3> QED
      BY <2>1, <2>2, <3>2 DEF n
  <2> HIDE DEF n, prefix
  <2>4. prefix # <<>>
    <3>1. both # broad
      OBVIOUS
    <3> HIDE DEF both
    <3>2. <<>> \o both = both
      BY <2>3, ConcatEmptySeq
    <3> QED
      BY <2>3, <3>1, <3>2
  <2>5. "." \in Tokens /\ "**" \in Tokens /\ dot \in Seq(Tokens) /\ stars \in Seq(Tokens)
    <3>1. \A i \in DOMAIN broad : broad[i] \in Tokens
      OBVIOUS
    <3>2. broad[n] = "**" /\ n \in DOMAIN broad
      BY <2>1, <2>3 DEF n
    <3> QED
      BY <3>1, <3>2, NamingAssumption, ShortTexts
  <2>6. p = Append(prefix, ".")
    BY <2>3, <2>5
  <2>7. p \in Seq(Tokens)
    BY <2>3, <2>5, ConcatProperties
  <2>8. broad = p \o stars
    <3>1. p \o stars = prefix \o both
      BY <2>3, <2>5, DotAndStars
    <3> HIDE DEF p, stars, both
    <3> QED
      BY <2>3, <3>1
  <2> DEFINE k == Len(p)
             more == SubSeq(narrow, k + 1, Len(narrow))
  <2>9. more \in Seq(Tokens) /\ narrow = p \o more
    <3> HIDE DEF p
    <3>1. IsPrefix(p, narrow)
      BY <2>1, <2>4, <2>6, Zenon
    <3>2. k \in 0 .. Len(narrow) /\ SubSeq(p, 1, k) = SubSeq(narrow, 1, k)
      BY <2>7, <3>1, LenProperties DEF IsPrefix
    <3>3. SubSeq(p, 1, k) = p
      BY <2>7, SubSeqFull
    <3> HIDE DEF k
    <3>4. more \in Seq(Tokens) /\ narrow = SubSeq(narrow, 1, k) \o more
      BY <3>2, FrontAndBack
    <3> QED
      BY <3>2, <3>3, <3>4
  <2>10. \A i \in DOMAIN prefix : prefix[i] # "\\"
    <3>1. "\\" \in GlobTokens
      BY DEF GlobTokens
    <3> QED
      BY <2>1, <3>1, Zenon
  <2> HIDE DEF more
  <2>11. Matches((prefix \o <<".">>) \o more, u)
    BY <2>9
  <2>12. Matches((prefix \o <<".">>) \o <<"**">>, u)
    BY <2>3, <2>5, <2>9, <2>10, <2>11, PrefixCovers
  <2> QED
    BY <2>8, <2>12
<1> QED
  BY <1>1, <1>2

(* A rule whose pattern is .** would be taken for one that matches          *)
(* everything (policy/mod.rs:311-323), and it does not.                     *)
NoBareSuffix == \A c \in Configs : \A i \in DOMAIN c.rules : c.rules[i].pattern # <<".", "**">>

(* Under a policy of any length, and for tables of any names: a rule that   *)
(* is refused as one that can never govern could not, every table it        *)
(* matches being matched by an earlier one (policy/mod.rs:285-333).         *)
THEOREM DeadRulesAreDead ==
    ASSUME NoBareSuffix
    PROVE  Spec => []RejectedRulesAreDead
<1>1. TypeOK => RejectedRulesAreDead
  <2> DEFINE rules == config.rules
  <2> SUFFICES ASSUME TypeOK, NEW i \in DOMAIN rules, Shadowed(rules, i),
                      NEW t \in Tables, Matches(rules[i].pattern, t)
               PROVE  \E j \in 1 .. i - 1 : Matches(rules[j].pattern, t)
    BY DEF RejectedRulesAreDead
  <2>1. rules \in Seq(PolicyRule) /\ \A m \in DOMAIN rules : rules[m].pattern # <<".", "**">>
    BY DEF TypeOK, NoBareSuffix
  <2>2. PICK j \in 1 .. i - 1 :
            rules[j].pattern = rules[i].pattern \/ Covers(rules[j].pattern, rules[i].pattern)
    BY DEF Shadowed
  <2>3. j \in DOMAIN rules
    BY <2>1, <2>2, LenProperties
  <2>4. rules[i].pattern \in Seq(Tokens) /\ rules[j].pattern \in Seq(Tokens) /\ rules[j].pattern # <<".", "**">>
    <3>1. rules[i] \in PolicyRule /\ rules[j] \in PolicyRule
      BY <2>1, <2>3
    <3> QED
      BY <2>1, <2>3, <3>1 DEF PolicyRule
  <2>5. t \in Seq(Seq(Tokens)) /\ t # <<>>
    OBVIOUS
  <2> DEFINE broad == rules[j].pattern
             narrow == rules[i].pattern
  <2> HIDE DEF broad, narrow
  <2>6. Matches(broad, t)
    BY <2>2, <2>4, <2>5, CoversAll DEF broad, narrow
  <2> QED
    BY <2>6 DEF broad
<1>2. WalkInv => TypeOK
  BY DEF WalkInv
<1> QED
  BY <1>1, <1>2, WalkInit, WalkStep, PTL DEF Spec

-----------------------------------------------------------------------------
(* What a rewrite leaves *)

(* Groups of any size, with any equality deletes, in any order of their     *)
(* buckets and sorted by any columns: what is written of a group is, row    *)
(* for row and each as often, what a reader saw of it, filed where it was   *)
(* and in one order throughout (compact/rewrite.rs:69-560, writer.rs:27).   *)
THEOREM RewritesAreScans == Spec => []RewriteIsTheScan
<1>1. TypeOK /\ SeenOK => RewriteIsTheScan
  <2> SUFFICES ASSUME SeenOK, walk.pc = "rewritten", NEW r \in seen, NEW after, after = FlattenSeq(r.written.files)
               PROVE  /\ \A row \in {RowAt(r.tasks, p) : p \in PlacesOf(r.tasks)} \cup Range(after) :
                            Cardinality({p \in Scanned(r.tasks) : RowAt(r.tasks, p) = row}) =
                            Cardinality({i \in DOMAIN after : after[i] = row})
                      /\ \A t \in Range(r.tasks) : t.tuple = r.written.tuple
                      /\ \A i, j \in DOMAIN after : i < j => ~ SortsBefore(r.sort, after[j], after[i])
    BY Zenon DEF RewriteIsTheScan
  <2>1. PICK tasks \in Groups, readAgain \in BOOLEAN : \E buckets \in BucketOrders(tasks) :
            /\ r.tasks = tasks /\ r.sort \in Seq(SortField)
            /\ r.written = RewriteGroup(tasks, buckets, r.sort, readAgain) /\ r.written # Refused
    BY DEF SeenOK
  <2>2. PICK buckets \in BucketOrders(tasks) :
            /\ r.tasks = tasks /\ r.sort \in Seq(SortField)
            /\ r.written = RewriteGroup(tasks, buckets, r.sort, readAgain) /\ r.written # Refused
    BY <2>1
  <2>3. tasks \in Seq(Task)
    BY SurveyAssumption
  <2>4. AsScanned(r.tasks, r.sort, r.written, after)
    BY <2>2, <2>3, RewriteWrites
  <2> QED
    BY <2>4, Zenon DEF AsScanned
<1>2. WalkInv => TypeOK
  BY DEF WalkInv
<1> QED
  BY <1>1, <1>2, WalkInit, WalkStep, DecisionInit, DecisionStep, SeenInit, SeenStep, PTL DEF Spec
=============================================================================
