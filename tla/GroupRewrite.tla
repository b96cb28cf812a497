---------------------------- MODULE GroupRewrite ----------------------------
(***************************************************************************)
(* What the rewrite of one file group does with its rows: files are        *)
(* bucketed by the equality deletes that apply to them, each bucket's      *)
(* deletes are joined away, the buckets are united, sorted once and        *)
(* written to files of a target size.                                      *)
(*                                                                         *)
(* A task is a data file: the tuple it is filed under, the rows its        *)
(* positional deletes leave, and the numbers of the equality deletes that  *)
(* apply to it.  The numbers stand for paths, in their order.  A row on    *)
(* its way through the rewrite is told by its place, the number of its     *)
(* task and its own in that task, so that rows that are equal stay two.    *)
(***************************************************************************)
EXTENDS Naming, FiniteSets, FiniteSetsExt, TLC

CONSTANTS
    ColumnOf,       \* the columns of the table, by field id
    DeleteFile,     \* of each equality delete: the field ids and the rows
    Absent,         \* the tuple of a task that carries none
    PerFile,        \* how many rows reach the target size
    Refused

Row == [Range(ColumnOf) -> Int \cup {Null}]
Task == [tuple : STRING \cup {Absent}, rows : Seq(Row), deletes : SUBSET (DOMAIN DeleteFile)]

ASSUME RewriteAssumption ==
    /\ PerFile \in Nat \ {0} /\ IsInjective(ColumnOf)
    /\ IsFiniteSet(DOMAIN DeleteFile)
    /\ \A d \in DOMAIN DeleteFile : DeleteFile[d].ids \in Seq(Nat)

PlacesOf(tasks) == UNION {{<<t, n>> : n \in DOMAIN tasks[t].rows} : t \in DOMAIN tasks}

RowAt(tasks, place) == tasks[place[1]].rows[place[2]]

-----------------------------------------------------------------------------
(* Deletes *)

Columns(delete) == [i \in DOMAIN DeleteFile[delete].ids |-> ColumnOf[DeleteFile[delete].ids[i]]]

(* A delete must name fields, and fields that the schema still has. *)
CanApply(delete) ==
    /\ DeleteFile[delete].ids # <<>>
    /\ Range(DeleteFile[delete].ids) \subseteq DOMAIN ColumnOf

(* Deletes that match on the same columns share a join. *)
EqualityDeleteSets(deletes) ==
    {[columns |-> cs, deletes |-> {d \in deletes : Columns(d) = cs}] : cs \in {Columns(d) : d \in deletes}}

(* Mutant: equality as SQL has it, to which a null equals nothing. *)
SqlEquals(x, y) == x # Null /\ x = y

IsNotDistinctFrom(x, y) == x = y

(* Of the deletes only the columns they match on are read. *)
DeleteScan(set) ==
    {[c \in Range(set.columns) |-> row[c]] : row \in UNION {DeleteFile[d].rows : d \in set.deletes}}

(* An anti-join with the rows of the deletes of one set. *)
LeftAnti(tasks, frame, set) ==
    LET matches(row, deleted) == \A c \in DOMAIN deleted : IsNotDistinctFrom(row[c], deleted[c])
    IN  {p \in frame : ~ \E deleted \in DeleteScan(set) : matches(RowAt(tasks, p), deleted)}

-----------------------------------------------------------------------------
(* Buckets *)

(* Tasks with the same deletes are scanned together.  The buckets are       *)
(* sorted by their first delete only; those that share it come in any order.*)
BucketOrders(tasks) ==
    LET first(deletes) == IF deletes = {} THEN 0 ELSE Min(deletes)
        inOrder(buckets) == \A i, j \in DOMAIN buckets : i < j => first(buckets[i]) <= first(buckets[j])
    IN  {buckets \in SetToSeqs({t.deletes : t \in Range(tasks)}) : inOrder(buckets)}

ReadTasks(tasks, deletes) == {p \in PlacesOf(tasks) : tasks[p[1]].deletes = deletes}

(* One anti-join after the other. *)
BucketFrame(tasks, deletes) ==
    LET sets == SetToSeq(EqualityDeleteSets(deletes))
        left[n \in 0 .. Len(sets)] ==
            IF n = 0 THEN ReadTasks(tasks, deletes) ELSE LeftAnti(tasks, left[n - 1], sets[n])
    IN  left[Len(sets)]

(* A union that keeps what several of its frames hold: the frame's number   *)
(* becomes part of what a row is told by.                                   *)
Union(tasks, buckets) ==
    UNION {{<<b, p[1], p[2]>> : p \in BucketFrame(tasks, buckets[b])} : b \in DOMAIN buckets}

(* Each side of a join is a reader that can be read once: a plan that reads *)
(* one again fails, it does not find it empty.                              *)
CanStream(readAgain) == ~ readAgain

-----------------------------------------------------------------------------
(* Sorting and writing *)

(* Direction and the place of nulls are the column's own. *)
Less(column, x, y) ==
    /\ x # y
    /\ CASE x = Null -> column.nullsFirst
         [] y = Null -> ~ column.nullsFirst
         [] OTHER -> IF column.descending THEN x > y ELSE x < y

SortsBefore(sort, row1, row2) ==
    \E i \in DOMAIN sort :
        /\ Less(sort[i], row1[sort[i].name], row2[sort[i].name])
        /\ \A j \in 1 .. i - 1 : row1[sort[j].name] = row2[sort[j].name]

ReadBefore(p, q) == \E i \in 1 .. 3 : p[i] < q[i] /\ \A j \in 1 .. i - 1 : p[j] = q[j]

(* Every row behind those that sort before it.  The sort leaves open which  *)
(* of two that tie comes first; here it is the one that was read first.     *)
Sorted(tasks, frame, sort) ==
    LET row(p) == RowAt(tasks, <<p[2], p[3]>>)
        before(p, q) == \/ SortsBefore(sort, row(p), row(q))
                        \/ ~ SortsBefore(sort, row(q), row(p)) /\ ReadBefore(p, q)
        rank(p) == Cardinality({q \in frame : before(q, p)})
    IN  [k \in 1 .. Cardinality(frame) |-> row(CHOOSE p \in frame : rank(p) = k - 1)]

CheckSortColumns(sort) == {sort[i].name : i \in DOMAIN sort} \subseteq Range(ColumnOf)

(* Every file of the group is filed under one tuple, and each says which. *)
PartitionKeyFor(tasks) ==
    IF \A t \in Range(tasks) : t.tuple # Absent /\ t.tuple = tasks[1].tuple THEN tasks[1].tuple ELSE Refused

(* A file is closed, and the next one opened, when it reaches the target. *)
Roll(rows) ==
    LET last(i) == Min({i * PerFile, Len(rows)})
    IN  [i \in 1 .. (Len(rows) + PerFile - 1) \div PerFile |-> SubSeq(rows, (i - 1) * PerFile + 1, last(i))]

RewriteGroup(tasks, buckets, sort, readAgain) ==
    IF \/ ~ CheckSortColumns(sort)
       \/ \E deletes \in Range(buckets) : \E d \in deletes : ~ CanApply(d)
       \/ PartitionKeyFor(tasks) = Refused
       \/ ~ CanStream(readAgain)
    THEN Refused
    ELSE [tuple |-> PartitionKeyFor(tasks), files |-> Roll(Sorted(tasks, Union(tasks, buckets), sort))]
=============================================================================
