--------------------------- MODULE MCCompaction ---------------------------
(* A table of two small files in one partition, both covered by one equality *)
(* delete that hides a row of the first; a third row is yet to be written.   *)
EXTENDS Compaction, TLC

CONSTANTS a, b, r1, r2, r3, r4, k1, k2, s1, s2, t1, t2, none

MCKeyOf == [r \in Rows |-> IF r \in {r1, r3} THEN k1 ELSE k2]

(* One spec files every row under t1; the other swaps to t2. *)
MCTupleOf == [s \in Specs |-> [r \in Rows |-> IF s = s1 THEN t1 ELSE t2]]

InSpec1 == [spec |-> s1, tuple |-> t1]

(* The equality delete applies to both files: neither alone may retire it. *)
SharedDelete ==
    {DataFile(1, InSpec1, 1, "small", {r1}),
     DataFile(2, InSpec1, 2, "small", {r2}),
     EqualityDelete(3, InSpec1, 3, {k1})}

(* An unpartitioned spec was replaced by a partitioned one; an upsert under  *)
(* the first left a global equality delete that covers a file of the second, *)
(* a data file as old as the delete, and came before a large file, which no  *)
(* delete covers.                                                            *)
Unspec == [spec |-> s2, tuple |-> none]
GlobalDelete ==
    {DataFile(1, Unspec, 1, "small", {r1}),
     DataFile(2, InSpec1, 2, "small", {r2}),
     EqualityDelete(3, Unspec, 3, {k1}),
     DataFile(4, Unspec, 3, "target", {r3}),
     DataFile(5, InSpec1, 4, "large", {r4})}
MCUnpartitionedTupleOf == [s \in Specs |-> [r \in Rows |-> IF s = s1 THEN t1 ELSE none]]
=============================================================================
