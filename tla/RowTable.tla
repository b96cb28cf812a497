------------------------------ MODULE RowTable ------------------------------
(***************************************************************************)
(* What readers of a table are promised while maintenance runs: the rows   *)
(* they see, and the partition each is filed under, change only when a     *)
(* foreground writer edits the table.  Maintenance is invisible.           *)
(***************************************************************************)
EXTENDS Naturals

CONSTANTS Rows, Keys, KeyOf, Partition, Global, InitialRows

VARIABLES
    rows,    \* the visible rows, as pairs <<row, partition>>
    edits    \* foreground commits so far

Init == rows = InitialRows /\ edits = 0

(* Delete the rows of some keys in one partition, or everywhere for a       *)
(* global delete, and insert rows that are not visible.                     *)
Upsert(part, keys, new) ==
    LET gone == {x \in rows : KeyOf[x[1]] \in keys /\ (part \in Global \/ x[2] = part)}
    IN  /\ \A x \in rows : x[1] \notin new
        /\ rows' = (rows \ gone) \cup (new \X {part})

(* Delete some rows outright. *)
Remove(gone) == rows' = rows \ gone

Next ==
    /\ edits' = edits + 1
    /\ \/ \E part \in Partition, keys \in SUBSET Keys, new \in SUBSET Rows : Upsert(part, keys, new)
       \/ \E gone \in SUBSET rows : Remove(gone)

Spec == Init /\ [][Next]_<<rows, edits>>
=============================================================================
