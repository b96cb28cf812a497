----------------------------- MODULE LiveEntries -----------------------------
(***************************************************************************)
(* What a table's manifests record, whatever files they are packed into:   *)
(* the live entries.  A foreground writer adds and removes entries; a      *)
(* compaction exchanges data entries of one partition for newer ones with  *)
(* the same tuple, or for none where deletes hid them, and drops deletes   *)
(* that apply to nothing else.  No other entry is ever restamped, refiled, *)
(* lost or resurrected, and packing entries into other manifests changes   *)
(* nothing.  The spec a compaction files its output under is not asked.    *)
(***************************************************************************)
EXTENDS Naturals, FiniteSets

CONSTANT InitialEntries

VARIABLES
    live,    \* the live entries: file, content, partition and sequence number
    edits    \* foreground commits so far

Init == live = InitialEntries /\ edits = 0

IsNewest(e) == \A l \in live : e.seq > l.seq /\ e.file # l.file

Add == \E e \in live' : IsNewest(e) /\ live' = live \cup {e}

Drop == \E e \in live : live' = live \ {e}

Edit == edits' = edits + 1 /\ (Add \/ Drop \/ live' = live)

Hides(d, e) == d.spec = e.spec /\ d.tuple = e.tuple /\ d.seq >= e.seq

(* The data entries that go are of one partition, and a newer one of their   *)
(* tuple takes their place unless every one of them had deletes applied to   *)
(* it; the deletes that go apply to nothing that stays.                      *)
Exchange ==
    LET gone == live \ live'
        new == live' \ live
        data == {e \in gone : e.content = "data"}
        deletes(entries) == {e \in entries : e.content = "deletes"}
    IN  /\ gone # {}
        /\ \A d, e \in data : d.spec = e.spec /\ d.tuple = e.tuple
        /\ \A n \in new : IsNewest(n) /\ n.content = "data" /\ \E e \in data : n.tuple = e.tuple
        /\ new = {} => \A e \in data : \E d \in deletes(live) : Hides(d, e)
        /\ \A d \in deletes(gone), e \in live \ gone : e.content = "data" => ~ Hides(d, e)
        /\ UNCHANGED edits

Next == Edit \/ Exchange

Spec == Init /\ [][Next]_<<live, edits>>
=============================================================================
