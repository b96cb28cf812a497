----------------------------- MODULE MCManifests -----------------------------
(* A table with three small data manifests: two whose entries alternate      *)
(* between two partitions of its current spec, one of a superseded spec;     *)
(* and with deletes that apply to two files, to one and to none.             *)
EXTENDS Manifests, TLC

CONSTANTS a, b, s1, s2, t1, t2

Interchangeable == Permutations({a, b})

(* A manifest with fewer entries than estimated to fit is undersized; a full *)
(* one may turn out either way.                                              *)
SizesOf(n) == IF n < 2 THEN {TRUE} ELSE BOOLEAN

RankOf(t) == IF t = t1 THEN 1 ELSE 2

Listed(file, content, tuple) ==
    [file |-> file, content |-> content, tuple |-> tuple, seq |-> file, status |-> "added"]

Alternating ==
    {[spec |-> s1, kind |-> "data", small |-> TRUE, entries |-> {Listed(1, "data", t1), Listed(2, "data", t2)}],
     [spec |-> s1, kind |-> "data", small |-> TRUE, entries |-> {Listed(3, "data", t1)}],
     [spec |-> s2, kind |-> "data", small |-> TRUE, entries |-> {Listed(4, "data", t1)}],
     [spec |-> s1, kind |-> "deletes", small |-> TRUE, entries |-> {Listed(5, "deletes", t1), Listed(6, "deletes", t2)}],
     [spec |-> s2, kind |-> "deletes", small |-> TRUE, entries |-> {Listed(7, "deletes", t2)}]}
=============================================================================
