------------------------------ MODULE MCEngine ------------------------------
(* Two tables, both with work worth reporting, and a budget for one rewrite. *)
EXTENDS Engine

Found(due, cost, score) == [due |-> due, cost |-> cost, score |-> score]

(* First: two tables want the same money; one table has every rewrite; one   *)
(* is beyond any budget.  Then: the history is packed and scanned once more. *)
SurveysOf == <<
    { (1 :> Found({"compact", "manifests"}, 2, 1)) @@ (2 :> Found({"compact"}, 2, 2)),
      (1 :> Found({"compact", "manifests", "orphans"}, 1, 1)) @@ (2 :> Found({}, 0, 0)),
      (1 :> Found({"expire", "orphans"}, 0, 0)) @@ (2 :> Found({"compact"}, 4, 1)) },
    { (1 :> Found({"manifests", "orphans"}, 0, 0)) @@ (2 :> Found({}, 0, 0)) } >>

RequestsOf == {Kinds, {"orphans"}}
=============================================================================
