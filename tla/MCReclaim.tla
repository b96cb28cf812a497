----------------------------- MODULE MCReclaim -----------------------------
(* Data files sort before manifest lists.  The table retains two snapshots:  *)
(* the older one holds file 1 alone, the newer one file 2.                   *)
EXTENDS Reclaim, TLC

CONSTANTS a, b

TwoSnapshots ==
    {[list |-> 5, data |-> {1}, at |-> 0, seq |-> 1],
     [list |-> 6, data |-> {2}, at |-> 0, seq |-> 2]}

(* The older snapshot also refers to a file outside the table's location. *)
WithOutside ==
    {[list |-> 5, data |-> {1, 4}, at |-> 0, seq |-> 1],
     [list |-> 6, data |-> {2}, at |-> 0, seq |-> 2]}
=============================================================================
