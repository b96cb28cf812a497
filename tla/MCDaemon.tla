------------------------------ MODULE MCDaemon ------------------------------
(* A day of four ticks, of which two are in the window. *)
EXTENDS Daemon

CONSTANTS a, b

WindowHours == {1, 2}

(* The first rule wakes twice a day, once outside the window; the second     *)
(* has an expression that never occurs.                                      *)
TwiceADay == <<[tables |-> {a}, at |-> {0, 2}], [tables |-> {b}, at |-> {}]>>

(* Two rules for the same time of day. *)
SameTime == <<[tables |-> {a}, at |-> {2}], [tables |-> {b}, at |-> {2}]>>

NoLimit == {Unlimited}
NoLimitOrOne == {Unlimited, 1}
=============================================================================
