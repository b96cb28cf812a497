----------------------------- MODULE EventStream -----------------------------
(***************************************************************************)
(* The stream of table-changed notifications: a bounded queue that drops   *)
(* rather than block its senders, and a debounce window that collects what *)
(* arrives after the first notification into one batch.                    *)
(*                                                                         *)
(* next_batch is awaited beside a timer and abandoned whenever the timer   *)
(* wins, so what the window has collected lives in the stream.  The        *)
(* operators below are one poll of it: it yields a batch, finds that the   *)
(* senders are gone, or waits with whatever it has collected by then.      *)
(***************************************************************************)
EXTENDS Naturals, Sequences

CONSTANTS
    Tables,
    Depth,       \* CHANNEL_DEPTH
    Debounce     \* how long a window stays open

ASSUME EventStreamAssumption == Depth \in Nat \ {0} /\ Debounce \in Nat

VARIABLES
    queue,       \* notifications accepted and not received
    senders,     \* whether a sender is left
    pending,     \* tables collected in the open window
    open,        \* whether a window is open
    remaining    \* how long it stays so

stream == <<queue, senders, pending, open, remaining>>

Queued == {queue[i] : i \in DOMAIN queue}

EventStreamTypeOK ==
    /\ queue \in Seq(Tables) /\ Len(queue) <= Depth
    /\ senders \in BOOLEAN
    /\ pending \subseteq Tables
    /\ open \in BOOLEAN
    /\ remaining \in 0 .. Debounce

EventStreamInit ==
    /\ queue = <<>>
    /\ pending = {}
    /\ open = FALSE
    /\ remaining = 0

(* A full queue drops the notification, which changes nothing. *)
Notify(t) ==
    /\ senders
    /\ Len(queue) < Depth
    /\ queue' = Append(queue, t)
    /\ UNCHANGED <<senders, pending, open, remaining>>

HangUp ==
    /\ senders
    /\ senders' = FALSE
    /\ UNCHANGED <<queue, pending, open, remaining>>

-----------------------------------------------------------------------------
(* One poll of next_batch.  It resumes where it waited, inside the timeout   *)
(* around the queue, or - after a cycle - starts from the top.               *)

(* What is left of the window once the poll has opened it. *)
WindowLeft == IF open THEN remaining ELSE Debounce

Ended == ~open /\ queue = <<>> /\ ~senders

BatchReady ==
    /\ open \/ queue # <<>>
    /\ WindowLeft = 0 \/ ~senders

(* How many notifications this poll receives.  A window that has closed      *)
(* still takes the one that opens it, or that the timeout finds first.       *)
Received(resumed) ==
    IF WindowLeft > 0 THEN Len(queue)
    ELSE IF queue # <<>> /\ (~open \/ resumed) THEN 1 ELSE 0

Collected(resumed) == pending \cup {queue[i] : i \in 1 .. Received(resumed)}

Receive(resumed) == queue' = SubSeq(queue, Received(resumed) + 1, Len(queue))

Deliver(resumed) ==
    /\ BatchReady
    /\ Receive(resumed)
    /\ pending' = {}
    /\ open' = FALSE
    /\ remaining' = 0
    /\ UNCHANGED senders

(* Mutant: every poll that receives something opens the window anew.         *)
CollectSliding(resumed) ==
    /\ ~BatchReady /\ ~Ended
    /\ Receive(resumed)
    /\ pending' = Collected(resumed)
    /\ open' = (open \/ queue # <<>>)
    /\ remaining' = IF queue # <<>> THEN Debounce ELSE remaining
    /\ UNCHANGED senders

(* No batch yet: the window, if any, keeps what it has and when it closes.   *)
Collect(resumed) ==
    /\ ~BatchReady /\ ~Ended
    /\ Receive(resumed)
    /\ pending' = Collected(resumed)
    /\ open' = (open \/ queue # <<>>)
    /\ remaining' = IF open' THEN WindowLeft ELSE 0
    /\ UNCHANGED senders

(* Whether a poll that waits would be woken by the stream. *)
StreamWakes == queue # <<>> \/ Ended \/ BatchReady

StreamTick ==
    /\ remaining' = IF remaining = 0 THEN 0 ELSE remaining - 1
    /\ UNCHANGED <<queue, senders, pending, open>>
=============================================================================
