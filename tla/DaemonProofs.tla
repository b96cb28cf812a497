---------------------------- MODULE DaemonProofs ----------------------------
(***************************************************************************)
(* What holds of the daemon for any interval, schedules, window, queue and *)
(* debounce, and however planning and running go: its types, that an       *)
(* accepted notification is kept until a cycle is started for it, and that *)
(* it ends only for a reason.                                              *)
(***************************************************************************)
EXTENDS Daemon, FiniteSetTheorems, WellFoundedInduction, TLAPS

USE EventStreamAssumption, DaemonAssumption

-----------------------------------------------------------------------------
(* Waiting times *)

(* A set of numbers that is not empty has an earliest: the numbers up to it  *)
(* are a smallest among the finite sets of that form.                        *)
LEMMA EarliestIsLeast ==
    ASSUME NEW S \in SUBSET Nat, S # {}
    PROVE  Earliest(S) \in S /\ \A y \in S : Earliest(S) <= y
<1> DEFINE Segments == {0 .. x : x \in S}
<1>1. IsWellFoundedOn(StrictSubsetOrdering(Nat), FiniteSubsetsOf(Nat))
  BY FS_StrictSubsetOrderingWellFounded, Zenon
<1>2. ASSUME NEW x \in S
      PROVE  0 .. x \in FiniteSubsetsOf(Nat)
  <2>1. IsFiniteSet(0 .. x)
    BY FS_Interval
  <2>2. 0 .. x \in SUBSET Nat
    OBVIOUS
  <2> QED
    BY <2>1, <2>2, Zenon DEF FiniteSubsetsOf
<1>3. Segments \subseteq FiniteSubsetsOf(Nat) /\ Segments # {}
  BY <1>2
<1>4. PICK s \in Segments : \A r \in Segments : ~(<<r, s>> \in StrictSubsetOrdering(Nat))
  BY <1>1, <1>3, WFMin, Zenon
<1>5. PICK x \in S : s = 0 .. x
  OBVIOUS
<1>6. ASSUME NEW y \in S
      PROVE  x <= y
  <2>1. ~(<<0 .. y, 0 .. x>> \in StrictSubsetOrdering(Nat))
    BY <1>4, <1>5
  <2>2. 0 .. y \subseteq 0 .. x => 0 .. y = 0 .. x
    BY <2>1 DEF StrictSubsetOrdering
  <2>3. y < x => 0 .. y \subseteq 0 .. x /\ x \in 0 .. x /\ x \notin 0 .. y
    OBVIOUS
  <2> QED
    BY <2>2, <2>3
<1> QED
  BY <1>6 DEF Earliest

(* Every trigger that fires at all fires after some number of ticks. *)
LEMMA DelayIsTime ==
    ASSUME TypeOK, NEW i \in Armed
    PROVE  Delay(i) \in Nat
<1>1. CASE i = 0
  BY <1>1 DEF Delay, TypeOK
<1>2. CASE i # 0
  <2>1. i \in DOMAIN Schedules /\ Schedules[i] \in ScheduleOf /\ Schedules[i].at # {}
    BY <1>2 DEF Armed
  <2>2. PICK h \in Schedules[i].at : h \in 0 .. Day - 1
    BY <2>1 DEF ScheduleOf
  <2> DEFINE Next1 == IF h > now THEN h - now ELSE h + Day - now
             Due == {d \in 1 .. Day : \E k \in Schedules[i].at : now + d \in {k, k + Day}}
  <2>3. Next1 \in 1 .. Day /\ now + Next1 \in {h, h + Day}
    BY <2>2 DEF TypeOK
  <2>4. Due # {} /\ Due \subseteq Nat
    BY <2>2, <2>3
  <2>5. Earliest(Due) \in Due
    BY <2>4, EarliestIsLeast
  <2> QED
    BY <1>2, <2>4, <2>5 DEF Delay
<1> QED
  BY <1>1, <1>2

LEMMA NextOpenIsTime ==
    ASSUME NEW d \in Nat
    PROVE  NextOpen(d) \in Nat
<1> DEFINE wakes == {e \in d .. d + Day - 1 : OpenAt(now + e)}
<1>1. wakes \subseteq Nat
  OBVIOUS
<1>2. wakes # {} => Earliest(wakes) \in wakes
  BY <1>1, EarliestIsLeast
<1> QED
  BY <1>1, <1>2 DEF NextOpen

(* Of the triggers that fire soonest there is a first. *)
LEMMA NextTriggerIsArmed ==
    ASSUME TypeOK
    PROVE  NextTrigger \in Armed
<1> DEFINE Delays == {Delay(i) : i \in Armed}
           least == Earliest(Delays)
           Soonest == {i \in Armed : Delay(i) = least}
           first == Earliest(Soonest)
<1>1. Armed \subseteq Nat /\ 0 \in Armed
  BY DEF Armed
<1>2. \A i \in Armed : Delay(i) \in Nat
  BY DelayIsTime
<1>3. Delays \in SUBSET Nat /\ Delays # {}
  BY <1>1, <1>2
<1>4. least \in Delays /\ \A d \in Delays : least <= d
  BY <1>3, EarliestIsLeast
<1>5. \A i \in Armed : least <= Delay(i)
  BY <1>4
<1>6. Soonest \in SUBSET Nat /\ Soonest # {}
  BY <1>1, <1>4
<1>7. first \in Soonest /\ \A i \in Soonest : first <= i
  BY <1>6, EarliestIsLeast
<1> HIDE DEF first, least
<1>8. \A j \in Armed : Delay(first) < Delay(j) \/ (Delay(first) = Delay(j) /\ first <= j)
  BY <1>1, <1>2, <1>5, <1>7
<1> QED
  BY <1>7, <1>8 DEF NextTrigger

-----------------------------------------------------------------------------
(* One poll of the stream *)

(* What a poll takes from the queue is collected, the rest stays queued. *)
LEMMA PollLosesNothing ==
    ASSUME EventStreamTypeOK, NEW resumed \in BOOLEAN, Receive(resumed)
    PROVE  /\ queue' \in Seq(Tables) /\ Len(queue') <= Depth
           /\ Collected(resumed) \subseteq Tables
           /\ Queued \cup pending \subseteq Queued' \cup Collected(resumed)
<1> DEFINE k == Received(resumed)
<1>1. k \in 0 .. Len(queue)
  BY DEF Received, EventStreamTypeOK
<1>2. queue' = SubSeq(queue, k + 1, Len(queue))
  BY DEF Receive
<1> HIDE DEF k
<1>3. /\ queue' \in Seq(Tables) /\ Len(queue') = Len(queue) - k
      /\ \A i \in 1 .. Len(queue) - k : queue'[i] = queue[k + i]
  BY <1>1, <1>2 DEF EventStreamTypeOK
<1>4. Collected(resumed) = pending \cup {queue[i] : i \in 1 .. k}
  BY DEF Collected, k
<1>5. ASSUME NEW i \in DOMAIN queue, i > k
      PROVE  queue[i] \in Queued'
  <2>1. i - k \in 1 .. Len(queue) - k /\ k + (i - k) = i
    BY <1>1, <1>5 DEF EventStreamTypeOK
  <2>2. DOMAIN queue' = 1 .. Len(queue) - k
    BY <1>3
  <2>3. i - k \in DOMAIN queue'
    BY <2>1, <2>2
  <2>4. queue'[i - k] = queue[i]
    <3>1. queue'[i - k] = queue[k + (i - k)]
      BY <2>1, <1>3
    <3> QED
      BY <2>1, <3>1
  <2> QED
    BY <2>3, <2>4 DEF Queued
<1>6. ASSUME NEW i \in DOMAIN queue, i <= k
      PROVE  queue[i] \in Collected(resumed)
  BY <1>1, <1>4, <1>6 DEF EventStreamTypeOK
<1>7. Queued \subseteq Queued' \cup Collected(resumed)
  BY <1>1, <1>5, <1>6 DEF Queued, EventStreamTypeOK
<1>8. Collected(resumed) \subseteq Tables
  BY <1>1, <1>4 DEF EventStreamTypeOK
<1>9. Len(queue') <= Depth
  BY <1>1, <1>3 DEF EventStreamTypeOK
<1>10. pending \subseteq Collected(resumed)
  BY <1>4
<1> QED
  BY <1>3, <1>7, <1>8, <1>9, <1>10, Zenon

(* A poll that yields nothing keeps what it took in the window. *)
LEMMA CollectKeeps ==
    ASSUME EventStreamTypeOK, NEW resumed \in BOOLEAN, Collect(resumed)
    PROVE  EventStreamTypeOK' /\ Queued \cup pending \subseteq Queued' \cup pending'
<1>1. Receive(resumed) /\ pending' = Collected(resumed) /\ senders' = senders
      /\ open' = (open \/ queue # <<>>)
      /\ remaining' = IF open' THEN WindowLeft ELSE 0
  BY DEF Collect
<1>2. remaining' \in 0 .. Debounce /\ open' \in BOOLEAN
  BY <1>1 DEF EventStreamTypeOK, WindowLeft
<1> QED
  BY <1>1, <1>2, PollLosesNothing DEF EventStreamTypeOK

(* A poll that yields a batch hands over what it took and what was collected. *)
LEMMA DeliverKeeps ==
    ASSUME EventStreamTypeOK, NEW resumed \in BOOLEAN, Deliver(resumed)
    PROVE  /\ EventStreamTypeOK'
           /\ Collected(resumed) \subseteq Tables
           /\ Queued \cup pending \subseteq Queued' \cup Collected(resumed)
<1>1. Receive(resumed) /\ pending' = {} /\ open' = FALSE /\ remaining' = 0 /\ senders' = senders
  BY DEF Deliver
<1>2. /\ queue' \in Seq(Tables) /\ Len(queue') <= Depth
      /\ Collected(resumed) \subseteq Tables
      /\ Queued \cup pending \subseteq Queued' \cup Collected(resumed)
  BY <1>1, PollLosesNothing, Zenon
<1>3. open' \in BOOLEAN
  BY <1>1, Zenon
<1>4. remaining' \in 0 .. Debounce /\ pending' \subseteq Tables /\ senders' \in BOOLEAN
  BY <1>1 DEF EventStreamTypeOK
<1>5. EventStreamTypeOK'
  BY <1>2, <1>3, <1>4, Zenon DEF EventStreamTypeOK
<1> QED
  BY <1>2, <1>5, Zenon

-----------------------------------------------------------------------------
(* The inductive invariant: only a cycle has a plan, and the daemon waits    *)
(* only while it has cycles left.                                            *)

IInv ==
    /\ TypeOK
    /\ pc \in {"top", "first", "parked", "planning", "stopped"} => plan = {}
    /\ pc \in {"first", "parked"} => cyclesLeft # 0
    /\ NotificationsKept
    /\ StopsForAReason

LEMMA InitIInv == Init => IInv
<1> SUFFICES ASSUME Init PROVE IInv
  OBVIOUS
<1>1. EventStreamTypeOK
  <2>1. open \in BOOLEAN /\ senders \in BOOLEAN
    BY Zenon DEF Init, EventStreamInit
  <2>2. queue \in Seq(Tables) /\ Len(queue) <= Depth /\ pending = {} /\ remaining \in 0 .. Debounce
    BY DEF Init, EventStreamInit
  <2> QED
    BY <2>1, <2>2, Zenon DEF EventStreamTypeOK
<1>2. events \in BOOLEAN
  BY DEF Init
<1>3. scope \in Scope /\ plan = {}
  BY DEF Init, Scope, Nothing
<1>4. TypeOK
  <2>1. stop \in BOOLEAN
    BY Zenon DEF Init
  <2> QED
    BY <1>1, <1>2, <1>3, <2>1 DEF Init, TypeOK, Unlimited
<1>5. NotificationsKept
  BY DEF Init, NotificationsKept
<1> QED
  BY <1>3, <1>4, <1>5 DEF Init, IInv, StopsForAReason

LEMMA SettleKeeps == ASSUME IInv, Settle PROVE IInv'
<1>1. wait' \in Nat /\ trigger' \in 0 .. Len(Schedules)
  <2>1. NextTrigger \in Armed
    BY NextTriggerIsArmed DEF IInv
  <2>2. Delay(NextTrigger) \in Nat
    BY <2>1, DelayIsTime DEF IInv
  <2>3. NextOpen(Delay(NextTrigger)) \in Nat
    BY <2>2, NextOpenIsTime
  <2>4. NextTrigger \in 0 .. Len(Schedules)
    BY <2>1 DEF Armed
  <2> QED
    BY <2>3, <2>4 DEF Settle, IInv, TypeOK
<1> QED
  BY <1>1 DEF IInv, Settle, stream, TypeOK, EventStreamTypeOK, NotificationsKept, Queued,
              StopsForAReason, Unlimited

LEMMA StartCycleKeeps ==
    ASSUME IInv, Waiting, NEW s \in Scope, StartCycle(s), UNCHANGED plan
    PROVE  /\ wait' \in Nat /\ trigger' \in 0 .. Len(Schedules)
           /\ pc' = "planning" /\ scope' = s
           /\ plan' = {} /\ plan' \in SUBSET scope'.tables
           /\ cyclesLeft' \in Nat \cup {Unlimited}
<1>1. cyclesLeft # 0 /\ plan = {} /\ cyclesLeft \in Nat \cup {Unlimited}
  BY DEF IInv, Waiting, TypeOK
<1>2. cyclesLeft' \in Nat \cup {Unlimited}
  BY <1>1 DEF StartCycle, Unlimited
<1> QED
  BY <1>1, <1>2 DEF StartCycle, DropSleep

LEMMA BatchArrivesKeeps == ASSUME IInv, BatchArrives PROVE IInv'
<1> DEFINE s == [kind |-> "tables", tables |-> Collected(Resumed)]
<1>1. /\ EventStreamTypeOK'
      /\ Collected(Resumed) \subseteq Tables
      /\ Queued \cup pending \subseteq Queued' \cup Collected(Resumed)
  BY DeliverKeeps DEF IInv, TypeOK, BatchArrives, Resumed
<1>2. s \in Scope
  BY <1>1 DEF Scope
<1>3. Waiting /\ StartCycle(s) /\ UNCHANGED <<now, left, plan, events, stop, changed>>
      /\ heard' = heard \ Collected(Resumed)
  BY DEF BatchArrives, StartCycle
<1> HIDE DEF s
<1>4. /\ wait' \in Nat /\ trigger' \in 0 .. Len(Schedules)
      /\ pc' = "planning" /\ scope' = s
      /\ plan' = {} /\ plan' \in SUBSET scope'.tables
      /\ cyclesLeft' \in Nat \cup {Unlimited}
  BY <1>2, <1>3, StartCycleKeeps
<1>5. TypeOK'
  BY <1>1, <1>2, <1>3, <1>4 DEF IInv, TypeOK
<1>6. NotificationsKept'
  BY <1>1, <1>3 DEF IInv, NotificationsKept
<1> QED
  BY <1>3, <1>4, <1>5, <1>6 DEF IInv, StopsForAReason

(* What waiting for a batch in vain does to the stream. *)
LEMMA NoBatchKeeps ==
    ASSUME IInv, NoBatch
    PROVE  EventStreamTypeOK' /\ Queued \cup pending \subseteq Queued' \cup pending'
<1>1. CASE events
  BY <1>1, CollectKeeps DEF NoBatch, Resumed, IInv, TypeOK
<1>2. CASE ~events
  BY <1>2 DEF NoBatch, stream, IInv, TypeOK, EventStreamTypeOK, Queued
<1> QED
  BY <1>1, <1>2

LEMMA TimerFiresKeeps == ASSUME IInv, TimerFires PROVE IInv'
<1>1. EventStreamTypeOK' /\ Queued \cup pending \subseteq Queued' \cup pending'
  BY NoBatchKeeps DEF TimerFires
<1>2. TimerScope \in Scope
  <2>1. trigger # 0 => Schedules[trigger] \in ScheduleOf
    BY DEF IInv, TypeOK
  <2> QED
    BY <2>1 DEF TimerScope, Scope, ScheduleOf
<1>3. Waiting /\ StartCycle(TimerScope)
      /\ UNCHANGED <<now, plan, events, stop, changed, heard>>
  BY DEF TimerFires
<1>4. /\ wait' \in Nat /\ trigger' \in 0 .. Len(Schedules)
      /\ pc' = "planning" /\ scope' = TimerScope
      /\ plan' = {} /\ plan' \in SUBSET scope'.tables
      /\ cyclesLeft' \in Nat \cup {Unlimited}
  BY <1>2, <1>3, StartCycleKeeps
<1>5. left' \in 0 .. Interval
  BY DEF TimerFires, IInv, TypeOK
<1>6. TypeOK'
  BY <1>1, <1>2, <1>3, <1>4, <1>5 DEF IInv, TypeOK
<1>7. NotificationsKept'
  BY <1>1, <1>3 DEF IInv, NotificationsKept
<1> QED
  BY <1>3, <1>4, <1>6, <1>7 DEF IInv, StopsForAReason

LEMMA PollKeeps == ASSUME IInv, Poll PROVE IInv'
<1>1. CASE Shutdown
  BY <1>1 DEF Shutdown, Waiting, DropSleep, IInv, stream, TypeOK, EventStreamTypeOK,
              NotificationsKept, Queued, StopsForAReason
<1>2. CASE BatchArrives
  BY <1>2, BatchArrivesKeeps
<1>3. CASE EventsEnd
  <2>1. /\ pc' = "top" /\ events' = FALSE /\ wait' = 0 /\ trigger' = 0
        /\ UNCHANGED <<stream, now, left, scope, plan, cyclesLeft, stop, changed, heard>>
    BY <1>3 DEF EventsEnd, DropSleep
  <2>2. pc \in {"first", "parked"}
    BY <1>3 DEF EventsEnd, Waiting
  <2>3. events' \in BOOLEAN
    BY <2>1, Zenon
  <2>4. TypeOK'
    BY <2>1, <2>3 DEF IInv, stream, TypeOK, EventStreamTypeOK
  <2> QED
    BY <2>1, <2>2, <2>4 DEF IInv, stream, NotificationsKept, Queued, StopsForAReason
<1>4. CASE TimerFires
  BY <1>4, TimerFiresKeeps
<1>5. CASE Park
  <2>1. EventStreamTypeOK' /\ Queued \cup pending \subseteq Queued' \cup pending'
    BY <1>5, NoBatchKeeps DEF Park
  <2> QED
    BY <1>5, <2>1 DEF Park, Waiting, IInv, TypeOK, NotificationsKept, StopsForAReason
<1> QED
  BY <1>1, <1>2, <1>3, <1>4, <1>5 DEF Poll

LEMMA CycleKeeps == ASSUME IInv, Cycle PROVE IInv'
<1> USE DEF stream, IInv, TypeOK, EventStreamTypeOK, NotificationsKept, Queued, StopsForAReason
<1>1. ASSUME NEW readable \in SUBSET Tables, PlanTables(readable)
      PROVE  IInv'
  BY <1>1 DEF PlanTables
<1>2. CASE PlanFails
  BY <1>2 DEF PlanFails, Rest, Nothing, Scope
<1>3. ASSUME NEW done \in SUBSET plan, RunPlan(done)
      PROVE  IInv'
  BY <1>3 DEF RunPlan
<1>4. CASE Defer
  BY <1>4 DEF Defer, Rest, Nothing, Scope
<1>5. CASE Finish
  BY <1>5 DEF Finish, Rest, Nothing, Scope
<1> QED
  BY <1>1, <1>2, <1>3, <1>4, <1>5 DEF Cycle

LEMMA NotifiedKeeps == ASSUME IInv, NEW t \in Tables, Notified(t) PROVE IInv'
<1>1. queue' = Append(queue, t) /\ Len(queue) < Depth /\ heard' = heard \cup {t}
      /\ UNCHANGED <<senders, pending, open, remaining, now, daemon, stop, changed>>
  BY DEF Notified, Notify
<1>2. queue' \in Seq(Tables) /\ Len(queue') <= Depth
  BY <1>1 DEF IInv, TypeOK, EventStreamTypeOK
<1>3. Queued \cup {t} \subseteq Queued'
  <2>1. /\ \A i \in DOMAIN queue : i \in DOMAIN queue' /\ queue'[i] = queue[i]
        /\ Len(queue) + 1 \in DOMAIN queue' /\ queue'[Len(queue) + 1] = t
    BY <1>1 DEF IInv, TypeOK, EventStreamTypeOK
  <2> QED
    BY <2>1 DEF Queued
<1>4. TypeOK'
  BY <1>1, <1>2 DEF IInv, TypeOK, EventStreamTypeOK, daemon
<1>5. NotificationsKept'
  BY <1>1, <1>3 DEF IInv, NotificationsKept
<1> QED
  BY <1>1, <1>4, <1>5 DEF IInv, StopsForAReason, daemon

LEMMA WorldKeeps ==
    ASSUME IInv, (\E t \in Tables : Change(t)) \/ SendersLeave \/ AskToStop
    PROVE  IInv'
<1> USE DEF stream, daemon, IInv, TypeOK, EventStreamTypeOK, NotificationsKept, Queued, StopsForAReason
<1>1. ASSUME NEW t \in Tables, Change(t)
      PROVE  IInv'
  BY <1>1 DEF Change
<1>2. CASE SendersLeave
  BY <1>2 DEF SendersLeave, HangUp
<1>3. CASE AskToStop
  BY <1>3 DEF AskToStop
<1> QED
  BY <1>1, <1>2, <1>3

LEMMA TickKeeps == ASSUME IInv, Tick PROVE IInv'
<1>1. now' \in 0 .. Day - 1
  BY DEF Tick, IInv, TypeOK
<1>2. left' \in 0 .. Interval /\ wait' \in Nat
  BY DEF Tick, IInv, TypeOK
<1>3. EventStreamTypeOK' /\ UNCHANGED <<queue, pending>>
  BY DEF Tick, StreamTick, IInv, TypeOK, EventStreamTypeOK
<1>4. UNCHANGED <<trigger, pc, scope, plan, events, cyclesLeft, stop, changed, heard>>
  BY DEF Tick
<1>5. TypeOK'
  BY <1>1, <1>2, <1>3, <1>4 DEF IInv, TypeOK
<1> QED
  BY <1>3, <1>4, <1>5 DEF IInv, NotificationsKept, Queued, StopsForAReason

LEMMA NextIInv == IInv /\ [Next]_vars => IInv'
<1> SUFFICES ASSUME IInv, [Next]_vars PROVE IInv'
  OBVIOUS
<1>1. CASE Settle
  BY <1>1, SettleKeeps
<1>2. CASE Poll
  BY <1>2, PollKeeps
<1>3. CASE Cycle
  BY <1>3, CycleKeeps
<1>4. ASSUME NEW t \in Observed, Notified(t)
      PROVE  IInv'
  BY <1>4, NotifiedKeeps
<1>5. CASE (\E t \in Tables : Change(t)) \/ SendersLeave \/ AskToStop
  BY <1>5, WorldKeeps
<1>6. CASE Tick
  BY <1>6, TickKeeps
<1>7. CASE UNCHANGED vars
  BY <1>7 DEF vars, stream, daemon, IInv, TypeOK, EventStreamTypeOK, NotificationsKept, Queued,
              StopsForAReason
<1> QED
  BY <1>1, <1>2, <1>3, <1>4, <1>5, <1>6, <1>7, Zenon DEF Next

THEOREM Invariance == Spec => []IInv
  BY InitIInv, NextIInv, PTL DEF Spec

(* The daemon's state keeps its types, for any policy and any queue; a sleep *)
(* is always some number of ticks, so every trigger that can fire does.      *)
THEOREM TypeCorrect == Spec => []TypeOK
<1>1. IInv => TypeOK
  BY DEF IInv
<1> QED
  BY <1>1, Invariance, PTL

(* An accepted notification stays in the queue or in the window until a      *)
(* cycle is started for it, whatever wakes the daemon in between.            *)
THEOREM AcceptedNotificationsKept == Spec => []NotificationsKept
<1>1. IInv => NotificationsKept
  BY DEF IInv
<1> QED
  BY <1>1, Invariance, PTL

(* The daemon ends only after a shutdown or when its cycles are used up.     *)
THEOREM EndsForAReason == Spec => []StopsForAReason
<1>1. IInv => StopsForAReason
  BY DEF IInv
<1> QED
  BY <1>1, Invariance, PTL
=============================================================================
