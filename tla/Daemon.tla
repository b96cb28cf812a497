------------------------------- MODULE Daemon -------------------------------
(***************************************************************************)
(* The daemon: it sleeps until its interval, a rule's schedule or a batch  *)
(* of notifications is due, plans and runs one cycle over what that        *)
(* trigger covers, and starts over, until it is told to stop.              *)
(*                                                                         *)
(* Time is counted in ticks; a cron expression and the maintenance window  *)
(* are sets of ticks of a day.  Everything may take time except the steps  *)
(* from the top of the loop to the first wait, which no await separates.   *)
(***************************************************************************)
EXTENDS Integers, EventStream

CONSTANTS
    Day,         \* ticks in a day
    Interval,    \* DaemonConfig.interval
    Schedules,   \* the rules that have a schedule, in order: their tables, and when
    Hours,       \* the maintenance window; every tick of the day if there is none
    Limits,      \* values of DaemonConfig.max_cycles to start with
    Observed     \* the tables somebody sends notifications of

Unlimited == -1

VARIABLES
    now,         \* time of day
    left,        \* until interval_due; 0 when it is due or overdue
    wait,        \* what is left of the sleep
    trigger,     \* what the sleep ends for: 0 the interval, i the i-th schedule
    pc,
    scope,       \* what the cycle covers
    plan,        \* the tables the plan names
    events,      \* whether the daemon still polls the event stream
    cyclesLeft,  \* cycles until max_cycles
    stop,        \* whether the shutdown has resolved
    changed,     \* tables that have work
    heard        \* history: tables notified and not yet handed to a cycle

daemon == <<left, wait, trigger, pc, scope, plan, events, cyclesLeft>>

vars == <<stream, now, daemon, stop, changed, heard>>

ScheduleOf == [tables : SUBSET Tables, at : SUBSET (0 .. Day - 1)]

ASSUME DaemonAssumption ==
    /\ Day \in Nat \ {0}
    /\ Interval \in Nat
    /\ Schedules \in Seq(ScheduleOf)
    /\ Hours \subseteq 0 .. Day - 1 /\ Hours # {}
    /\ Limits \subseteq Nat \cup {Unlimited}
    /\ Observed \subseteq Tables

Scope == [kind : {"none", "everything", "matching", "tables"}, tables : SUBSET Tables]

Nothing == [kind |-> "none", tables |-> {}]

TypeOK ==
    /\ EventStreamTypeOK
    /\ now \in 0 .. Day - 1
    /\ left \in 0 .. Interval
    /\ wait \in Nat
    /\ trigger \in 0 .. Len(Schedules)
    /\ pc \in {"top", "first", "parked", "planning", "planned", "running", "stopped"}
    /\ scope \in Scope
    /\ plan \in SUBSET scope.tables
    /\ events \in BOOLEAN
    /\ cyclesLeft \in Nat \cup {Unlimited}
    /\ stop \in BOOLEAN
    /\ changed \subseteq Tables
    /\ heard \subseteq Tables

-----------------------------------------------------------------------------
(* When to wake *)

Earliest(S) == CHOOSE x \in S : \A y \in S : x <= y

OpenAt(t) == t % Day \in Hours

(* How long until trigger i fires.  An occurrence is strictly after now. *)
Delay(i) ==
    IF i = 0 THEN left
    ELSE Earliest({d \in 1 .. Day : \E h \in Schedules[i].at : now + d \in {h, h + Day}})

(* A schedule without any occurrence never fires. *)
Armed == {0} \cup {i \in DOMAIN Schedules : Schedules[i].at # {}}

(* Only a strictly sooner schedule displaces the interval or an earlier one. *)
NextTrigger ==
    CHOOSE i \in Armed : \A j \in Armed :
        Delay(i) < Delay(j) \/ (Delay(i) = Delay(j) /\ i <= j)

(* Mutant: the window is not asked before sleeping. *)
NoWindow(delay) == delay

(* A sleep that would end outside the window ends when the window opens. *)
NextOpen(delay) ==
    LET wakes == {d \in delay .. delay + Day - 1 : OpenAt(now + d)}
    IN  IF wakes = {} THEN delay ELSE Earliest(wakes)

TimerScope ==
    IF trigger = 0
    THEN [kind |-> "everything", tables |-> Tables]
    ELSE [kind |-> "matching", tables |-> Schedules[trigger].tables]

-----------------------------------------------------------------------------
Init ==
    /\ EventStreamInit
    /\ senders \in BOOLEAN
    /\ events \in {senders, TRUE}
    /\ now \in 0 .. Day - 1
    /\ left = Interval
    /\ wait = 0 /\ trigger = 0
    /\ pc = "top"
    /\ scope = Nothing /\ plan = {}
    /\ cyclesLeft \in Limits
    /\ stop = FALSE
    /\ changed = {} /\ heard = {}

(* The top of the loop: the cycle limit, then how long to sleep for what. *)
Settle ==
    /\ pc = "top"
    /\ IF cyclesLeft = 0
       THEN pc' = "stopped" /\ UNCHANGED <<wait, trigger>>
       ELSE /\ pc' = "first"
            /\ trigger' = NextTrigger
            /\ wait' = NextOpen(Delay(NextTrigger))
    /\ UNCHANGED <<stream, now, left, scope, plan, events, cyclesLeft, stop, changed, heard>>

(* The select, in its order: a shutdown, a batch, the timer. *)
Waiting == pc \in {"first", "parked"}

(* Mutant: a select that is not biased. *)
AnyBranch == TRUE

(* Whether the select gets past the shutdown. *)
PastShutdown == ~stop

Resumed == pc = "parked"

DropSleep == wait' = 0 /\ trigger' = 0

StartCycle(s) ==
    /\ pc' = "planning"
    /\ DropSleep
    /\ scope' = s
    /\ cyclesLeft' = IF cyclesLeft = Unlimited THEN Unlimited ELSE cyclesLeft - 1

Shutdown ==
    /\ Waiting /\ stop
    /\ pc' = "stopped"
    /\ DropSleep
    /\ UNCHANGED <<stream, now, left, scope, plan, events, cyclesLeft,
                   stop, changed, heard>>

BatchArrives ==
    /\ Waiting /\ PastShutdown /\ events
    /\ Deliver(Resumed)
    /\ StartCycle([kind |-> "tables", tables |-> Collected(Resumed)])
    /\ heard' = heard \ scope'.tables
    /\ UNCHANGED <<now, left, plan, events, stop, changed>>

(* Without senders the daemon keeps its cadence and polls the stream no more. *)
EventsEnd ==
    /\ Waiting /\ PastShutdown /\ events /\ Ended
    /\ events' = FALSE
    /\ pc' = "top"
    /\ DropSleep
    /\ UNCHANGED <<stream, now, left, scope, plan, cyclesLeft, stop, changed, heard>>

(* The stream is polled first and keeps what it has collected. *)
NoBatch == IF events THEN Collect(Resumed) ELSE UNCHANGED stream

(* Mutants: the window's tables live in the future the timer drops; the      *)
(* interval is measured from the last wake-up.                               *)
TimerDropsWindow ==
    /\ Waiting /\ PastShutdown /\ wait = 0
    /\ events => ~BatchReady /\ ~Ended
    /\ pending' = {} /\ open' = FALSE /\ remaining' = 0 /\ queue' = <<>>
    /\ left' = IF trigger = 0 THEN Interval ELSE left
    /\ StartCycle(TimerScope)
    /\ UNCHANGED <<senders, now, plan, events, stop, changed, heard>>

TimerRestartsInterval ==
    /\ Waiting /\ PastShutdown
    /\ NoBatch
    /\ wait = 0
    /\ left' = Interval
    /\ StartCycle(TimerScope)
    /\ UNCHANGED <<now, plan, events, stop, changed, heard>>

TimerFires ==
    /\ Waiting /\ PastShutdown
    /\ NoBatch
    /\ wait = 0
    /\ left' = IF trigger = 0 THEN Interval ELSE left
    /\ StartCycle(TimerScope)
    /\ UNCHANGED <<now, plan, events, stop, changed, heard>>

Park ==
    /\ Waiting /\ PastShutdown
    /\ NoBatch
    /\ wait > 0
    /\ pc' = "parked"
    /\ UNCHANGED <<now, left, wait, trigger, scope, plan, events, cyclesLeft, stop, changed, heard>>

Poll == Shutdown \/ BatchArrives \/ EventsEnd \/ TimerFires \/ Park

-----------------------------------------------------------------------------
(* One cycle *)

Rest(at) == pc' = at /\ scope' = Nothing /\ plan' = {}

(* The tables with work among those the cycle covers; one that cannot be     *)
(* read is left out.                                                         *)
PlanTables(readable) ==
    /\ pc = "planning"
    /\ pc' = "planned"
    /\ plan' = changed \cap scope.tables \cap readable
    /\ UNCHANGED <<stream, now, left, wait, trigger, scope, events, cyclesLeft, stop, changed, heard>>

(* A catalog that cannot be listed ends the cycle with an error. *)
PlanFails ==
    /\ pc = "planning"
    /\ Rest("top")
    /\ UNCHANGED <<stream, now, left, wait, trigger, events, cyclesLeft, stop, changed, heard>>

(* The window governs when work begins, and is asked after planning.  Of a   *)
(* table whose operation fails or conflicts the work is left.                *)
RunPlan(done) ==
    /\ pc = "planned"
    /\ OpenAt(now)
    /\ pc' = "running"
    /\ changed' = changed \ done
    /\ UNCHANGED <<stream, now, left, wait, trigger, scope, plan, events, cyclesLeft, stop, heard>>

Defer ==
    /\ pc = "planned"
    /\ ~OpenAt(now)
    /\ Rest("top")
    /\ UNCHANGED <<stream, now, left, wait, trigger, events, cyclesLeft, stop, changed, heard>>

Finish ==
    /\ pc = "running"
    /\ Rest("top")
    /\ UNCHANGED <<stream, now, left, wait, trigger, events, cyclesLeft, stop, changed, heard>>

Cycle ==
    \/ \E readable \in SUBSET Tables : PlanTables(readable)
    \/ PlanFails
    \/ \E done \in SUBSET plan : RunPlan(done)
    \/ Defer
    \/ Finish

-----------------------------------------------------------------------------
(* The world around it *)

Change(t) ==
    /\ t \notin changed
    /\ changed' = changed \cup {t}
    /\ UNCHANGED <<stream, now, daemon, stop, heard>>

Notified(t) ==
    /\ pc # "stopped"
    /\ Notify(t)
    /\ heard' = heard \cup {t}
    /\ UNCHANGED <<now, daemon, stop, changed>>

SendersLeave == HangUp /\ UNCHANGED <<now, daemon, stop, changed, heard>>

AskToStop ==
    /\ ~stop
    /\ stop' = TRUE
    /\ UNCHANGED <<stream, now, daemon, changed, heard>>

(* Time passes, though not past something a waiting task is due to notice.   *)
(* The time planning takes passes before its result is fixed.                *)
Woken == stop \/ wait = 0 \/ (events /\ StreamWakes)

Tick ==
    /\ pc \in {"parked", "planning", "running"}
    /\ pc = "parked" => ~Woken
    /\ now' = (now + 1) % Day
    /\ left' = IF left = 0 THEN 0 ELSE left - 1
    /\ wait' = IF wait = 0 THEN 0 ELSE wait - 1
    /\ StreamTick
    /\ UNCHANGED <<trigger, pc, scope, plan, events, cyclesLeft, stop, changed, heard>>

Next ==
    \/ Settle
    \/ Poll
    \/ Cycle
    \/ \E t \in Tables : Change(t)
    \/ \E t \in Observed : Notified(t)
    \/ SendersLeave
    \/ AskToStop
    \/ Tick

Spec == Init /\ [][Next]_vars

(* A cycle does not outlast the window every time it meets it, and not every *)
(* sweep fails to read its tables or to do what it planned.                  *)
InWindow(step) == OpenAt(now) /\ step

Sweeping == scope.kind = "everything"

FairSpec ==
    /\ Spec
    /\ WF_vars(Settle \/ Poll \/ Cycle)
    /\ SF_vars(Tick)
    /\ SF_vars(InWindow(pc = "planning" /\ Cycle))
    /\ SF_vars(InWindow(Finish))
    /\ SF_vars(InWindow(Sweeping /\ PlanTables(Tables)))
    /\ SF_vars(InWindow(Sweeping /\ changed \subseteq plan /\ RunPlan(plan)))

-----------------------------------------------------------------------------
(* Properties *)

(* A notification that was accepted is in the queue or in the window until   *)
(* a cycle is started for it: neither a timer that wins the select in the    *)
(* middle of a window, nor senders that leave, lose it.                      *)
NotificationsKept == heard \subseteq Queued \cup pending

(* The daemon ends only when it was asked to or has run its cycles: neither  *)
(* a failed plan nor the loss of the event source ends it.                   *)
StopsForAReason == pc = "stopped" => stop \/ cyclesLeft = 0

(* However many notifications follow it, one that was accepted leads to a    *)
(* cycle over its table: a window closes at the time set when it opened.     *)
NotificationsActedOn == \A t \in Observed : t \in heard ~> (t \notin heard \/ pc = "stopped")

(* However many notifications and schedules wake the daemon, its own         *)
(* interval comes round again and again.                                     *)
SweepsRecur == (<>(pc = "stopped")) \/ []<>(scope.kind = "everything")

(* A table with work is maintained in the end, though the notification was   *)
(* dropped or its cycle failed, and though work starts only in the window.   *)
ChangesAreMaintained ==
    \A t \in Tables : t \in changed ~> (t \notin changed \/ pc = "stopped")

(* A shutdown is noticed, whatever else is ready. *)
ShutdownIsAnswered == stop ~> (pc = "stopped")

(* A rule is evaluated when its schedule says so: a timer that fires at an   *)
(* occurrence of a schedule covers that rule's tables.                       *)
ScheduledRulesAreEvaluated ==
    [][ (pc \in {"first", "parked"} /\ pc' = "planning" /\ scope'.kind # "tables")
          => \A i \in DOMAIN Schedules : now \in Schedules[i].at => Schedules[i].tables \subseteq scope'.tables ]_vars
=============================================================================
