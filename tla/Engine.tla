------------------------------- MODULE Engine -------------------------------
(***************************************************************************)
(* One maintenance cycle after another (engine.rs): plan every table,      *)
(* apply the byte budget, then maintain a bounded number of tables at      *)
(* once, each table's operations strictly in order, each operation behind  *)
(* an approval and inside a timeout that may drop it at any await.  The    *)
(* commits of all tables share one token source and one catalog.           *)
(***************************************************************************)
EXTENDS RestCommit, Sequences, FiniteSets, SequencesExt

CONSTANTS
    Surveys,            \* what each planning may find: per table its due operations, cost and score
    Budget,             \* max_rewrite_bytes_per_run
    Requests,           \* sets of operation kinds one run may be restricted to
    MaxParallel,        \* max_parallel_tables
    MaxCommitAttempts,  \* attempts of an operation that loses its compare-and-swap
    ScanInterval,       \* the least time between two orphan scans of one table
    MaxCycles, MaxClock, MaxForeground  \* bounds

VARIABLES
    phase,     \* idle, planned or running
    cycle,     \* how many cycles have begun
    wanted,    \* what planning found each table to need, before the budget
    plan,      \* the plan: tables, their operations, what is deferred
    work,      \* each table's place in the run
    report,    \* the outcomes of the run so far, and what it deferred
    ledger,    \* when each table's last orphan scan was started, if ever
    foreground \* how often other writers have committed

runVars == <<phase, cycle, wanted, plan, work, report>>
vars == <<tokenVars, restVars, runVars, ledger, foreground>>

Kinds == {"compact", "manifests", "expire", "orphans"}
Results == {"succeeded", "noop", "refused", "conflicted", "failed"}

ASSUME EngineAssumption ==
    /\ MaxCycles \in Nat
    /\ MaxCommitAttempts \in Nat \ {0}
    /\ \A c \in 1 .. MaxCycles : \A survey \in Surveys[c] : \A t \in Tasks : survey[t].due \subseteq Kinds

(* A table has at most one operation of a kind, and the kinds have an order. *)
OperationOrder == <<"compact", "manifests", "expire", "orphans">>
FirstOf(operations) ==
    OperationOrder[CHOOSE i \in DOMAIN OperationOrder :
        /\ OperationOrder[i] \in operations
        /\ \A j \in 1 .. i - 1 : OperationOrder[j] \notin operations]

NoPlan == [tables |-> {}, operations |-> [t \in Tasks |-> {}], deferred |-> {}]
NoReport == [outcomes |-> [t \in Tasks |-> <<>>], deferred |-> {}]
Unstarted == [pc |-> "unstarted", left |-> {}, attempt |-> 1, base |-> 0]

Init ==
    /\ TokenInit /\ RestInit
    /\ phase = "idle" /\ cycle = 0
    /\ wanted = [t \in Tasks |-> {}]
    /\ plan = NoPlan /\ report = NoReport
    /\ work = [t \in Tasks |-> Unstarted]
    /\ ledger = [t \in Tasks |-> Never]
    /\ foreground = 0

-----------------------------------------------------------------------------
(* Planning *)

ScanDue(t) == IF ledger[t] = Never THEN TRUE ELSE now - ledger[t] >= ScanInterval

Due(t, survey) == {k \in survey[t].due : k = "orphans" => ScanDue(t)}

MostFragmented(survey, s, t) == survey[s].score > survey[t].score

(* The sort is stable, and tables come sorted by name. *)
BudgetOrder(survey) ==
    SetToSortSeq(Tasks, LAMBDA s, t :
        MostFragmented(survey, s, t) \/ (~MostFragmented(survey, t, s) /\ s < t))

(* The rewrites the budget pays for, in the order given. *)
Affordable(rewrites, survey) ==
    FoldLeft(LAMBDA bought, t :
                IF bought.spent + survey[t].cost <= Budget
                THEN [spent |-> bought.spent + survey[t].cost, of |-> bought.of \cup {t}]
                ELSE bought,
             [spent |-> 0, of |-> {}],
             SelectSeq(BudgetOrder(survey), LAMBDA t : t \in rewrites)).of

(* Mutant: a table whose only operation is deferred leaves the plan. *)
WithOperations(operations, deferred) == {t \in Tasks : operations[t] # {}}

(* A deferral is a note, and a table with a note stays. *)
Kept(operations, deferred) == {t \in Tasks : operations[t] # {} \/ t \in deferred}

PlanFor(found, survey) ==
    LET rewrites == {t \in Tasks : "compact" \in found[t]}
        deferred == rewrites \ Affordable(rewrites, survey)
        operations == [t \in Tasks |-> {k \in found[t] : k = "compact" => t \notin deferred}]
    IN [tables |-> Kept(operations, deferred), operations |-> operations, deferred |-> deferred]

(* Every table is discovered and examined; one that is unmatched, unreadable *)
(* or healthy needs nothing.                                                 *)
Plan ==
    /\ phase = "idle" /\ cycle < MaxCycles
    /\ \E survey \in Surveys[cycle + 1] :
        /\ wanted' = [t \in Tasks |-> Due(t, survey)]
        /\ plan' = PlanFor(wanted', survey)
    /\ phase' = "planned" /\ cycle' = cycle + 1
    /\ report' = NoReport
    /\ UNCHANGED <<tokenVars, restVars, work, ledger, foreground>>

(* A namespace that cannot be listed fails the whole plan. *)
DiscoveryFailed ==
    /\ phase = "idle" /\ cycle < MaxCycles
    /\ cycle' = cycle + 1
    /\ plan' = NoPlan /\ report' = NoReport
    /\ wanted' = [t \in Tasks |-> {}]
    /\ UNCHANGED <<tokenVars, restVars, phase, work, ledger, foreground>>

(* --only: the other operations are dropped, whatever carries a note is kept. *)
Only(kinds) ==
    LET operations == [t \in Tasks |-> plan.operations[t] \cap kinds]
    IN [plan EXCEPT !.operations = operations, !.tables = plan.tables \cap Kept(operations, plan.deferred)]

(* The window decides whether work begins, not whether it may finish. *)
Run ==
    /\ phase = "planned"
    /\ \E kinds \in Requests :
        /\ plan' = Only(kinds)
        /\ wanted' = [t \in Tasks |-> wanted[t] \cap kinds]
    /\ \/ phase' = "running" /\ report' = [report EXCEPT !.deferred = plan.deferred]
       \/ phase' = "idle" /\ report' = [report EXCEPT !.deferred = plan'.tables]
    /\ UNCHANGED <<tokenVars, restVars, cycle, work, ledger, foreground>>

-----------------------------------------------------------------------------
(* Maintaining one table *)

Running(t) == work[t].pc \notin {"unstarted", "done"}
Kind(t) == FirstOf(work[t].left)
PlaceWith(left) == IF left = {} THEN "done" ELSE "next"

(* The table is loaded once, for all its operations. *)
StartTable(t) ==
    /\ phase = "running" /\ t \in plan.tables /\ work[t].pc = "unstarted"
    /\ Cardinality({s \in Tasks : Running(s)}) < MaxParallel
    /\ LET due == plan.operations[t]
       IN work' = [work EXCEPT ![t].pc = PlaceWith(due), ![t].left = due, ![t].base = branch[t].moves]
    /\ UNCHANGED <<tokenVars, restVars, phase, cycle, wanted, plan, report, ledger, foreground>>

(* A table that cannot be loaded fails as its first operation. *)
LoadFailed(t) ==
    /\ phase = "running" /\ t \in plan.tables /\ work[t].pc = "unstarted"
    /\ Cardinality({s \in Tasks : Running(s)}) < MaxParallel
    /\ LET first == IF plan.operations[t] = {} THEN "expire" ELSE FirstOf(plan.operations[t])
       IN report' = [report EXCEPT !.outcomes[t] = <<[kind |-> first, result |-> "failed", moves |-> 0]>>]
    /\ work' = [work EXCEPT ![t].pc = "done"]
    /\ UNCHANGED <<tokenVars, restVars, phase, cycle, wanted, plan, ledger, foreground>>

(* The operation's outcome is reported and the next operation is due.  For a *)
(* conflict, also how far the table has moved since it was loaded.           *)
Report(t, result) ==
    /\ LET moves == IF result = "conflicted" THEN branch[t].moves - work[t].base ELSE 0
       IN report' = [report EXCEPT !.outcomes[t] =
                        Append(@, [kind |-> Kind(t), result |-> result, moves |-> moves])]
    /\ LET left == work[t].left \ {Kind(t)}
       IN work' = [work EXCEPT ![t].pc = PlaceWith(left), ![t].left = left, ![t].attempt = 1]
    /\ UNCHANGED <<phase, cycle, wanted, plan>>

HasNext(t) == work[t].pc = "next"

(* The observer declines the operation; the next one is asked for in turn. *)
Vetoed(t) ==
    /\ HasNext(t)
    /\ Report(t, "refused")
    /\ UNCHANGED <<tokenVars, restVars, ledger, foreground>>

LedgerAtStart(t, result) == [ledger EXCEPT ![t] = now]

(* An orphan scan lists the table's location; Reclaim has what it deletes. *)
ScanOrphans(t) ==
    /\ HasNext(t) /\ Kind(t) = "orphans"
    /\ \E result \in {"succeeded", "failed"} :
        /\ Report(t, result)
        /\ ledger' = LedgerAtStart(t, result)
    /\ UNCHANGED <<tokenVars, restVars, foreground>>

(* Expiration commits through the catalog client and moves no branch. *)
Expire(t) ==
    /\ HasNext(t) /\ Kind(t) = "expire"
    /\ \E result \in {"succeeded", "conflicted", "failed"} : Report(t, result)
    /\ UNCHANGED <<tokenVars, restVars, ledger, foreground>>

Committing(t) == work[t].pc = "committing"
CommitId(t) == [cycle |-> cycle, kind |-> Kind(t), attempt |-> work[t].attempt]

(* The first attempt of a rewrite is built on the table as the run loaded it. *)
Attempt(t) ==
    /\ HasNext(t) /\ Kind(t) \in {"compact", "manifests"}
    /\ StartCommit(t, CommitId(t), work[t].base)
    /\ work' = [work EXCEPT ![t].pc = "committing"]
    /\ UNCHANGED <<phase, cycle, wanted, plan, report, ledger, foreground>>

(* It may find nothing to rewrite, or fail before it commits. *)
NothingSent(t) ==
    /\ HasNext(t) /\ Kind(t) \in {"compact", "manifests"}
    /\ \E result \in {"noop", "failed"} : Report(t, result)
    /\ UNCHANGED <<tokenVars, restVars, ledger, foreground>>

CommitStep(t) ==
    /\ Committing(t)
    /\ (TokenStep(t) /\ UNCHANGED restVars) \/ CommitRequest(t)
    /\ UNCHANGED <<runVars, ledger, foreground>>

(* Mutant: the operation is attempted again on the table it had. *)
SameTable(t) == commit[t].base
Reloaded(t) == branch[t].moves

AttemptsLeft(t) == work[t].attempt < MaxCommitAttempts

(* A lost compare-and-swap: attempt again on the table as it is now. *)
AttemptAgain(t) ==
    /\ Committing(t) /\ commit[t].pc = "conflicted"
    /\ AttemptsLeft(t)
    /\ work' = [work EXCEPT ![t].attempt = @ + 1]
    /\ StartCommit(t, [CommitId(t) EXCEPT !.attempt = @ + 1], Reloaded(t))
    /\ UNCHANGED <<phase, cycle, wanted, plan, report, ledger, foreground>>

(* The retry cannot read the table, or finds there is nothing left to do. *)
RetryGivesUp(t) ==
    /\ Committing(t) /\ commit[t].pc = "conflicted"
    /\ AttemptsLeft(t)
    /\ \E result \in {"noop", "failed"} : Report(t, result)
    /\ commit' = [commit EXCEPT ![t] = NoCommit]
    /\ UNCHANGED <<tokenVars, branch, late, ledger, foreground>>

Ended(t) ==
    /\ Committing(t)
    /\ commit[t].pc \in {"succeeded", "refused", "failed", "conflicted"}
    /\ commit[t].pc = "conflicted" => ~AttemptsLeft(t)
    /\ Report(t, commit[t].pc)
    /\ commit' = [commit EXCEPT ![t] = NoCommit]
    /\ UNCHANGED <<tokenVars, branch, late, ledger, foreground>>

(* operation_timeout: the operation is dropped wherever it waits. *)
TimedOut(t) ==
    /\ Committing(t) /\ commit[t].pc \in {"committing", "waiting"}
    /\ Abandon(t)
    /\ Report(t, "failed")
    /\ UNCHANGED <<ledger, foreground>>

EndRun ==
    /\ phase = "running"
    /\ \A t \in plan.tables : work[t].pc = "done"
    /\ phase' = "idle"
    /\ work' = [t \in Tasks |-> Unstarted]
    /\ UNCHANGED <<tokenVars, restVars, cycle, wanted, plan, report, ledger, foreground>>

-----------------------------------------------------------------------------
(* The rest of the world *)

LateArrival ==
    /\ \E r \in late : Arrives(r)
    /\ UNCHANGED <<runVars, ledger, foreground>>

Foreground(t) ==
    /\ foreground < MaxForeground
    /\ foreground' = foreground + 1
    /\ Move(t, branch[t].last)
    /\ UNCHANGED <<tokenVars, commit, runVars, ledger>>

Tick ==
    /\ now < MaxClock /\ TimelyRequests
    /\ now' = now + 1
    /\ UNCHANGED <<credential, slot, holder, client, restVars, runVars, ledger, foreground>>

TableStep(t) ==
    \/ StartTable(t) \/ LoadFailed(t)
    \/ Vetoed(t) \/ ScanOrphans(t) \/ Expire(t)
    \/ Attempt(t) \/ NothingSent(t) \/ CommitStep(t)
    \/ AttemptAgain(t) \/ RetryGivesUp(t) \/ Ended(t) \/ TimedOut(t)

Next ==
    \/ Plan \/ DiscoveryFailed \/ Run \/ EndRun
    \/ \E t \in Tasks : TableStep(t) \/ Foreground(t)
    \/ LateArrival \/ Tick

(* A run that has begun is carried on: its tables are polled, its requests   *)
(* are answered or time out, and it ends when they are done.                 *)
Fairness == WF_vars(EndRun) /\ \A t \in Tasks : WF_vars(TableStep(t))

Spec == Init /\ [][Next]_vars /\ Fairness

-----------------------------------------------------------------------------
(* Properties *)

Place(k) == CHOOSE i \in 1..4 : <<"compact", "manifests", "expire", "orphans">>[i] = k

Earlier(a, b) ==
    IF a = NoId THEN TRUE
    ELSE \/ a.cycle < b.cycle
         \/ a.cycle = b.cycle /\ Place(a.kind) < Place(b.kind)
         \/ a.cycle = b.cycle /\ a.kind = b.kind /\ a.attempt < b.attempt

(* Commits are applied in the order their operations ran, and each once:     *)
(* neither a request that arrives after its operation was dropped, nor one   *)
(* that was sent again after an answer that lied, lands behind a later one.  *)
AppliedInOrder ==
    [][\A t \in Tasks : branch'[t] # branch[t] /\ foreground' = foreground
            => Earlier(branch[t].last, branch'[t].last)]_vars

Mentioned(t, k) == \E i \in DOMAIN report.outcomes[t] : report.outcomes[t][i].kind = k

LoadFailureOnly(t) == Len(report.outcomes[t]) = 1 /\ report.outcomes[t][1].result = "failed"

(* Whatever planning found to do is in the report: as an outcome, as part of *)
(* a table that could not be loaded, or as a deferred table, whether it was  *)
(* the budget or the window that deferred it.                                *)
NothingDropped ==
    phase = "idle" => \A t \in Tasks :
        wanted[t] = {} \/ t \in report.deferred \/ LoadFailureOnly(t)
            \/ \A k \in wanted[t] : Mentioned(t, k)

(* An operation is reported as conflicted when every one of its attempts was *)
(* built on a table that had moved by the time it was committed.             *)
ConflictsAreReal ==
    \A t \in Tasks : \A i \in DOMAIN report.outcomes[t] :
        report.outcomes[t][i].result = "conflicted" /\ report.outcomes[t][i].kind # "expire"
            => report.outcomes[t][i].moves >= MaxCommitAttempts

(* A run that has begun ends: no refused exchange, no catalog that stays     *)
(* busy, no dropped operation keeps the other tables waiting.                *)
RunsEnd == phase = "running" ~> phase = "idle"
=============================================================================
