------------------------------ MODULE EngineProofs ------------------------------
(***************************************************************************)
(* What the engine promises for any number of tables, cycles, attempts and *)
(* re-sends, whatever is throttled, lost, late, refused or dropped: the    *)
(* token is renewed once for all, commits are applied in the order of the  *)
(* operations they belong to, conflicts are real, and nothing that was     *)
(* planned goes unreported.                                                *)
(***************************************************************************)
EXTENDS Engine, SequenceTheorems, FiniteSetTheorems, TLAPS

-----------------------------------------------------------------------------
(* Types *)

Times == Nat \cup {Never}
Token == [fetched : Int, renewAt : Times, expires : Times]
Client == [pc : {"idle", "asking", "queued", "exchanging", "armed", "failed"}, token : Token, since : Nat]

CommitIds == [cycle : Nat, kind : Kinds, attempt : Nat]
Ids == CommitIds \cup {NoId}
Outcomes == {"succeeded", "refused", "failed", "conflicted"}
Commit == [pc : {"none", "committing", "waiting"} \cup Outcomes, id : Ids, base : Nat, sends : Nat]
Late == [task : Tasks, id : Ids, base : Nat]

Work == [pc : {"unstarted", "next", "committing", "done"}, left : SUBSET Kinds,
         attempt : 1 .. MaxCommitAttempts, base : Nat]
Planned == [tables : SUBSET Tasks, operations : [Tasks -> SUBSET Kinds], deferred : SUBSET Tasks]
Outcome == [kind : Kinds, result : Results, moves : Int]
Reports == [outcomes : [Tasks -> Seq(Outcome)], deferred : SUBSET Tasks]

TokenTypeOK ==
    /\ now \in Nat
    /\ credential \in Credentials
    /\ slot \in Token
    /\ holder \in Tasks \cup {NoOne}
    /\ client \in [Tasks -> Client]

RestTypeOK ==
    /\ branch \in [Tasks -> [moves : Nat, last : Ids]]
    /\ commit \in [Tasks -> Commit]
    /\ late \subseteq Late

RunTypeOK ==
    /\ phase \in {"idle", "planned", "running"}
    /\ cycle \in 0 .. MaxCycles
    /\ wanted \in [Tasks -> SUBSET Kinds]
    /\ plan \in Planned
    /\ work \in [Tasks -> Work]
    /\ \A t \in Tasks : work[t].pc \in {"next", "committing"} => work[t].left # {}
    /\ report \in Reports

TypeOK == TokenTypeOK /\ RestTypeOK /\ RunTypeOK

-----------------------------------------------------------------------------
(* The inductive invariants *)

(* Tables are maintained while a run is under way, commit only while they  *)
(* are at an operation that commits, and begin each operation afresh.       *)
RunOK ==
    /\ foreground \in Nat
    /\ phase # "running" => \A t \in Tasks : work[t].pc = "unstarted"
    /\ \A t \in Tasks : work[t].pc # "unstarted" => t \in plan.tables
    /\ \A t \in Tasks : commit[t].pc # "none" => work[t].pc = "committing"
    /\ \A t \in Tasks : work[t].pc \in {"unstarted", "next"} => work[t].attempt = 1

(* A token lasts a request longer than it is handed out, and a request is   *)
(* no older than it may get.                                                *)
Lasts(token) == (token.renewAt = Never \/ token.expires = Never)
    => token.renewAt = Never /\ token.expires = Never
Outlasts(token) == token.renewAt \in Nat /\ token.renewAt # 0 => token.expires >= token.renewAt + MaxRequestTime

TokensOK ==
    /\ Lasts(slot) /\ Outlasts(slot)
    /\ \A t \in Tasks : client[t].pc = "armed" =>
        /\ client[t].token.expires # Never => client[t].since + MaxRequestTime < client[t].token.expires
        /\ now <= client[t].since + MaxRequestTime

(* A commit of task t was asked for no later than what t is doing now.      *)
Asked(id, t) ==
    /\ id.cycle <= cycle
    /\ id.cycle = cycle =>
        /\ phase # "planned"
        /\ phase = "running" =>
            /\ work[t].pc # "unstarted"
            /\ \A k \in work[t].left :
                \/ Place(id.kind) < Place(k)
                \/ work[t].pc = "committing" /\ id.kind = k /\ k = Kind(t) /\ id.attempt <= work[t].attempt

Live(t) == commit[t].pc \in {"committing", "waiting"}

OrderOK ==
    /\ \A t \in Tasks : branch[t].last # NoId => Asked(branch[t].last, t)
    /\ \A r \in late :
        /\ r.id \in CommitIds /\ Asked(r.id, r.task)
        /\ Holds(r) /\ Earlier(branch[r.task].last, r.id)
    /\ \A t \in Tasks : Live(t) =>
        /\ commit[t].id = CommitId(t)
        /\ Holds(Request(t)) => Earlier(branch[t].last, commit[t].id)

(* How far a table has moved since it was loaded.                           *)
ConflictsOK ==
    /\ \A t \in Tasks : work[t].pc \in {"next", "committing"} => work[t].base <= branch[t].moves
    /\ \A t \in Tasks : Live(t) =>
        /\ commit[t].base >= work[t].base + work[t].attempt - 1 /\ commit[t].base <= branch[t].moves
    /\ \A t \in Tasks : commit[t].pc = "conflicted" => branch[t].moves >= work[t].base + work[t].attempt

(* What was wanted is planned or deferred, and what was planned is left or  *)
(* reported.                                                                *)
Accounted(t) == LoadFailureOnly(t) \/ \A k \in plan.operations[t] : Mentioned(t, k)

PlanOK ==
    /\ phase # "idle" => \A t \in Tasks : wanted[t] # {} =>
        /\ t \in plan.tables
        /\ t \in plan.deferred \/ wanted[t] \subseteq plan.operations[t]
    /\ phase = "running" => report.deferred = plan.deferred
    /\ phase = "running" => \A t \in Tasks :
        /\ work[t].pc \in {"next", "committing"} => \A k \in plan.operations[t] \ work[t].left : Mentioned(t, k)
        /\ work[t].pc = "done" => Accounted(t)
        /\ work[t].pc = "unstarted" => report.outcomes[t] = <<>>
    /\ phase = "planned" => \A t \in Tasks : report.outcomes[t] = <<>>
    /\ NothingDropped

-----------------------------------------------------------------------------
(* The order of the operations *)

LEMMA Places ==
    /\ Place("compact") = 1 /\ Place("manifests") = 2
    /\ Place("expire") = 3 /\ Place("orphans") = 4
<1> DEFINE order == <<"compact", "manifests", "expire", "orphans">>
<1>1. \A i \in 1 .. 4 : order[i] \in {"compact", "manifests", "expire", "orphans"}
  OBVIOUS
<1>2. /\ \A i \in 1 .. 4 : order[i] = "compact" <=> i = 1
      /\ \A i \in 1 .. 4 : order[i] = "manifests" <=> i = 2
      /\ \A i \in 1 .. 4 : order[i] = "expire" <=> i = 3
      /\ \A i \in 1 .. 4 : order[i] = "orphans" <=> i = 4
  OBVIOUS
<1> QED
  BY <1>2 DEF Place

(* The operation that comes next is one that is left, and no later than the *)
(* others.                                                                  *)
LEMMA FirstIsFirst ==
    ASSUME NEW S \in SUBSET Kinds, S # {}
    PROVE  FirstOf(S) \in S /\ \A k \in S : k = FirstOf(S) \/ Place(FirstOf(S)) < Place(k)
<1> DEFINE first(i) == i \in 1 .. 4 /\ OperationOrder[i] \in S /\ \A j \in 1 .. i - 1 : OperationOrder[j] \notin S
           i == CHOOSE i \in DOMAIN OperationOrder :
                    OperationOrder[i] \in S /\ \A j \in 1 .. i - 1 : OperationOrder[j] \notin S
<1>1. /\ DOMAIN OperationOrder = 1 .. 4
      /\ OperationOrder[1] = "compact" /\ OperationOrder[2] = "manifests"
      /\ OperationOrder[3] = "expire" /\ OperationOrder[4] = "orphans"
  BY DEF OperationOrder
<1>2. \E n \in 1 .. 4 : first(n)
  <2>1. CASE "compact" \in S
    <3>1. first(1)
      BY <1>1, <2>1
    <3> QED
      BY <3>1
  <2>2. CASE "compact" \notin S /\ "manifests" \in S
    <3>1. first(2)
      BY <1>1, <2>2
    <3> QED
      BY <3>1
  <2>3. CASE "compact" \notin S /\ "manifests" \notin S /\ "expire" \in S
    <3>1. \A j \in 1 .. 2 : j = 1 \/ j = 2
      OBVIOUS
    <3>2. first(3)
      BY <1>1, <2>3, <3>1
    <3> QED
      BY <3>2
  <2>4. CASE "compact" \notin S /\ "manifests" \notin S /\ "expire" \notin S
    <3>1. \A j \in 1 .. 3 : j = 1 \/ j = 2 \/ j = 3
      OBVIOUS
    <3>2. "orphans" \in S
      BY <2>4 DEF Kinds
    <3>3. first(4)
      BY <1>1, <2>4, <3>1, <3>2
    <3> QED
      BY <3>3
  <2> QED
    BY <2>1, <2>2, <2>3, <2>4
<1>3. first(i)
  BY <1>1, <1>2
<1>4. FirstOf(S) = OperationOrder[i]
  BY DEF FirstOf
<1> HIDE DEF i
<1>5. \A k \in S : k = OperationOrder[i] \/ Place(OperationOrder[i]) < Place(k)
  BY <1>1, <1>3, Places DEF Kinds
<1> QED
  BY <1>3, <1>4, <1>5

-----------------------------------------------------------------------------
(* Types are kept *)

LEMMA TokenSteps ==
    ASSUME TokenTypeOK, NEW t \in Tasks
    PROVE  /\ TokenStep(t) => TokenTypeOK'
           /\ EndCall(t) => TokenTypeOK'
           /\ \A id, base : StartCommit(t, id, base) => TokenTypeOK'
<1> USE DEF TokenTypeOK
<1>1. \A n \in Nat : n - Margin \in Int /\ (n >= Margin => n - Margin \in Nat) /\ n \div 2 \in Nat
  BY TokenSourceAssumption DEF TokenSourceAssumption
<1>2. \A l \in Lifetimes : Fetched(l) \in Token
  <2> SUFFICES ASSUME NEW l \in Lifetimes PROVE Fetched(l) \in Token
    OBVIOUS
  <2>1. CASE l = Never
    BY <2>1 DEF Fetched, Unexpiring, Token, Times
  <2>2. CASE l # Never
    <3>1. l \in Nat
      BY <2>2, TokenSourceAssumption DEF TokenSourceAssumption
    <3>2. RenewAhead(l) \in Nat
      BY <1>1, <3>1, TokenSourceAssumption DEF RenewAhead, TokenSourceAssumption
    <3> QED
      BY <2>2, <3>1, <3>2 DEF Fetched, Token, Times
  <2> QED
    BY <2>1, <2>2
<1>3. \A token \in Token : Present(t, token) => client' \in [Tasks -> Client]
  BY DEF Present, Client
<1>4. \A pc \in {"idle", "asking", "queued", "exchanging", "armed", "failed"} :
        At(t, pc) => client' \in [Tasks -> Client]
  BY DEF At, Client
<1>5. TokenStep(t) => TokenTypeOK'
  <2>1. Supplied(t) => TokenTypeOK'
    <3>1. Unexpiring \in Token
      BY DEF Unexpiring, Token, Times
    <3> QED
      BY <1>3, <3>1 DEF Supplied
  <2>2. ReadCached(t) => TokenTypeOK'
    BY <1>3, <1>4 DEF ReadCached
  <2>3. Lock(t) => TokenTypeOK'
    BY <1>3, <1>4 DEF Lock
  <2>4. Exchanged(t) => TokenTypeOK'
    BY <1>2, <1>3 DEF Exchanged
  <2>5. ExchangeFailed(t) => TokenTypeOK'
    BY <1>4 DEF ExchangeFailed
  <2> QED
    BY <2>1, <2>2, <2>3, <2>4, <2>5 DEF TokenStep
<1>6. EndCall(t) => TokenTypeOK'
  <2>1. Idle \in Client
    BY DEF Idle, NoToken, Client, Token, Times
  <2> QED
    BY <2>1 DEF EndCall, LockAfter
<1>7. ASSUME NEW id, NEW base, StartCommit(t, id, base) PROVE TokenTypeOK'
  BY <1>4, <1>7 DEF StartCommit
<1> QED
  BY <1>5, <1>6, <1>7

LEMMA KindIsLeft ==
    ASSUME RunTypeOK, NEW t \in Tasks, work[t].pc \in {"next", "committing"}
    PROVE  /\ Kind(t) \in work[t].left /\ Kind(t) \in Kinds /\ CommitId(t) \in CommitIds
           /\ \A k \in work[t].left : k = Kind(t) \/ Place(Kind(t)) < Place(k)
<1>1. work[t] \in Work /\ work[t].left # {} /\ cycle \in Nat
  BY EngineAssumption DEF RunTypeOK
<1>2. work[t].left \in SUBSET Kinds /\ work[t].attempt \in Nat
  BY <1>1, EngineAssumption DEF Work
<1>3. /\ Kind(t) \in work[t].left
      /\ \A k \in work[t].left : k = Kind(t) \/ Place(Kind(t)) < Place(k)
  BY <1>1, <1>2, FirstIsFirst DEF Kind
<1> QED
  BY <1>1, <1>2, <1>3 DEF CommitId, CommitIds

LEMMA RestSteps ==
    ASSUME RestTypeOK, NEW t \in Tasks
    PROVE  /\ CommitRequest(t) => RestTypeOK'
           /\ Abandon(t) => RestTypeOK'
           /\ \A id \in Ids, base \in Nat : StartCommit(t, id, base) => RestTypeOK'
           /\ \A id \in Ids : Move(t, id) => branch' \in [Tasks -> [moves : Nat, last : Ids]] /\ late' \subseteq Late
<1> USE DEF RestTypeOK
<1>1. ASSUME NEW id \in Ids, Move(t, id)
      PROVE  branch' \in [Tasks -> [moves : Nat, last : Ids]] /\ late' \subseteq Late
  BY <1>1 DEF Move
<1>2. commit[t] \in Commit /\ commit[t].id \in Ids /\ commit[t].base \in Nat /\ commit[t].sends \in Nat
  BY DEF Commit
<1>3. StillComing(t) \subseteq Late
  BY <1>2 DEF StillComing, Request, Late
<1>4. \A result \in Outcomes : End(t, result) => commit' \in [Tasks -> Commit]
  BY DEF End, NoCommit, Commit, Ids
<1>5. SendAgain(t) => commit' \in [Tasks -> Commit]
  BY <1>2 DEF SendAgain, SendsSoFar, Commit
<1>6. \A status : Classify(status) \in Outcomes
  BY DEF Classify, Outcomes
<1>7. CommitRequest(t) => RestTypeOK'
  <2>1. NoTokenToSend(t) => RestTypeOK'
    BY <1>4 DEF NoTokenToSend, Outcomes
  <2>2. Applied(t) => RestTypeOK'
    BY <1>1, <1>2, <1>4, <1>5 DEF Applied, Outcomes
  <2>3. Answered(t) => RestTypeOK'
    BY <1>4, <1>5, <1>6 DEF Answered
  <2>4. Unanswered(t) => RestTypeOK'
    BY <1>3, <1>4, <1>5 DEF Unanswered, Outcomes
  <2>5. Resend(t) => RestTypeOK'
    <3> DEFINE again == [commit[t] EXCEPT !.pc = "committing", !.base = ResentBase(t)]
    <3>1. again \in Commit
      BY <1>2 DEF ResentBase, Commit
    <3>2. Resend(t) => commit' = [commit EXCEPT ![t] = again] /\ UNCHANGED <<branch, late>>
      BY DEF Resend
    <3> QED
      BY <3>1, <3>2
  <2> QED
    BY <2>1, <2>2, <2>3, <2>4, <2>5 DEF CommitRequest
<1>8. Abandon(t) => RestTypeOK'
  BY <1>3 DEF Abandon, NoCommit, Commit, Ids
<1>9. ASSUME NEW id \in Ids, NEW base \in Nat, StartCommit(t, id, base) PROVE RestTypeOK'
  BY <1>9 DEF StartCommit, Commit
<1> QED
  BY <1>1, <1>7, <1>8, <1>9

LEMMA ReportSteps ==
    ASSUME TypeOK, NEW t \in Tasks, NEW result \in Results,
           work[t].pc \in {"next", "committing"}, Report(t, result)
    PROVE  /\ RunTypeOK'
           /\ work'[t].left = work[t].left \ {Kind(t)} /\ work'[t].attempt = 1
           /\ work'[t].base = work[t].base /\ work'[t].pc = PlaceWith(work'[t].left)
           /\ \A s \in Tasks \ {t} : work'[s] = work[s]
<1> DEFINE moves == IF result = "conflicted" THEN branch[t].moves - work[t].base ELSE 0
           outcome == [kind |-> Kind(t), result |-> result, moves |-> moves]
           left == work[t].left \ {Kind(t)}
           next == [work[t] EXCEPT !.pc = PlaceWith(left), !.left = left, !.attempt = 1]
<1> USE DEF TypeOK, RunTypeOK
<1>1. Kind(t) \in Kinds /\ work[t] \in Work /\ branch[t].moves \in Int /\ work[t].base \in Int
  BY KindIsLeft DEF RestTypeOK, Work
<1>2. outcome \in Outcome
  BY <1>1 DEF Outcome
<1>3. report.outcomes[t] \in Seq(Outcome) /\ report.outcomes \in [Tasks -> Seq(Outcome)]
  BY DEF Reports
<1>4. Append(report.outcomes[t], outcome) \in Seq(Outcome)
  BY <1>2, <1>3
<1>5. report' = [report EXCEPT !.outcomes = [report.outcomes EXCEPT ![t] = Append(report.outcomes[t], outcome)]]
  BY <1>3 DEF Report, Reports
<1>6. report' \in Reports
  BY <1>3, <1>4, <1>5 DEF Reports
<1>7. next \in Work /\ (next.pc \in {"next", "committing"} => next.left # {})
  <2>1. left \in SUBSET Kinds /\ 1 \in 1 .. MaxCommitAttempts
    BY <1>1, EngineAssumption DEF Work
  <2>2. PlaceWith(left) \in {"next", "done"} /\ (PlaceWith(left) = "next" => left # {})
    BY DEF PlaceWith
  <2> HIDE DEF left
  <2>3. PlaceWith(left) \in {"unstarted", "next", "committing", "done"}
    BY <2>2
  <2>4. work[t].base \in Nat
    BY <1>1 DEF Work
  <2>5. PICK w \in Work : w = work[t]
    BY <1>1
  <2>6. PICK p \in {"unstarted", "next", "committing", "done"} : p = PlaceWith(left)
    BY <2>3
  <2>7. next = [w EXCEPT !.pc = p, !.left = left, !.attempt = 1]
    BY <2>5, <2>6
  <2> HIDE DEF next
  <2>8. next \in Work /\ next.pc = p /\ next.left = left
    BY <2>1, <2>7 DEF Work
  <2> QED
    BY <2>2, <2>6, <2>8
<1>8. work' = [work EXCEPT ![t] = next]
  BY DEF Report
<1> HIDE DEF next
<1>9. /\ work' \in [Tasks -> Work] /\ work'[t] = next
      /\ \A s \in Tasks \ {t} : work'[s] = work[s]
  BY <1>7, <1>8
<1>10. \A s \in Tasks : work'[s].pc \in {"next", "committing"} => work'[s].left # {}
  BY <1>7, <1>9
<1>11. UNCHANGED <<phase, cycle, wanted, plan>>
  BY DEF Report
<1>12. /\ next.left = left /\ next.attempt = 1
       /\ next.base = work[t].base /\ next.pc = PlaceWith(left)
  BY <1>1 DEF next, Work
<1> QED
  BY <1>6, <1>9, <1>10, <1>11, <1>12

LEMMA PlanTypes ==
    ASSUME RunTypeOK
    PROVE  /\ Plan \/ DiscoveryFailed \/ Run => RunTypeOK'
           /\ Plan => /\ \A t \in Tasks : wanted'[t] # {} => t \in plan'.tables
                      /\ \A t \in Tasks \ plan'.deferred : wanted'[t] = plan'.operations[t]
<1> USE DEF RunTypeOK
<1>1. NoPlan \in Planned /\ NoReport \in Reports
  BY DEF NoPlan, Planned, NoReport, Reports
<1>2. ASSUME Plan
      PROVE  /\ RunTypeOK'
             /\ \A t \in Tasks : wanted'[t] # {} => t \in plan'.tables
             /\ \A t \in Tasks \ plan'.deferred : wanted'[t] = plan'.operations[t]
  <2>1. cycle + 1 \in 1 .. MaxCycles
    BY <1>2, EngineAssumption DEF Plan
  <2>2. PICK survey \in Surveys[cycle + 1] :
            wanted' = [t \in Tasks |-> Due(t, survey)] /\ plan' = PlanFor(wanted', survey)
    BY <1>2 DEF Plan
  <2>3. \A t \in Tasks : Due(t, survey) \subseteq Kinds
    BY <2>1, EngineAssumption DEF Due
  <2>4. wanted' \in [Tasks -> SUBSET Kinds]
    BY <2>2, <2>3
  <2> DEFINE rewrites == {t \in Tasks : "compact" \in wanted'[t]}
             deferred == rewrites \ Affordable(rewrites, survey)
             operations == [t \in Tasks |-> {k \in wanted'[t] : k = "compact" => t \notin deferred}]
  <2>5. plan' = [tables |-> Kept(operations, deferred), operations |-> operations, deferred |-> deferred]
    BY <2>2 DEF PlanFor
  <2>6. deferred \subseteq Tasks /\ operations \in [Tasks -> SUBSET Kinds]
    BY <2>4
  <2>7. \A t \in Tasks : operations[t] = {k \in wanted'[t] : k = "compact" => t \notin deferred}
    OBVIOUS
  <2>8. \A t \in Tasks \ deferred : operations[t] = wanted'[t]
    BY <2>7
  <2> HIDE DEF operations, deferred
  <2>9. plan' \in Planned /\ plan'.deferred = deferred /\ plan'.operations = operations
        /\ plan'.tables = {t \in Tasks : operations[t] # {} \/ t \in deferred}
    BY <2>5, <2>6 DEF Planned, Kept
  <2>10. UNCHANGED work /\ report' = NoReport /\ phase' = "planned" /\ cycle' = cycle + 1
    BY <1>2 DEF Plan
  <2>11. RunTypeOK'
    BY <1>1, <2>1, <2>4, <2>9, <2>10
  <2>12. \A t \in Tasks : wanted'[t] # {} => t \in plan'.tables
    BY <2>8, <2>9
  <2> QED
    BY <2>8, <2>9, <2>11, <2>12
<1>3. ASSUME DiscoveryFailed PROVE RunTypeOK'
  BY <1>1, <1>3, EngineAssumption DEF DiscoveryFailed
<1>4. ASSUME Run PROVE RunTypeOK'
  <2>1. PICK kinds \in Requests : plan' = Only(kinds) /\ wanted' = [t \in Tasks |-> wanted[t] \cap kinds]
    BY <1>4 DEF Run
  <2>2. Only(kinds) \in Planned
    BY DEF Only, Planned
  <2>3. wanted' \in [Tasks -> SUBSET Kinds]
    BY <2>1
  <2>4. plan.deferred \subseteq Tasks /\ plan'.tables \subseteq Tasks
    BY <2>1, <2>2 DEF Planned
  <2>5. report' \in Reports
    BY <1>4, <2>4 DEF Run, Reports
  <2>6. phase' \in {"idle", "running"} /\ UNCHANGED <<cycle, work>>
    BY <1>4 DEF Run
  <2> QED
    BY <2>1, <2>2, <2>3, <2>5, <2>6
<1> QED
  BY <1>2, <1>3, <1>4

(* The steps of a table's run, up to what its commit does with the token.   *)
LEMMA RunSteps ==
    ASSUME TypeOK, NEW t \in Tasks
    PROVE  /\ StartTable(t) \/ LoadFailed(t) => RunTypeOK'
           /\ Vetoed(t) \/ ScanOrphans(t) \/ Expire(t) \/ NothingSent(t) => RunTypeOK'
           /\ Attempt(t) \/ AttemptAgain(t) => RunTypeOK'
           /\ RetryGivesUp(t) \/ Ended(t) \/ TimedOut(t) => RunTypeOK'
<1> USE DEF TypeOK
<1>1. /\ work \in [Tasks -> Work] /\ plan \in Planned /\ report \in Reports
      /\ plan.operations[t] \in SUBSET Kinds /\ branch[t].moves \in Nat
      /\ \A s \in Tasks : work[s].pc \in {"next", "committing"} => work[s].left # {}
  BY DEF RunTypeOK, Planned, RestTypeOK
<1>2. ASSUME NEW w \in Work, w.pc \in {"next", "committing"} => w.left # {},
             work' = [work EXCEPT ![t] = w], report' \in Reports, UNCHANGED <<phase, cycle, wanted, plan>>
      PROVE  RunTypeOK'
  BY <1>2 DEF RunTypeOK
<1>3. ASSUME StartTable(t) PROVE RunTypeOK'
  <2> DEFINE due == plan.operations[t]
             w == [work[t] EXCEPT !.pc = PlaceWith(due), !.left = due, !.base = branch[t].moves]
  <2>1. PlaceWith(due) \in {"next", "done"} /\ (PlaceWith(due) = "next" => due # {})
    BY DEF PlaceWith
  <2>2. due \in SUBSET Kinds /\ work[t] \in Work
        /\ PlaceWith(due) \in {"unstarted", "next", "committing", "done"}
    BY <1>1, <2>1
  <2> HIDE DEF due
  <2>3. w \in Work /\ (w.pc \in {"next", "committing"} => w.left # {})
    <3>1. PICK old \in Work : old = work[t]
      BY <2>2
    <3>2. PICK p \in {"unstarted", "next", "committing", "done"} : p = PlaceWith(due)
      BY <2>2
    <3>3. PICK base \in Nat : base = branch[t].moves
      BY <1>1
    <3>4. w = [old EXCEPT !.pc = p, !.left = due, !.base = base]
      BY <3>1, <3>2, <3>3
    <3> HIDE DEF w
    <3>5. w \in Work /\ w.pc = p /\ w.left = due
      BY <2>2, <3>4 DEF Work
    <3> QED
      BY <2>1, <3>2, <3>5
  <2>4. /\ work' = [work EXCEPT ![t] = w] /\ UNCHANGED <<phase, cycle, wanted, plan, report>>
    BY <1>3 DEF StartTable, due
  <2> HIDE DEF w
  <2> QED
    BY <1>1, <1>2, <2>3, <2>4
<1>4. ASSUME LoadFailed(t) PROVE RunTypeOK'
  <2> DEFINE first == IF plan.operations[t] = {} THEN "expire" ELSE FirstOf(plan.operations[t])
             outcome == [kind |-> first, result |-> "failed", moves |-> 0]
             w == [work[t] EXCEPT !.pc = "done"]
  <2>1. first \in Kinds
    BY <1>1, FirstIsFirst DEF Kinds
  <2>2. outcome \in Outcome
    BY <2>1 DEF Outcome, Results
  <2>3. <<outcome>> \in Seq(Outcome)
    BY <2>2
  <2>4. report' = [report EXCEPT !.outcomes = [report.outcomes EXCEPT ![t] = <<outcome>>]]
    BY <1>1, <1>4 DEF LoadFailed, Reports
  <2>5. report' \in Reports
    BY <1>1, <2>3, <2>4 DEF Reports
  <2>6. w \in Work /\ w.pc = "done"
    BY <1>1 DEF Work
  <2>7. work' = [work EXCEPT ![t] = w] /\ UNCHANGED <<phase, cycle, wanted, plan>>
    BY <1>4 DEF LoadFailed
  <2> HIDE DEF w
  <2> QED
    BY <1>2, <2>5, <2>6, <2>7
<1>5. ASSUME NEW result, Report(t, result), result \in Results, work[t].pc \in {"next", "committing"}
      PROVE  RunTypeOK'
  BY <1>5, ReportSteps
<1>6. Vetoed(t) \/ ScanOrphans(t) \/ Expire(t) \/ NothingSent(t) => RunTypeOK'
  BY <1>5 DEF Vetoed, ScanOrphans, Expire, NothingSent, HasNext, Results
<1>7. RetryGivesUp(t) \/ Ended(t) \/ TimedOut(t) => RunTypeOK'
  BY <1>5 DEF RetryGivesUp, Ended, TimedOut, Committing, Results
<1>8. ASSUME Attempt(t) PROVE RunTypeOK'
  <2> DEFINE w == [work[t] EXCEPT !.pc = "committing"]
  <2>1. w \in Work /\ (w.pc \in {"next", "committing"} => w.left # {})
    BY <1>1, <1>8 DEF Work, Attempt, HasNext
  <2>2. work' = [work EXCEPT ![t] = w] /\ UNCHANGED <<phase, cycle, wanted, plan, report>>
    BY <1>8 DEF Attempt
  <2> HIDE DEF w
  <2> QED
    BY <1>1, <1>2, <2>1, <2>2
<1>9. ASSUME AttemptAgain(t) PROVE RunTypeOK'
  <2> DEFINE w == [work[t] EXCEPT !.attempt = @ + 1]
  <2>1. work[t].attempt + 1 \in 1 .. MaxCommitAttempts
    BY <1>1, <1>9, EngineAssumption DEF AttemptAgain, AttemptsLeft, Work
  <2>2. w \in Work /\ (w.pc \in {"next", "committing"} => w.left # {})
    BY <1>1, <2>1 DEF Work
  <2>3. work' = [work EXCEPT ![t] = w] /\ UNCHANGED <<phase, cycle, wanted, plan, report>>
    BY <1>9 DEF AttemptAgain
  <2> HIDE DEF w
  <2> QED
    BY <1>1, <1>2, <2>2, <2>3
<1> QED
  BY <1>3, <1>4, <1>6, <1>7, <1>8, <1>9

(* What a commit and its token do to the types.                             *)
LEMMA CommitTypes ==
    ASSUME TypeOK, NEW t \in Tasks
    PROVE  /\ CommitRequest(t) => TokenTypeOK' /\ RestTypeOK'
           /\ Abandon(t) => TokenTypeOK' /\ RestTypeOK'
           /\ \A id \in Ids, base \in Nat : StartCommit(t, id, base) => TokenTypeOK' /\ RestTypeOK'
<1> USE DEF TypeOK
<1>1. Resend(t) => TokenTypeOK'
  <2> SUFFICES ASSUME Resend(t) PROVE TokenTypeOK'
    OBVIOUS
  <2>1. [client[t] EXCEPT !.pc = "asking"] \in Client
    BY DEF TokenTypeOK, Client
  <2>2. client' = [client EXCEPT ![t] = [client[t] EXCEPT !.pc = "asking"]]
    BY DEF Resend, At
  <2> HIDE DEF TypeOK
  <2>3. UNCHANGED <<now, credential, slot, holder>>
    BY DEF Resend
  <2> QED
    BY <2>1, <2>2, <2>3 DEF TokenTypeOK, TypeOK
<1>2. EndCall(t) => TokenTypeOK'
  BY TokenSteps
<1>3. CommitRequest(t) => EndCall(t) \/ Resend(t)
  BY DEF CommitRequest, NoTokenToSend, Applied, Answered, Unanswered
<1>4. Abandon(t) => EndCall(t)
  BY DEF Abandon
<1> QED
  BY <1>1, <1>2, <1>3, <1>4, TokenSteps, RestSteps

LEMMA TableTypes ==
    ASSUME TypeOK, NEW t \in Tasks, TableStep(t)
    PROVE  TypeOK'
<1>1. CASE StartTable(t) \/ LoadFailed(t)
  <2>1. UNCHANGED <<tokenVars, restVars>>
    BY <1>1 DEF StartTable, LoadFailed
  <2> QED
    BY <1>1, <2>1, RunSteps DEF TypeOK, TokenTypeOK, RestTypeOK, tokenVars, restVars
<1>2. CASE Vetoed(t) \/ ScanOrphans(t) \/ Expire(t) \/ NothingSent(t)
  <2>1. UNCHANGED <<tokenVars, restVars>>
    BY <1>2 DEF Vetoed, ScanOrphans, Expire, NothingSent
  <2> QED
    BY <1>2, <2>1, RunSteps DEF TypeOK, TokenTypeOK, RestTypeOK, tokenVars, restVars
<1>3. CASE Attempt(t)
  <2>1. work[t].pc = "next" /\ StartCommit(t, CommitId(t), work[t].base)
    BY <1>3 DEF Attempt, HasNext
  <2>2. CommitId(t) \in Ids
    BY <2>1, KindIsLeft DEF TypeOK, Ids
  <2>3. work[t].base \in Nat
    BY DEF TypeOK, RunTypeOK, Work
  <2> QED
    BY <1>3, <2>1, <2>2, <2>3, CommitTypes, RunSteps DEF TypeOK
<1>4. CASE CommitStep(t)
  <2>1. UNCHANGED runVars
    BY <1>4 DEF CommitStep
  <2>2. RunTypeOK'
    BY <2>1 DEF runVars, RunTypeOK, TypeOK
  <2>3. CASE TokenStep(t) /\ UNCHANGED restVars
    BY <2>2, <2>3, TokenSteps DEF TypeOK, RestTypeOK, restVars
  <2>4. CASE CommitRequest(t)
    BY <2>2, <2>4, CommitTypes DEF TypeOK
  <2> QED
    BY <1>4, <2>3, <2>4 DEF CommitStep
<1>5. CASE AttemptAgain(t)
  <2> DEFINE id == [CommitId(t) EXCEPT !.attempt = @ + 1]
  <2>1. work[t].pc = "committing" /\ StartCommit(t, id, branch[t].moves)
    BY <1>5 DEF AttemptAgain, Committing, Reloaded
  <2>2. CommitId(t) \in CommitIds
    BY <2>1, KindIsLeft DEF TypeOK
  <2>3. id \in Ids /\ branch[t].moves \in Nat
    BY <2>2 DEF CommitIds, Ids, TypeOK, RestTypeOK
  <2> HIDE DEF id
  <2> QED
    BY <1>5, <2>1, <2>3, CommitTypes, RunSteps DEF TypeOK
<1>6. CASE RetryGivesUp(t) \/ Ended(t)
  <2>1. commit' = [commit EXCEPT ![t] = NoCommit] /\ UNCHANGED <<tokenVars, branch, late>>
    BY <1>6 DEF RetryGivesUp, Ended
  <2>2. NoCommit \in Commit
    BY DEF NoCommit, Commit, Ids
  <2>3. TokenTypeOK' /\ RestTypeOK'
    BY <2>1, <2>2 DEF TypeOK, TokenTypeOK, RestTypeOK, tokenVars
  <2> QED
    BY <1>6, <2>3, RunSteps DEF TypeOK
<1>7. CASE TimedOut(t)
  BY <1>7, CommitTypes, RunSteps DEF TypeOK, TimedOut
<1> QED
  BY <1>1, <1>2, <1>3, <1>4, <1>5, <1>6, <1>7 DEF TableStep

LEMMA TypeInit == Init => TypeOK
<1> SUFFICES ASSUME Init PROVE TypeOK
  OBVIOUS
<1> USE DEF Init
<1>1. NoToken \in Token /\ Idle \in Client
  BY DEF NoToken, Idle, Token, Client, Times
<1>2. TokenTypeOK
  BY <1>1 DEF TokenInit, TokenTypeOK
<1>3. RestTypeOK
  BY DEF RestInit, RestTypeOK, NoCommit, Commit, Ids
<1>4. NoPlan \in Planned /\ NoReport \in Reports
  BY DEF NoPlan, Planned, NoReport, Reports
<1>5. Unstarted \in Work /\ Unstarted.pc = "unstarted"
  BY EngineAssumption DEF Unstarted, Work
<1>6. RunTypeOK
  BY <1>4, <1>5, EngineAssumption DEF RunTypeOK
<1> QED
  BY <1>2, <1>3, <1>6 DEF TypeOK

LEMMA TypeStep == TypeOK /\ [Next]_vars => TypeOK'
<1> SUFFICES ASSUME TypeOK, [Next]_vars PROVE TypeOK'
  OBVIOUS
<1>1. CASE Plan \/ DiscoveryFailed \/ Run
  <2>1. UNCHANGED <<tokenVars, restVars>>
    BY <1>1 DEF Plan, DiscoveryFailed, Run
  <2> QED
    BY <1>1, <2>1, PlanTypes DEF TypeOK, TokenTypeOK, RestTypeOK, tokenVars, restVars
<1>2. CASE EndRun
  <2>1. Unstarted \in Work /\ Unstarted.pc = "unstarted"
    BY EngineAssumption DEF Unstarted, Work
  <2>2. UNCHANGED <<tokenVars, restVars>>
    BY <1>2 DEF EndRun
  <2>3. RunTypeOK'
    BY <1>2, <2>1 DEF EndRun, TypeOK, RunTypeOK
  <2> QED
    BY <2>2, <2>3 DEF TypeOK, TokenTypeOK, RestTypeOK, tokenVars, restVars
<1>3. CASE \E t \in Tasks : TableStep(t)
  BY <1>3, TableTypes
<1>4. ASSUME NEW t \in Tasks, Foreground(t) PROVE TypeOK'
  <2>1. branch[t].last \in Ids
    BY DEF TypeOK, RestTypeOK
  <2>2. RestTypeOK'
    BY <1>4, <2>1, RestSteps DEF Foreground, TypeOK, RestTypeOK
  <2> QED
    BY <1>4, <2>2 DEF Foreground, TypeOK, TokenTypeOK, RunTypeOK, tokenVars, runVars
<1>5. CASE LateArrival
  <2>1. PICK r \in late : Arrives(r)
    BY <1>5 DEF LateArrival
  <2>2. r.task \in Tasks /\ r.id \in Ids
    BY DEF TypeOK, RestTypeOK, Late
  <2>3. RestTypeOK'
    BY <2>1, <2>2, RestSteps DEF Arrives, TypeOK, RestTypeOK
  <2> QED
    BY <1>5, <2>1, <2>3 DEF Arrives, LateArrival, TypeOK, TokenTypeOK, RunTypeOK, tokenVars, runVars
<1>6. CASE Tick
  BY <1>6 DEF Tick, TypeOK, TokenTypeOK, RestTypeOK, RunTypeOK, restVars, runVars
<1>7. CASE UNCHANGED vars
  BY <1>7 DEF vars, TypeOK, TokenTypeOK, RestTypeOK, RunTypeOK, tokenVars, restVars, runVars
<1> QED
  BY <1>1, <1>2, <1>3, <1>4, <1>5, <1>6, <1>7 DEF Next

(* Every variable keeps its type; in particular a table that is at an       *)
(* operation has one left, and no operation is attempted more often than    *)
(* allowed.                                                                 *)
THEOREM TypeCorrect == Spec => []TypeOK
  BY TypeInit, TypeStep, PTL DEF Spec

-----------------------------------------------------------------------------
(* The token: one exchange for all, and no request that outlives its token *)

Asks(t) == At(t, "asking") /\ UNCHANGED <<now, credential, slot, holder>>

(* A table's step touches no call for a token but its own. *)
LEMMA CallOfTable ==
    ASSUME NEW t \in Tasks, TableStep(t)
    PROVE  UNCHANGED tokenVars \/ TokenStep(t) \/ EndCall(t) \/ Asks(t)
<1>1. CommitRequest(t) => EndCall(t) \/ Asks(t)
  BY DEF CommitRequest, NoTokenToSend, Applied, Answered, Unanswered, Resend, Asks
<1>2. StartTable(t) \/ LoadFailed(t) \/ Vetoed(t) \/ ScanOrphans(t) \/ Expire(t) \/ NothingSent(t)
          \/ RetryGivesUp(t) \/ Ended(t) => UNCHANGED tokenVars
  BY DEF StartTable, LoadFailed, Vetoed, ScanOrphans, Expire, NothingSent, RetryGivesUp, Ended
<1>3. Attempt(t) \/ AttemptAgain(t) => Asks(t)
  BY DEF Attempt, AttemptAgain, StartCommit, Asks
<1>4. TimedOut(t) => EndCall(t)
  BY DEF TimedOut, Abandon
<1>5. CommitStep(t) => TokenStep(t) \/ EndCall(t) \/ Asks(t)
  BY <1>1 DEF CommitStep
<1> QED
  BY <1>2, <1>3, <1>4, <1>5 DEF TableStep

(* All that happens to a token: a call for it advances, ends or begins, or  *)
(* time passes.                                                             *)
LEMMA TokenMoves ==
    ASSUME [Next]_vars
    PROVE  \/ UNCHANGED <<credential, slot, holder, client>> /\ (UNCHANGED now \/ Tick)
           \/ \E t \in Tasks : TokenStep(t) \/ EndCall(t) \/ Asks(t)
<1>1. CASE Plan \/ DiscoveryFailed \/ Run \/ EndRun \/ LateArrival
  BY <1>1 DEF Plan, DiscoveryFailed, Run, EndRun, LateArrival, Arrives, tokenVars
<1>2. CASE UNCHANGED vars
  BY <1>2 DEF vars, tokenVars
<1>3. CASE Tick
  BY <1>3 DEF Tick
<1>4. ASSUME NEW t \in Tasks, Foreground(t) PROVE UNCHANGED tokenVars
  BY <1>4 DEF Foreground
<1>5. ASSUME NEW t \in Tasks, TableStep(t)
      PROVE  UNCHANGED tokenVars \/ TokenStep(t) \/ EndCall(t) \/ Asks(t)
  BY <1>5, CallOfTable
<1> QED
  BY <1>1, <1>2, <1>3, <1>4, <1>5 DEF Next, tokenVars

(* A token that is due stays due. *)
LEMMA DueStaysDue ==
    ASSUME TokenTypeOK, now' \in {now, now + 1}, UNCHANGED slot, IsDue(slot)
    PROVE  IsDue(slot)'
<1>1. slot.renewAt # Never /\ slot.renewAt \in Nat /\ now \in Nat /\ slot.renewAt <= now
  BY DEF TokenTypeOK, Token, Times, IsDue
<1> QED
  BY <1>1 DEF IsDue

(* Only the holder of the write lock exchanges, and only while the token is *)
(* due: nobody else can renew it meanwhile.                                 *)
ExchangeOK == OneExchangeServesAll /\ \A t \in Tasks : client[t].pc = "exchanging" => holder = t

LEMMA ExchangeInductive == TypeOK /\ ExchangeOK /\ [Next]_vars => ExchangeOK'
<1> SUFFICES ASSUME TypeOK, ExchangeOK, [Next]_vars, NEW s \in Tasks, client'[s].pc = "exchanging"
             PROVE  IsDue(slot)' /\ holder' = s
  BY DEF ExchangeOK, OneExchangeServesAll
<1> USE TokenSourceAssumption DEF TokenSourceAssumption
<1>1. TokenTypeOK /\ now \in Nat /\ client \in [Tasks -> Client]
  BY DEF TypeOK, TokenTypeOK
<1>2. client[s].pc = "exchanging" => IsDue(slot) /\ holder = s
  BY DEF ExchangeOK, OneExchangeServesAll
<1>3. CASE UNCHANGED <<credential, slot, holder, client>> /\ (UNCHANGED now \/ Tick)
  <2>1. now' \in {now, now + 1}
    BY <1>3 DEF Tick
  <2> QED
    BY <1>1, <1>2, <1>3, <2>1, DueStaysDue
<1>4. ASSUME NEW t \in Tasks, At(t, "asking") \/ At(t, "queued") \/ At(t, "failed"), UNCHANGED <<now, slot>>,
             UNCHANGED holder \/ client[t].pc = "exchanging"
      PROVE  IsDue(slot)' /\ holder' = s
  <2>1. client'[s].pc = client[s].pc /\ s # t
    BY <1>1, <1>4 DEF At, Client
  <2>2. client[t].pc = "exchanging" => holder = t
    BY DEF ExchangeOK
  <2> QED
    BY <1>1, <1>2, <1>4, <2>1, <2>2, DueStaysDue
<1>5. ASSUME NEW t \in Tasks, NEW token, Present(t, token) PROVE client[s].pc = "exchanging" /\ s # t
  BY <1>1, <1>5 DEF Present
<1>6. ASSUME NEW t \in Tasks, TokenStep(t) PROVE IsDue(slot)' /\ holder' = s
  <2>1. CASE Supplied(t)
    BY <1>1, <1>2, <1>5, <2>1, DueStaysDue DEF Supplied
  <2>2. CASE ReadCached(t)
    BY <1>1, <1>2, <1>4, <1>5, <2>2, DueStaysDue DEF ReadCached
  <2>3. CASE Lock(t)
    <3>1. holder = NoOne /\ UNCHANGED <<now, slot>>
      BY <2>3 DEF Lock
    <3>2. client[s].pc # "exchanging"
      BY <1>2, <3>1
    <3>3. IsDue(slot) /\ holder' = t /\ At(t, "exchanging")
      BY <1>5, <2>3, <3>2 DEF Lock, DueUnderLock
    <3>4. s = t
      BY <1>1, <3>2, <3>3 DEF At
    <3> QED
      BY <1>1, <3>1, <3>3, <3>4, DueStaysDue
  <2>4. CASE Exchanged(t)
    <3>1. client[t].pc = "exchanging" /\ client[s].pc = "exchanging" /\ s # t
      BY <1>5, <2>4 DEF Exchanged
    <3> QED
      BY <3>1 DEF ExchangeOK
  <2>5. CASE ExchangeFailed(t)
    <3>1. client[t].pc = "exchanging" /\ At(t, "failed") /\ UNCHANGED <<now, slot>>
      BY <2>5 DEF ExchangeFailed
    <3> QED
      BY <1>4, <3>1
  <2> QED
    BY <1>6, <2>1, <2>2, <2>3, <2>4, <2>5 DEF TokenStep
<1>7. ASSUME NEW t \in Tasks, EndCall(t) PROVE IsDue(slot)' /\ holder' = s
  <2>1. client[s].pc = "exchanging" /\ s # t /\ UNCHANGED <<now, slot>>
    BY <1>1, <1>7 DEF EndCall, Idle
  <2> QED
    BY <1>1, <1>2, <1>7, <2>1, DueStaysDue DEF EndCall, LockAfter
<1>8. ASSUME NEW t \in Tasks, Asks(t) PROVE IsDue(slot)' /\ holder' = s
  BY <1>4, <1>8 DEF Asks
<1> QED
  BY <1>3, <1>6, <1>7, <1>8, TokenMoves

(* However many tables want to commit when the token is due, it is fetched  *)
(* once: a task that queued for the write lock looks again, and nobody      *)
(* exchanges while the token in hand is good (auth.rs:197-217), whatever    *)
(* exchanges fail and whichever operation is dropped while it holds the     *)
(* lock.                                                                    *)
THEOREM SharedExchange == Spec => []OneExchangeServesAll
<1>1. Init => ExchangeOK
  BY DEF Init, TokenInit, Idle, ExchangeOK, OneExchangeServesAll
<1>2. ExchangeOK => OneExchangeServesAll
  BY DEF ExchangeOK
<1> QED
  BY <1>1, <1>2, ExchangeInductive, TypeCorrect, PTL DEF Spec

(* What a server grants leaves room for a request: the margin covers one,   *)
(* and so does what is left of a shorter life when it is renewed.           *)
RoomForARequest ==
    /\ MaxRequestTime \in Nat /\ MaxRequestTime <= Margin
    /\ \A l \in Lifetimes \ {Never} :
        /\ l > MaxRequestTime
        /\ l < Margin => l - (l \div 2) >= MaxRequestTime

LEMMA FetchedLasts ==
    ASSUME RoomForARequest, now \in Nat, NEW l \in Lifetimes
    PROVE  /\ Lasts(Fetched(l)) /\ Outlasts(Fetched(l))
           /\ Fetched(l).expires # Never => now + MaxRequestTime < Fetched(l).expires
<1>1. CASE l = Never
  BY <1>1, TokenSourceAssumption DEF TokenSourceAssumption, Fetched, Unexpiring, Lasts, Outlasts
<1>2. CASE l # Never
  <2>1. l \in Nat /\ Margin \in Nat /\ Never \notin Nat /\ MaxRequestTime \in Nat
    BY <1>2, TokenSourceAssumption DEF TokenSourceAssumption, RoomForARequest
  <2>2. l \div 2 \in Nat /\ l \div 2 <= l
    BY <2>1
  <2>3. RenewAhead(l) \in Nat /\ l >= RenewAhead(l) + MaxRequestTime
    BY <1>2, <2>1, <2>2 DEF RenewAhead, RoomForARequest
  <2>4. Fetched(l) = [fetched |-> now, renewAt |-> now + RenewAhead(l), expires |-> now + l]
    BY <1>2 DEF Fetched
  <2>5. now + RenewAhead(l) \in Nat /\ now + l \in Nat /\ l > MaxRequestTime
    BY <1>2, <2>1, <2>3 DEF RoomForARequest
  <2> QED
    BY <2>1, <2>3, <2>4, <2>5 DEF Lasts, Outlasts
<1> QED
  BY <1>1, <1>2

LEMMA TokensInductive ==
    ASSUME RoomForARequest
    PROVE  TypeOK /\ TokensOK /\ [Next]_vars => TokensOK'
<1> SUFFICES ASSUME TypeOK, TokensOK, [Next]_vars PROVE TokensOK'
  OBVIOUS
<1> USE TokenSourceAssumption DEF TokenSourceAssumption
<1> DEFINE held(s) == client[s].pc = "armed" =>
               /\ client[s].token.expires # Never => client[s].since + MaxRequestTime < client[s].token.expires
               /\ now <= client[s].since + MaxRequestTime
<1>1. now \in Nat /\ client \in [Tasks -> Client] /\ slot \in Token /\ MaxRequestTime \in Nat
  BY DEF TypeOK, TokenTypeOK, RoomForARequest
<1>2. Lasts(slot) /\ Outlasts(slot) /\ \A s \in Tasks : held(s)
  BY DEF TokensOK
<1>3. ASSUME Lasts(slot)', Outlasts(slot)', \A s \in Tasks : held(s)' PROVE TokensOK'
  BY <1>3 DEF TokensOK
<1>4. ASSUME UNCHANGED slot PROVE Lasts(slot)' /\ Outlasts(slot)'
  BY <1>2, <1>4 DEF Lasts, Outlasts
<1>5. CASE UNCHANGED <<credential, slot, holder, client>> /\ (UNCHANGED now \/ Tick)
  <2>1. ASSUME NEW s \in Tasks PROVE held(s)'
    <3>1. CASE UNCHANGED now
      BY <1>2, <1>5, <3>1
    <3>2. CASE Tick
      <4>1. now' = now + 1 /\ (client[s].pc = "armed" => now < client[s].since + MaxRequestTime)
        BY <3>2 DEF Tick, TimelyRequests
      <4>2. client[s].since \in Nat /\ client' = client
        BY <1>1, <1>5 DEF Client
      <4>3. client[s].pc = "armed" => now + 1 <= client[s].since + MaxRequestTime
        BY <1>1, <4>1, <4>2
      <4> QED
        BY <1>2, <4>1, <4>2, <4>3
    <3> QED
      BY <1>5, <3>1, <3>2
  <2> QED
    BY <1>3, <1>4, <1>5, <2>1
<1>6. ASSUME NEW t \in Tasks, NEW pc \in {"asking", "queued", "exchanging", "failed"}, At(t, pc),
             UNCHANGED <<now, slot>>
      PROVE  TokensOK'
  <2>1. ASSUME NEW s \in Tasks PROVE held(s)'
    <3>1. CASE s = t
      BY <1>1, <1>6, <3>1 DEF At, Client
    <3>2. CASE s # t
      BY <1>1, <1>2, <1>6, <3>2 DEF At
    <3> QED
      BY <3>1, <3>2
  <2> QED
    BY <1>3, <1>4, <1>6, <2>1
<1>7. ASSUME NEW t \in Tasks, NEW token, Present(t, token), UNCHANGED now,
             token.expires # Never => now + MaxRequestTime < token.expires,
             Lasts(slot)', Outlasts(slot)'
      PROVE  TokensOK'
  <2>1. ASSUME NEW s \in Tasks PROVE held(s)'
    <3>1. CASE s = t
      <4>1. client'[s] = [pc |-> "armed", token |-> token, since |-> now]
        BY <1>1, <1>7, <3>1 DEF Present
      <4> QED
        BY <1>1, <1>7, <4>1
    <3>2. CASE s # t
      BY <1>1, <1>2, <1>7, <3>2 DEF Present
    <3> QED
      BY <3>1, <3>2
  <2> QED
    BY <1>3, <1>7, <2>1
<1>8. ~IsDue(slot) => (slot.expires # Never => now + MaxRequestTime < slot.expires)
  <2> SUFFICES ASSUME ~IsDue(slot), slot.expires # Never PROVE now + MaxRequestTime < slot.expires
    OBVIOUS
  <2>1. slot.renewAt # Never /\ slot.renewAt \in Nat /\ slot.expires \in Nat
    BY <1>1, <1>2 DEF Lasts, Token, Times
  <2>2. now < slot.renewAt
    BY <1>1, <2>1 DEF IsDue
  <2>3. slot.expires >= slot.renewAt + MaxRequestTime
    BY <1>1, <1>2, <2>1, <2>2 DEF Outlasts
  <2> QED
    BY <1>1, <2>1, <2>2, <2>3
<1>9. ASSUME NEW t \in Tasks, TokenStep(t) PROVE TokensOK'
  <2>1. CASE Supplied(t)
    <3>1. Unexpiring.expires = Never
      BY DEF Unexpiring
    <3> QED
      BY <1>4, <1>7, <2>1, <3>1 DEF Supplied
  <2>2. CASE ReadCached(t)
    BY <1>4, <1>6, <1>7, <1>8, <2>2 DEF ReadCached
  <2>3. CASE Lock(t)
    BY <1>4, <1>6, <1>7, <1>8, <2>3 DEF Lock, DueUnderLock
  <2>4. CASE Exchanged(t)
    <3>1. PICK l \in Lifetimes : slot' = Fetched(l) /\ Present(t, Fetched(l))
      BY <2>4 DEF Exchanged
    <3>2. Lasts(slot)' /\ Outlasts(slot)'
      BY <1>1, <3>1, FetchedLasts DEF Lasts, Outlasts
    <3>3. UNCHANGED now
      BY <2>4 DEF Exchanged
    <3> QED
      BY <1>1, <1>7, <3>1, <3>2, <3>3, FetchedLasts
  <2>5. CASE ExchangeFailed(t)
    BY <1>6, <2>5 DEF ExchangeFailed
  <2> QED
    BY <1>9, <2>1, <2>2, <2>3, <2>4, <2>5 DEF TokenStep
<1>10. ASSUME NEW t \in Tasks, EndCall(t) PROVE TokensOK'
  <2>1. ASSUME NEW s \in Tasks PROVE held(s)'
    <3>1. CASE s = t
      BY <1>1, <1>10, <3>1 DEF EndCall, Idle
    <3>2. CASE s # t
      BY <1>1, <1>2, <1>10, <3>2 DEF EndCall
    <3> QED
      BY <3>1, <3>2
  <2> QED
    BY <1>3, <1>4, <1>10, <2>1 DEF EndCall
<1>11. ASSUME NEW t \in Tasks, Asks(t) PROVE TokensOK'
  BY <1>6, <1>11 DEF Asks
<1> QED
  BY <1>5, <1>9, <1>10, <1>11, TokenMoves

(* Where the server's lifetimes leave room for a request, no commit is      *)
(* refused because its token expired on the way: a cached token is handed   *)
(* out only a margin before it expires (auth.rs:261-271, 286-295), and a    *)
(* request that takes longer than its timeout is over (rest.rs:26-35).      *)
THEOREM TokensCoverRequests ==
    ASSUME RoomForARequest
    PROVE  Spec => []TokensOutliveRequests
<1>1. Init => TokensOK
  <2> SUFFICES ASSUME Init PROVE TokensOK
    OBVIOUS
  <2>1. 0 # Never
    BY TokenSourceAssumption DEF TokenSourceAssumption
  <2> QED
    BY <2>1 DEF Init, TokenInit, Idle, NoToken, TokensOK, Lasts, Outlasts
<1>2. TypeOK /\ TokensOK => TokensOutliveRequests
  <2> SUFFICES ASSUME TypeOK, TokensOK, NEW t \in Tasks, client[t].pc = "armed", client[t].token.expires # Never
               PROVE  now < client[t].token.expires
    BY DEF TokensOutliveRequests, Usable
  <2>1. now \in Nat /\ client[t].since \in Nat /\ client[t].token.expires \in Nat /\ MaxRequestTime \in Nat
    BY DEF TypeOK, TokenTypeOK, Client, Token, Times, RoomForARequest
  <2> QED
    BY <2>1 DEF TokensOK
<1> QED
  BY <1>1, <1>2, TokensInductive, TypeCorrect, PTL DEF Spec

-----------------------------------------------------------------------------
(* What one step may touch *)

(* A table's step leaves the other tables, the plan and the phase alone.    *)
LEMMA OnlyItsTable ==
    ASSUME TypeOK, NEW t \in Tasks, TableStep(t)
    PROVE  /\ UNCHANGED <<phase, cycle, wanted, plan, foreground>>
           /\ \A s \in Tasks \ {t} : work'[s] = work[s] /\ commit'[s] = commit[s] /\ branch'[s] = branch[s]
           /\ \A r \in late' : r.task # t => r \in late
<1>1. /\ work \in [Tasks -> Work] /\ commit \in [Tasks -> Commit]
      /\ branch \in [Tasks -> [moves : Nat, last : Ids]] /\ late \subseteq Late
  BY DEF TypeOK, RunTypeOK, RestTypeOK
<1>2. ASSUME UNCHANGED restVars
      PROVE  /\ \A s \in Tasks \ {t} : commit'[s] = commit[s] /\ branch'[s] = branch[s]
             /\ \A r \in late' : r.task # t => r \in late
  BY <1>2 DEF restVars
<1>3. ASSUME NEW result, Report(t, result)
      PROVE  UNCHANGED <<phase, cycle, wanted, plan>> /\ \A s \in Tasks \ {t} : work'[s] = work[s]
  BY <1>1, <1>3 DEF Report
<1>4. ASSUME NEW id, NEW base, StartCommit(t, id, base)
      PROVE  /\ \A s \in Tasks \ {t} : commit'[s] = commit[s] /\ branch'[s] = branch[s]
             /\ \A r \in late' : r.task # t => r \in late
  BY <1>1, <1>4 DEF StartCommit
<1>5. CASE StartTable(t) \/ LoadFailed(t)
  BY <1>1, <1>2, <1>5 DEF StartTable, LoadFailed
<1>6. CASE Vetoed(t) \/ ScanOrphans(t) \/ Expire(t) \/ NothingSent(t)
  BY <1>2, <1>3, <1>6 DEF Vetoed, ScanOrphans, Expire, NothingSent
<1>7. CASE Attempt(t) \/ AttemptAgain(t)
  BY <1>1, <1>4, <1>7 DEF Attempt, AttemptAgain
<1>8. CASE RetryGivesUp(t) \/ Ended(t)
  BY <1>1, <1>3, <1>8 DEF RetryGivesUp, Ended
<1>9. StillComing(t) \subseteq {Request(t)} /\ Request(t).task = t
  BY DEF StillComing, Request
<1>10. CASE TimedOut(t)
  BY <1>1, <1>3, <1>9, <1>10 DEF TimedOut, Abandon
<1>11. CASE CommitStep(t)
  <2>1. UNCHANGED <<phase, cycle, wanted, plan, work, foreground>>
    BY <1>11 DEF CommitStep, runVars
  <2>2. \A id : Move(t, id) => /\ \A s \in Tasks \ {t} : branch'[s] = branch[s]
                               /\ \A r \in late' : r.task # t => r \in late
    BY <1>1 DEF Move
  <2>3. \A result : End(t, result) => \A s \in Tasks \ {t} : commit'[s] = commit[s]
    BY <1>1 DEF End
  <2>4. SendAgain(t) => \A s \in Tasks \ {t} : commit'[s] = commit[s]
    BY <1>1 DEF SendAgain
  <2>5. NoTokenToSend(t) \/ Applied(t) \/ Answered(t) =>
          /\ \A s \in Tasks \ {t} : commit'[s] = commit[s] /\ branch'[s] = branch[s]
          /\ \A r \in late' : r.task # t => r \in late
    BY <2>2, <2>3, <2>4 DEF NoTokenToSend, Applied, Answered
  <2>6. Unanswered(t) \/ Resend(t) =>
          /\ \A s \in Tasks \ {t} : commit'[s] = commit[s] /\ branch'[s] = branch[s]
          /\ \A r \in late' : r.task # t => r \in late
    BY <1>1, <1>9, <2>3, <2>4 DEF Unanswered, Resend
  <2> QED
    BY <1>2, <1>11, <2>1, <2>5, <2>6 DEF CommitStep, CommitRequest
<1> QED
  BY <1>5, <1>6, <1>7, <1>8, <1>10, <1>11 DEF TableStep

(* How a commit goes on: its identity and its base stay what they were.     *)
LEMMA CommitGoesOn ==
    ASSUME TypeOK, NEW t \in Tasks, CommitStep(t)
    PROVE  /\ UNCHANGED work
           /\ \/ UNCHANGED restVars
              \/ /\ Live(t)
                 /\ \/ commit'[t].pc \in {"committing", "waiting"}
                       /\ commit'[t].id = commit[t].id /\ commit'[t].base = commit[t].base
                    \/ commit'[t].pc \in Outcomes \ {"conflicted"}
                    \/ commit'[t].pc = "conflicted" /\ ~Holds(Request(t)) /\ UNCHANGED branch
                 /\ \/ UNCHANGED <<branch, late>>
                    \/ Applied(t) /\ Holds(Request(t)) /\ Move(t, commit[t].id)
                    \/ UNCHANGED branch /\ late' = late \cup StillComing(t)
<1>1. UNCHANGED work /\ ((TokenStep(t) /\ UNCHANGED restVars) \/ CommitRequest(t))
  BY DEF CommitStep, runVars
<1>2. commit \in [Tasks -> Commit]
  BY DEF TypeOK, RestTypeOK
<1> DEFINE same == commit'[t].id = commit[t].id /\ commit'[t].base = commit[t].base
<1>3. \A result : End(t, result) => commit'[t].pc = result
  BY <1>2 DEF End, NoCommit
<1>4. SendAgain(t) => commit'[t].pc = "waiting" /\ same
  BY <1>2 DEF SendAgain, Commit
<1>5. CASE NoTokenToSend(t)
  BY <1>1, <1>3, <1>5 DEF NoTokenToSend, Live, Outcomes
<1>6. CASE Applied(t)
  BY <1>1, <1>3, <1>4, <1>6 DEF Applied, Live, Outcomes
<1>7. CASE Answered(t)
  <2>1. PICK status \in Statuses(t) :
            IF IsThrottle(status) /\ commit[t].sends < MaxThrottleRetries
            THEN SendAgain(t) ELSE End(t, Classify(status))
    BY <1>7 DEF Answered
  <2>2. Classify(status) \in Outcomes /\ (Classify(status) = "conflicted" => ~Holds(Request(t)))
    BY DEF Statuses, Classify, Outcomes
  <2>3. UNCHANGED <<branch, late>> /\ Live(t)
    BY <1>7 DEF Answered, Live
  <2> QED
    BY <1>1, <1>3, <1>4, <2>1, <2>2, <2>3
<1>8. CASE Unanswered(t)
  BY <1>1, <1>3, <1>4, <1>8 DEF Unanswered, Live, Outcomes
<1>9. CASE Resend(t)
  <2>1. commit'[t].pc = "committing" /\ same
    BY <1>2, <1>9 DEF Resend, ResentBase, Commit
  <2> QED
    BY <1>1, <1>9, <2>1 DEF Resend, Live
<1> QED
  BY <1>1, <1>5, <1>6, <1>7, <1>8, <1>9 DEF CommitRequest

(* An operation is over, in whichever way: vetoed, done without a commit,   *)
(* answered, given up or dropped.                                           *)
Over(t, result) ==
    /\ Report(t, result) /\ work[t].pc \in {"next", "committing"}
    /\ commit'[t].pc = "none" /\ UNCHANGED branch
    /\ late' = late \/ (Live(t) /\ late' = late \cup StillComing(t))
    /\ result = "conflicted" /\ Kind(t) # "expire" => commit[t].pc = "conflicted" /\ ~AttemptsLeft(t)

LEMMA TableCases ==
    ASSUME TypeOK, RunOK, NEW t \in Tasks, TableStep(t)
    PROVE  \/ StartTable(t) \/ LoadFailed(t) \/ Attempt(t) \/ AttemptAgain(t) \/ CommitStep(t)
           \/ \E result \in Results : Over(t, result)
<1>1. work[t].pc = "next" => commit[t].pc = "none"
  BY DEF RunOK
<1>2. commit \in [Tasks -> Commit]
  BY DEF TypeOK, RestTypeOK
<1>3. CASE Vetoed(t)
  <2>1. Over(t, "refused")
    BY <1>1, <1>3 DEF Vetoed, HasNext, Over, restVars
  <2> QED
    BY <2>1 DEF Results
<1>4. CASE ScanOrphans(t) \/ NothingSent(t)
  <2>1. PICK result \in {"succeeded", "noop", "failed"} : Report(t, result)
    BY <1>4 DEF ScanOrphans, NothingSent
  <2>2. work[t].pc = "next" /\ UNCHANGED restVars
    BY <1>4 DEF ScanOrphans, NothingSent, HasNext
  <2>3. Over(t, result)
    BY <1>1, <2>1, <2>2 DEF Over, restVars
  <2> QED
    BY <2>3 DEF Results
<1>5. CASE Expire(t)
  <2>1. PICK result \in {"succeeded", "conflicted", "failed"} : Report(t, result)
    BY <1>5 DEF Expire
  <2>2. Over(t, result)
    BY <1>1, <1>5, <2>1 DEF Expire, HasNext, Over, restVars
  <2> QED
    BY <2>2 DEF Results
<1>6. ASSUME commit' = [commit EXCEPT ![t] = NoCommit] PROVE commit'[t].pc = "none"
  BY <1>2, <1>6 DEF NoCommit
<1>7. CASE RetryGivesUp(t)
  <2>1. PICK result \in {"noop", "failed"} : Report(t, result)
    BY <1>7 DEF RetryGivesUp
  <2>2. Over(t, result)
    BY <1>6, <1>7, <2>1 DEF RetryGivesUp, Committing, Over
  <2> QED
    BY <2>2 DEF Results
<1>8. CASE Ended(t)
  <2>1. Over(t, commit[t].pc)
    BY <1>6, <1>8 DEF Ended, Committing, Over
  <2>2. commit[t].pc \in Results
    BY <1>8 DEF Ended, Results
  <2> QED
    BY <2>1, <2>2
<1>9. CASE TimedOut(t)
  <2>1. Over(t, "failed")
    BY <1>6, <1>9 DEF TimedOut, Abandon, Committing, Live, Over
  <2> QED
    BY <2>1 DEF Results
<1> QED
  BY <1>3, <1>4, <1>5, <1>7, <1>8, <1>9 DEF TableStep

LEMMA RunInductive == TypeOK /\ RunOK /\ [Next]_vars => RunOK'
<1> SUFFICES ASSUME TypeOK, RunOK, [Next]_vars PROVE RunOK'
  OBVIOUS
<1>1. /\ work \in [Tasks -> Work] /\ commit \in [Tasks -> Commit]
      /\ phase \in {"idle", "planned", "running"}
  BY DEF TypeOK, RunTypeOK, RestTypeOK
<1>2. CASE Plan \/ DiscoveryFailed \/ Run
  BY <1>2 DEF Plan, DiscoveryFailed, Run, RunOK, restVars
<1>3. CASE EndRun
  <2>1. \A t \in Tasks : work[t].pc # "committing"
    <3>1. ASSUME NEW t \in Tasks, t \in plan.tables PROVE work[t].pc = "done"
      BY <1>3, <3>1 DEF EndRun
    <3>2. ASSUME NEW t \in Tasks, t \notin plan.tables PROVE work[t].pc = "unstarted"
      BY <3>2 DEF RunOK
    <3> QED
      BY <3>1, <3>2
  <2>2. \A t \in Tasks : commit'[t].pc = "none"
    BY <1>3, <2>1 DEF EndRun, RunOK, restVars
  <2>3. \A t \in Tasks : work'[t] = Unstarted
    BY <1>3 DEF EndRun
  <2> QED
    BY <1>3, <2>2, <2>3 DEF EndRun, RunOK, Unstarted
<1>4. ASSUME NEW t \in Tasks, Foreground(t) PROVE RunOK'
  BY <1>4 DEF Foreground, RunOK, runVars
<1>5. CASE LateArrival
  BY <1>5 DEF LateArrival, Arrives, RunOK, runVars
<1>6. CASE Tick \/ UNCHANGED vars
  BY <1>6 DEF Tick, vars, RunOK, runVars, restVars
<1>7. ASSUME NEW t \in Tasks, TableStep(t) PROVE RunOK'
  <2> DEFINE fine(s) == /\ phase # "running" => work[s].pc = "unstarted"
                        /\ work[s].pc # "unstarted" => s \in plan.tables
                        /\ commit[s].pc # "none" => work[s].pc = "committing"
                        /\ work[s].pc \in {"unstarted", "next"} => work[s].attempt = 1
  <2>1. foreground' \in Nat /\ UNCHANGED <<phase, plan>> /\ \A s \in Tasks : s # t => fine(s)'
    BY <1>7, OnlyItsTable DEF RunOK
  <2>2. fine(t)
    BY DEF RunOK
  <2>3. fine(t)' => RunOK'
    BY <2>1 DEF RunOK
  <2>4. CASE StartTable(t)
    <3>1. /\ work'[t].pc = PlaceWith(plan.operations[t]) /\ work'[t].attempt = work[t].attempt
          /\ work[t].pc = "unstarted" /\ t \in plan.tables /\ phase = "running" /\ UNCHANGED commit
      BY <1>1, <2>4 DEF StartTable, Work, restVars
    <3>2. PlaceWith(plan.operations[t]) \in {"next", "done"}
      BY DEF PlaceWith
    <3> QED
      BY <2>1, <2>2, <2>3, <3>1, <3>2
  <2>5. CASE LoadFailed(t)
    <3>1. /\ work'[t].pc = "done" /\ work[t].pc = "unstarted"
          /\ t \in plan.tables /\ phase = "running" /\ UNCHANGED commit
      BY <1>1, <2>5 DEF LoadFailed, Work, restVars
    <3> QED
      BY <2>1, <2>2, <2>3, <3>1
  <2>6. ASSUME NEW result \in Results, Over(t, result) PROVE RunOK'
    <3>1. work'[t].attempt = 1 /\ work'[t].pc = PlaceWith(work'[t].left)
      BY <2>6, ReportSteps DEF Over
    <3> QED
      BY <1>1, <2>1, <2>2, <2>3, <2>6, <3>1 DEF Over, PlaceWith
  <2>7. CASE Attempt(t) \/ AttemptAgain(t)
    <3>1. work'[t].pc = "committing" /\ work[t].pc # "unstarted"
      BY <1>1, <2>7 DEF Attempt, AttemptAgain, HasNext, Committing, Work
    <3> QED
      BY <1>1, <2>1, <2>2, <2>3, <3>1
  <2>8. CASE CommitStep(t)
    <3>1. UNCHANGED work /\ work[t].pc = "committing"
      BY <2>8, CommitGoesOn DEF CommitStep, Committing
    <3> QED
      BY <2>1, <2>2, <2>3, <3>1
  <2> QED
    BY <1>7, <2>4, <2>5, <2>6, <2>7, <2>8, TableCases
<1>8. CASE \E t \in Tasks : TableStep(t) \/ Foreground(t)
  BY <1>4, <1>7, <1>8
<1> QED
  BY <1>2, <1>3, <1>5, <1>6, <1>8 DEF Next

-----------------------------------------------------------------------------
(* Conflicts are real *)

(* No step but a table's own changes a commit, and a table at the catalog   *)
(* only moves forward.                                                      *)
LEMMA OutsideSteps ==
    ASSUME TypeOK, [Next]_vars, \A t \in Tasks : ~TableStep(t)
    PROVE  /\ UNCHANGED commit
           /\ \A t \in Tasks : branch'[t].moves >= branch[t].moves
           /\ UNCHANGED <<work, plan>> \/ phase # "running" \/ EndRun
           /\ \/ UNCHANGED report \/ report' = NoReport
              \/ UNCHANGED work /\ phase = "planned" /\ report'.outcomes = report.outcomes
<1>1. branch \in [Tasks -> [moves : Nat, last : Ids]] /\ report \in Reports
  BY DEF TypeOK, RestTypeOK, RunTypeOK
<1>2. CASE Plan \/ DiscoveryFailed \/ EndRun \/ Tick \/ UNCHANGED vars
  BY <1>1, <1>2 DEF Plan, DiscoveryFailed, EndRun, Tick, vars, restVars, runVars
<1>3. CASE Run
  <2>1. report'.outcomes = report.outcomes
    BY <1>1, <1>3 DEF Run, Reports
  <2> QED
    BY <1>1, <1>3, <2>1 DEF Run, restVars
<1>4. ASSUME NEW t \in Tasks, NEW id, Move(t, id)
      PROVE  \A s \in Tasks : branch'[s].moves >= branch[s].moves
  BY <1>1, <1>4 DEF Move
<1>5. ASSUME NEW t \in Tasks, Foreground(t)
      PROVE  UNCHANGED <<commit, runVars>> /\ \A s \in Tasks : branch'[s].moves >= branch[s].moves
  BY <1>4, <1>5 DEF Foreground
<1>6. CASE LateArrival
  <2>1. PICK r \in late : Arrives(r)
    BY <1>6 DEF LateArrival
  <2>2. r.task \in Tasks
    BY DEF TypeOK, RestTypeOK, Late
  <2> QED
    BY <1>4, <1>6, <2>1, <2>2 DEF Arrives, LateArrival, runVars
<1> QED
  BY <1>2, <1>3, <1>5, <1>6 DEF Next, runVars

Moving(t) ==
    /\ work[t].pc \in {"next", "committing"} => work[t].base <= branch[t].moves
    /\ Live(t) => commit[t].base >= work[t].base + work[t].attempt - 1 /\ commit[t].base <= branch[t].moves
    /\ commit[t].pc = "conflicted" => branch[t].moves >= work[t].base + work[t].attempt

(* An attempt is built where the table then is, so by its n-th lost         *)
(* compare-and-swap a table has moved n times since it was loaded.          *)
LEMMA MovingKept ==
    ASSUME TypeOK, RunOK, NEW t \in Tasks, Moving(t), TableStep(t)
    PROVE  Moving(t)'
<1>1. /\ work \in [Tasks -> Work] /\ commit \in [Tasks -> Commit]
      /\ branch \in [Tasks -> [moves : Nat, last : Ids]]
      /\ TypeOK' /\ RunOK'
  <2>1. [Next]_vars
    BY DEF Next
  <2> QED
    BY <2>1, TypeStep, RunInductive DEF TypeOK, RunTypeOK, RestTypeOK
<1>2. /\ branch[t].moves \in Nat /\ work[t].base \in Nat /\ work[t].attempt \in Nat /\ commit[t].base \in Nat
      /\ branch'[t].moves \in Nat /\ work'[t].base \in Nat /\ work'[t].attempt \in Nat /\ commit'[t].base \in Nat
  BY <1>1, EngineAssumption DEF TypeOK, RunTypeOK, RestTypeOK, Work, Commit
<1>3. (work[t].pc \in {"unstarted", "next"} => commit[t].pc = "none" /\ work[t].attempt = 1)
  BY DEF RunOK
<1>4. CASE StartTable(t)
  <2>1. work'[t].base = branch[t].moves /\ commit'[t].pc = "none" /\ UNCHANGED branch
    BY <1>1, <1>3, <1>4 DEF StartTable, restVars, Work
  <2> QED
    BY <1>2, <2>1 DEF Moving, Live
<1>5. CASE LoadFailed(t)
  <2>1. work'[t].pc = "done" /\ commit'[t].pc = "none"
    BY <1>1, <1>3, <1>5 DEF LoadFailed, restVars, Work
  <2> QED
    BY <2>1 DEF Moving, Live
<1>6. ASSUME NEW result \in Results, Over(t, result) PROVE Moving(t)'
  <2>1. work'[t].base = work[t].base /\ UNCHANGED branch /\ commit'[t].pc = "none" /\ work[t].pc \in {"next", "committing"}
    BY <1>6, ReportSteps DEF Over
  <2> QED
    BY <1>2, <2>1 DEF Moving, Live
<1>7. CASE Attempt(t)
  <2>1. /\ work'[t].base = work[t].base /\ work'[t].attempt = 1 /\ work[t].pc = "next"
        /\ commit'[t].pc = "committing" /\ commit'[t].base = work[t].base /\ UNCHANGED branch
    BY <1>1, <1>3, <1>7 DEF Attempt, HasNext, StartCommit, Work
  <2> QED
    BY <1>2, <2>1 DEF Moving
<1>8. CASE AttemptAgain(t)
  <2>1. /\ work'[t].base = work[t].base /\ work'[t].attempt = work[t].attempt + 1
        /\ commit[t].pc = "conflicted" /\ work[t].pc = "committing"
    BY <1>1, <1>8 DEF AttemptAgain, Committing, Work
  <2>2. commit'[t].pc = "committing" /\ commit'[t].base = branch[t].moves /\ UNCHANGED branch
    BY <1>1, <1>8 DEF AttemptAgain, StartCommit, Reloaded
  <2> QED
    BY <1>2, <2>1, <2>2 DEF Moving
<1>9. CASE CommitStep(t)
  <2>1. branch'[t].moves >= branch[t].moves
    <3>1. \A id : Move(t, id) => branch'[t].moves = branch[t].moves + 1
      BY <1>1 DEF Move
    <3> QED
      BY <1>2, <1>9, <3>1, CommitGoesOn DEF restVars
  <2>2. UNCHANGED work /\ work[t].pc = "committing"
    BY <1>9, CommitGoesOn DEF CommitStep, Committing
  <2>3. CASE UNCHANGED restVars
    BY <2>2, <2>3 DEF restVars, Moving, Live
  <2>4. CASE Live(t) /\ commit'[t].pc \in {"committing", "waiting"} /\ commit'[t].base = commit[t].base
    BY <1>2, <2>1, <2>2, <2>4 DEF Moving, Live
  <2>5. CASE Live(t) /\ commit'[t].pc \in Outcomes \ {"conflicted"}
    BY <1>2, <2>1, <2>2, <2>5 DEF Moving, Live, Outcomes
  <2>6. CASE Live(t) /\ commit'[t].pc = "conflicted" /\ ~Holds(Request(t)) /\ UNCHANGED branch
    <3>1. branch[t].moves # commit[t].base
      BY <2>6 DEF Holds, Request
    <3>2. commit[t].base >= work[t].base + work[t].attempt - 1 /\ commit[t].base <= branch[t].moves
      BY <2>6 DEF Moving
    <3>3. work[t].base <= branch[t].moves
      BY <2>2 DEF Moving
    <3>4. branch[t].moves >= work[t].base + work[t].attempt
      BY <1>2, <3>1, <3>2
    <3>5. UNCHANGED <<work, branch>> /\ commit'[t].pc = "conflicted"
      BY <2>2, <2>6
    <3> QED
      BY <3>3, <3>4, <3>5 DEF Moving, Live
  <2>7. \/ UNCHANGED restVars
        \/ Live(t) /\ commit'[t].pc \in {"committing", "waiting"} /\ commit'[t].base = commit[t].base
        \/ Live(t) /\ commit'[t].pc \in Outcomes \ {"conflicted"}
        \/ Live(t) /\ commit'[t].pc = "conflicted" /\ ~Holds(Request(t)) /\ UNCHANGED branch
    BY <1>9, CommitGoesOn
  <2> QED
    BY <2>3, <2>4, <2>5, <2>6, <2>7
<1> QED
  BY <1>4, <1>5, <1>6, <1>7, <1>8, <1>9, TableCases

LEMMA ConflictsInductive == TypeOK /\ RunOK /\ ConflictsOK /\ [Next]_vars => ConflictsOK'
<1> SUFFICES ASSUME TypeOK, RunOK, ConflictsOK, [Next]_vars, NEW s \in Tasks PROVE Moving(s)'
  BY DEF ConflictsOK, Moving
<1>1. Moving(s)
  BY DEF ConflictsOK, Moving
<1>2. ASSUME NEW t \in Tasks, TableStep(t) PROVE Moving(s)'
  <2>1. CASE s = t
    BY <1>1, <1>2, <2>1, MovingKept
  <2>2. CASE s # t
    BY <1>1, <1>2, <2>2, OnlyItsTable DEF Moving, Live
  <2> QED
    BY <2>1, <2>2
<1>3. CASE \A t \in Tasks : ~TableStep(t)
  <2>1. branch'[s].moves >= branch[s].moves /\ UNCHANGED commit
    BY <1>3, OutsideSteps
  <2>2. CASE UNCHANGED work
    <3>1. /\ branch[s].moves \in Nat /\ work[s].base \in Nat /\ work[s].attempt \in Nat /\ commit[s].base \in Nat
          /\ branch'[s].moves \in Nat
      BY TypeStep, EngineAssumption DEF TypeOK, RunTypeOK, RestTypeOK, Work, Commit
    <3> QED
      BY <1>1, <2>1, <2>2, <3>1 DEF Moving, Live
  <2>3. CASE work # work'
    <3>1. RunOK' /\ work'[s].pc = "unstarted"
      <4>1. RunOK'
        BY RunInductive
      <4>2. phase' # "running"
        BY <1>3, <2>3 DEF Next, Plan, DiscoveryFailed, Run, EndRun, Foreground, LateArrival, Tick, vars, runVars
      <4> QED
        BY <4>1, <4>2 DEF RunOK
    <3>2. commit'[s].pc = "none"
      BY <3>1 DEF RunOK
    <3> QED
      BY <3>1, <3>2 DEF Moving, Live
  <2> QED
    BY <2>2, <2>3
<1> QED
  BY <1>2, <1>3

LEMMA ConflictsInit == Init => RunOK /\ ConflictsOK
  BY DEF Init, RestInit, NoCommit, Unstarted, RunOK, ConflictsOK, Live

OutcomeOf(t, result) ==
    [kind |-> Kind(t), result |-> result,
     moves |-> IF result = "conflicted" THEN branch[t].moves - work[t].base ELSE 0]

(* A report adds one outcome to one table's, and keeps the rest.            *)
LEMMA ReportAppends ==
    ASSUME TypeOK, NEW t \in Tasks, NEW result, Report(t, result)
    PROVE  /\ report.outcomes[t] \in Seq(Outcome)
           /\ report'.outcomes[t] = Append(report.outcomes[t], OutcomeOf(t, result))
           /\ \A s \in Tasks \ {t} : report'.outcomes[s] = report.outcomes[s]
           /\ report'.deferred = report.deferred
  BY DEF TypeOK, RunTypeOK, Reports, Report, OutcomeOf

(* A table's step leaves the outcomes of the others, and its own unless its *)
(* operation is over.                                                       *)
LEMMA OutcomesStay ==
    ASSUME TypeOK, RunOK, NEW t \in Tasks, TableStep(t)
    PROVE  /\ report'.deferred = report.deferred
           /\ \A s \in Tasks \ {t} : report'.outcomes[s] = report.outcomes[s]
           /\ \/ report'.outcomes[t] = report.outcomes[t]
              \/ LoadFailed(t)
              \/ \E result \in Results : Over(t, result)
<1>1. StartTable(t) \/ Attempt(t) \/ AttemptAgain(t) \/ CommitStep(t) => UNCHANGED report
  BY DEF StartTable, Attempt, AttemptAgain, CommitStep, runVars
<1>2. LoadFailed(t) => /\ report'.deferred = report.deferred
                       /\ \A s \in Tasks \ {t} : report'.outcomes[s] = report.outcomes[s]
  BY DEF LoadFailed, TypeOK, RunTypeOK, Reports
<1>3. \A result \in Results : Over(t, result) =>
        /\ report'.deferred = report.deferred
        /\ \A s \in Tasks \ {t} : report'.outcomes[s] = report.outcomes[s]
  BY ReportAppends DEF Over
<1> QED
  BY <1>1, <1>2, <1>3, TableCases

RealConflicts(outcomes) ==
    \A i \in DOMAIN outcomes :
        outcomes[i].result = "conflicted" /\ outcomes[i].kind # "expire" => outcomes[i].moves >= MaxCommitAttempts

LEMMA ConflictsReported == TypeOK /\ RunOK /\ ConflictsOK /\ ConflictsAreReal /\ [Next]_vars => ConflictsAreReal'
<1> SUFFICES ASSUME TypeOK, RunOK, ConflictsOK, ConflictsAreReal, [Next]_vars, NEW s \in Tasks
             PROVE  RealConflicts(report'.outcomes[s])
  BY DEF ConflictsAreReal, RealConflicts
<1>1. RealConflicts(report.outcomes[s])
  BY DEF ConflictsAreReal, RealConflicts
<1>2. ASSUME NEW t \in Tasks, TableStep(t) PROVE RealConflicts(report'.outcomes[s])
  <2>1. CASE report'.outcomes[s] = report.outcomes[s]
    BY <1>1, <2>1
  <2>2. CASE s = t /\ LoadFailed(t)
    <3>1. \E kind : report'.outcomes[s] = <<[kind |-> kind, result |-> "failed", moves |-> 0]>>
      BY <2>2 DEF LoadFailed, TypeOK, RunTypeOK, Reports
    <3> QED
      BY <3>1 DEF RealConflicts
  <2>3. ASSUME s = t, NEW result \in Results, Over(t, result) PROVE RealConflicts(report'.outcomes[s])
    <3> DEFINE old == report.outcomes[t]
               new == OutcomeOf(t, result)
    <3>1. old \in Seq(Outcome) /\ report'.outcomes[s] = Append(old, new)
      BY <2>3, ReportAppends DEF Over
    <3>2. ASSUME result = "conflicted", Kind(t) # "expire" PROVE new.moves >= MaxCommitAttempts
      <4>1. commit[t].pc = "conflicted" /\ ~AttemptsLeft(t)
        BY <2>3, <3>2 DEF Over
      <4>2. branch[t].moves >= work[t].base + work[t].attempt
        BY <4>1 DEF ConflictsOK
      <4>3. /\ branch[t].moves \in Nat /\ work[t].base \in Nat /\ work[t].attempt \in Nat
            /\ MaxCommitAttempts \in Nat /\ work[t].attempt >= MaxCommitAttempts
        BY <4>1, EngineAssumption DEF AttemptsLeft, TypeOK, RestTypeOK, RunTypeOK, Work
      <4> QED
        BY <3>2, <4>2, <4>3 DEF OutcomeOf
    <3>3. new.result = result /\ new.kind = Kind(t)
      BY DEF OutcomeOf
    <3>4. RealConflicts(old)
      BY <1>1, <2>3
    <3> HIDE DEF old, new
    <3>5. \A i \in DOMAIN Append(old, new) :
            (i \in DOMAIN old /\ Append(old, new)[i] = old[i]) \/ Append(old, new)[i] = new
      BY <3>1
    <3> QED
      BY <3>1, <3>2, <3>3, <3>4, <3>5 DEF RealConflicts
  <2> QED
    BY <1>2, <2>1, <2>2, <2>3, OutcomesStay
<1>3. CASE \A t \in Tasks : ~TableStep(t)
  <2>1. RealConflicts(NoReport.outcomes[s])
    BY DEF NoReport, RealConflicts
  <2> QED
    BY <1>1, <1>3, <2>1, OutsideSteps
<1> QED
  BY <1>2, <1>3

(* An operation is reported as conflicted only when the table moved under   *)
(* every one of its attempts (compact/mod.rs:644-682, engine.rs:562-582):   *)
(* each is rebuilt on the table as it then is, so a conflict of its own     *)
(* making, or of a stale base kept from attempt to attempt, is not          *)
(* possible.                                                                *)
THEOREM ConflictsReal == Spec => []ConflictsAreReal
<1>1. Init => ConflictsAreReal
  BY DEF Init, NoReport, ConflictsAreReal
<1> QED
  BY <1>1, ConflictsInit, RunInductive, ConflictsInductive, ConflictsReported, TypeCorrect, PTL DEF Spec

-----------------------------------------------------------------------------
(* Commits are applied in order *)

(* The commit a table is at was asked for, and it is later than any that    *)
(* was asked for before the table came to its operation, or before this     *)
(* attempt.                                                                 *)
LEMMA AtWork ==
    ASSUME TypeOK, RunOK, NEW t \in Tasks, work[t].pc \in {"next", "committing"}
    PROVE  /\ phase = "running" /\ CommitId(t) \in CommitIds
           /\ work[t].pc = "committing" => Asked(CommitId(t), t)
           /\ \A id \in CommitIds : Asked(id, t) /\ work[t].pc = "next" => Earlier(id, CommitId(t))
           /\ \A id, again \in CommitIds :
                  /\ Asked(id, t)
                  /\ again.cycle = cycle /\ again.kind = Kind(t) /\ again.attempt = work[t].attempt + 1
                  => Earlier(id, again)
<1>1. phase = "running"
  BY DEF RunOK
<1>2. /\ Kind(t) \in work[t].left /\ Kind(t) \in Kinds /\ CommitId(t) \in CommitIds
      /\ \A k \in work[t].left : k = Kind(t) \/ Place(Kind(t)) < Place(k)
  BY KindIsLeft DEF TypeOK
<1>3. /\ CommitId(t).cycle = cycle /\ CommitId(t).kind = Kind(t) /\ CommitId(t).attempt = work[t].attempt
  BY DEF CommitId
<1>4. cycle \in Nat /\ work[t].attempt \in Nat
  BY EngineAssumption DEF TypeOK, RunTypeOK, Work
<1>5. work[t].pc = "committing" => Asked(CommitId(t), t)
  BY <1>1, <1>2, <1>3, <1>4 DEF Asked
<1>6. ASSUME NEW id \in CommitIds, Asked(id, t)
      PROVE  /\ \/ id.cycle < cycle
                \/ id.cycle = cycle /\ Place(id.kind) < Place(Kind(t))
                \/ work[t].pc = "committing" /\ id.cycle = cycle /\ id.kind = Kind(t) /\ id.attempt <= work[t].attempt
             /\ id.attempt \in Nat
  BY <1>1, <1>2, <1>4, <1>6 DEF Asked, CommitIds
<1>7. ASSUME NEW id \in CommitIds, Asked(id, t), work[t].pc = "next" PROVE Earlier(id, CommitId(t))
  BY <1>3, <1>6, <1>7 DEF Earlier
<1>8. ASSUME NEW id \in CommitIds, NEW again \in CommitIds, Asked(id, t),
             again.cycle = cycle, again.kind = Kind(t), again.attempt = work[t].attempt + 1
      PROVE  Earlier(id, again)
  BY <1>4, <1>6, <1>8 DEF Earlier
<1> QED
  BY <1>1, <1>2, <1>5, <1>7, <1>8

(* What was asked for stays asked for.                                      *)
LEMMA AskedStays ==
    ASSUME TypeOK, RunOK, [Next]_vars, NEW s \in Tasks, NEW id \in CommitIds, Asked(id, s)
    PROVE  Asked(id, s)'
<1>1. /\ cycle \in Nat /\ id.cycle \in Nat /\ id.attempt \in Nat /\ work \in [Tasks -> Work]
      /\ work[s].attempt \in Nat /\ phase \in {"idle", "planned", "running"}
  BY EngineAssumption DEF TypeOK, RunTypeOK, CommitIds, Work
<1>2. id.cycle <= cycle
  BY DEF Asked
<1>3. CASE Plan \/ DiscoveryFailed
  <2>1. cycle' = cycle + 1
    BY <1>3 DEF Plan, DiscoveryFailed
  <2> QED
    BY <1>1, <1>2, <2>1 DEF Asked
<1>4. CASE Run
  <2>1. cycle' = cycle /\ phase = "planned"
    BY <1>4 DEF Run
  <2>2. id.cycle # cycle
    BY <2>1 DEF Asked
  <2> QED
    BY <1>2, <2>1, <2>2 DEF Asked
<1>5. CASE EndRun
  <2>1. cycle' = cycle /\ phase' = "idle"
    BY <1>5 DEF EndRun
  <2> QED
    BY <1>2, <2>1 DEF Asked
<1>6. ASSUME UNCHANGED <<cycle, phase>>, work'[s] = work[s] PROVE Asked(id, s)'
  BY <1>6 DEF Asked, Kind
<1>7. CASE LateArrival \/ Tick \/ UNCHANGED vars \/ \E t \in Tasks : Foreground(t)
  BY <1>6, <1>7 DEF LateArrival, Tick, vars, Foreground, runVars
<1>8. ASSUME NEW t \in Tasks, TableStep(t) PROVE Asked(id, s)'
  <2>1. UNCHANGED <<cycle, phase>>
    BY <1>8, OnlyItsTable
  <2>2. CASE s # t
    BY <1>6, <1>8, <2>1, <2>2, OnlyItsTable
  <2>3. CASE s = t /\ (StartTable(t) \/ LoadFailed(t))
    <3>1. phase = "running" /\ work[s].pc = "unstarted"
      BY <2>3 DEF StartTable, LoadFailed
    <3>2. id.cycle # cycle
      BY <3>1 DEF Asked
    <3> QED
      BY <1>2, <2>1, <3>2 DEF Asked
  <2>4. CASE s = t /\ work[s].pc \in {"next", "committing"} /\ id.cycle = cycle
    <3> USE <2>4
    <3>1. phase = "running" /\ work[s].pc # "unstarted"
      BY DEF RunOK
    <3>2. \A k \in work[s].left :
              \/ Place(id.kind) < Place(k)
              \/ work[s].pc = "committing" /\ id.kind = k /\ k = Kind(s) /\ id.attempt <= work[s].attempt
      BY <3>1 DEF Asked
    <3>3. ASSUME NEW result \in Results, Over(t, result) PROVE Asked(id, s)'
      <4>1. work'[s].left = work[s].left \ {Kind(s)} /\ work'[s].pc = PlaceWith(work'[s].left)
        BY <3>3, ReportSteps DEF Over
      <4>2. work'[s].pc # "unstarted" /\ \A k \in work'[s].left : Place(id.kind) < Place(k)
        BY <3>2, <4>1 DEF PlaceWith
      <4> QED
        BY <1>2, <2>1, <3>1, <4>2 DEF Asked
    <3>4. ASSUME Attempt(t) PROVE Asked(id, s)'
      <4>1. work[s].pc = "next" /\ work'[s].left = work[s].left /\ work'[s].pc = "committing"
        BY <1>1, <3>4 DEF Attempt, HasNext, Work
      <4> QED
        BY <1>2, <2>1, <3>1, <3>2, <4>1 DEF Asked
    <3>5. ASSUME AttemptAgain(t) PROVE Asked(id, s)'
      <4>1. /\ work[s].pc = "committing" /\ work'[s].left = work[s].left /\ work'[s].pc = "committing"
            /\ work'[s].attempt = work[s].attempt + 1
        BY <1>1, <3>5 DEF AttemptAgain, Committing, Work
      <4>2. Kind(s)' = Kind(s)
        BY <4>1 DEF Kind
      <4>3. id.attempt <= work[s].attempt => id.attempt <= work'[s].attempt
        BY <1>1, <4>1
      <4> QED
        BY <1>2, <2>1, <3>1, <3>2, <4>1, <4>2, <4>3 DEF Asked
    <3>6. ASSUME CommitStep(t) PROVE Asked(id, s)'
      BY <1>6, <2>1, <3>6, CommitGoesOn
    <3>7. ~StartTable(t) /\ ~LoadFailed(t)
      BY DEF StartTable, LoadFailed
    <3> QED
      BY <1>8, <3>3, <3>4, <3>5, <3>6, <3>7, TableCases
  <2>5. CASE id.cycle # cycle
    BY <1>2, <2>1, <2>5 DEF Asked
  <2>6. CASE s = t /\ work[s].pc \in {"unstarted", "done"} /\ ~StartTable(t) /\ ~LoadFailed(t)
    <3>1. ~Attempt(t) /\ ~AttemptAgain(t) /\ ~CommitStep(t) /\ \A result \in Results : ~Over(t, result)
      BY <2>6 DEF Attempt, HasNext, AttemptAgain, Committing, CommitStep, Over
    <3> QED
      BY <1>8, <2>6, <3>1, TableCases
  <2>7. work[s].pc \in {"unstarted", "next", "committing", "done"}
    BY <1>1 DEF Work
  <2> QED
    BY <2>2, <2>3, <2>4, <2>5, <2>6, <2>7
<1> QED
  BY <1>3, <1>4, <1>5, <1>7, <1>8 DEF Next

Ordered(t) ==
    /\ branch[t].last # NoId => Asked(branch[t].last, t)
    /\ Live(t) => /\ commit[t].id = CommitId(t)
                  /\ Holds(Request(t)) => Earlier(branch[t].last, commit[t].id)

Coming(r) ==
    /\ r.id \in CommitIds /\ Asked(r.id, r.task)
    /\ Holds(r) /\ Earlier(branch[r.task].last, r.id)

(* What was applied last stays asked for.                                   *)
LEMMA LastAsked ==
    ASSUME TypeOK, RunOK, OrderOK, [Next]_vars, NEW s \in Tasks, branch'[s].last = branch[s].last
    PROVE  (branch[s].last # NoId => Asked(branch[s].last, s))'
<1>1. PICK id \in Ids : id = branch[s].last
  BY DEF TypeOK, RestTypeOK
<1>2. branch'[s].last = id
  BY <1>1
<1>3. id # NoId => id \in CommitIds /\ Asked(id, s)
  BY <1>1 DEF OrderOK, Ids
<1>4. id # NoId => Asked(id, s)'
  BY <1>3, AskedStays
<1> QED
  BY <1>2, <1>4 DEF Asked

(* A table is still in order where neither its branch nor its commit moved, *)
(* or where its operation is over.                                          *)
LEMMA OrderStays ==
    ASSUME TypeOK, RunOK, OrderOK, [Next]_vars, NEW s \in Tasks, branch'[s] = branch[s],
           Live(s)' => commit'[s] = commit[s] /\ CommitId(s)' = CommitId(s)
    PROVE  Ordered(s)'
<1>1. (branch[s].last # NoId => Asked(branch[s].last, s))'
  BY LastAsked
<1>2. ASSUME Live(s)'
      PROVE  commit'[s].id = CommitId(s)' /\ (Holds(Request(s)) => Earlier(branch[s].last, commit[s].id))'
  <2>1. Live(s) /\ commit'[s] = commit[s] /\ CommitId(s)' = CommitId(s)
    BY <1>2 DEF Live
  <2>2. commit[s].id = CommitId(s) /\ (Holds(Request(s)) => Earlier(branch[s].last, commit[s].id))
    BY <2>1 DEF OrderOK
  <2>3. Holds(Request(s))' = Holds(Request(s))
    BY <2>1 DEF Holds, Request
  <2> QED
    BY <2>1, <2>2, <2>3 DEF Earlier, Place
<1> QED
  BY <1>1, <1>2 DEF Ordered

(* Once a table has moved, no commit that was built before can land.        *)
LEMMA OrderMoves ==
    ASSUME TypeOK, RunOK, ConflictsOK, OrderOK, [Next]_vars, NEW s \in Tasks, NEW id \in Ids, Move(s, id),
           id # NoId => Asked(id, s)',
           Live(s)' => Live(s) /\ commit'[s].id = commit[s].id /\ commit'[s].base = commit[s].base
                        /\ CommitId(s)' = CommitId(s)
    PROVE  Ordered(s)'
<1>1. branch'[s].moves = branch[s].moves + 1 /\ branch'[s].last = id /\ branch[s].moves \in Nat
  BY DEF Move, TypeOK, RestTypeOK
<1>2. branch'[s].last # NoId => Asked(branch[s].last, s)'
  BY <1>1 DEF Asked
<1>3. ASSUME Live(s)' PROVE commit'[s].id = CommitId(s)' /\ ~Holds(Request(s))'
  <2>1. commit[s].id = CommitId(s) /\ commit[s].base <= branch[s].moves
    BY <1>3 DEF OrderOK, ConflictsOK
  <2>2. commit[s].base \in Nat
    BY DEF TypeOK, RestTypeOK, Commit
  <2> QED
    BY <1>1, <1>3, <2>1, <2>2 DEF Holds, Request
<1> QED
  BY <1>2, <1>3 DEF Ordered

(* A request that is on its way stays in order while its table stays.       *)
LEMMA ComingStays ==
    ASSUME TypeOK, RunOK, OrderOK, [Next]_vars, NEW r \in late, branch'[r.task] = branch[r.task]
    PROVE  Coming(r)'
<1>1. r.id \in CommitIds /\ Asked(r.id, r.task) /\ Holds(r) /\ Earlier(branch[r.task].last, r.id) /\ r.task \in Tasks
  BY DEF OrderOK, TypeOK, RestTypeOK, Late
<1>2. Asked(r.id, r.task)'
  BY <1>1, AskedStays
<1> QED
  BY <1>1, <1>2 DEF Coming, Holds, Earlier, Place

(* A table's own step keeps it in order.                                    *)
LEMMA OrderKept ==
    ASSUME TypeOK, RunOK, ConflictsOK, OrderOK, NEW t \in Tasks, TableStep(t)
    PROVE  Ordered(t)'
<1>1. /\ work \in [Tasks -> Work] /\ commit \in [Tasks -> Commit]
      /\ branch \in [Tasks -> [moves : Nat, last : Ids]]
      /\ [Next]_vars /\ RunOK'
  <2>1. [Next]_vars
    BY DEF Next
  <2> QED
    BY <2>1, RunInductive DEF TypeOK, RunTypeOK, RestTypeOK
<1>2. CASE StartTable(t) \/ LoadFailed(t)
  <2>1. UNCHANGED <<branch, commit>> /\ work[t].pc = "unstarted"
    BY <1>2 DEF StartTable, LoadFailed, restVars
  <2>2. ~Live(t)'
    BY <2>1 DEF RunOK, Live
  <2> QED
    BY <1>1, <2>1, <2>2, OrderStays
<1>3. ASSUME NEW result \in Results, Over(t, result) PROVE Ordered(t)'
  <2>1. ~Live(t)' /\ UNCHANGED branch
    BY <1>3 DEF Over, Live
  <2> QED
    BY <1>1, <2>1, OrderStays
<1>4. branch[t].last # NoId => branch[t].last \in CommitIds /\ Asked(branch[t].last, t)
  BY <1>1 DEF OrderOK, Ids
<1>5. ASSUME UNCHANGED branch, NEW id \in CommitIds, commit'[t].id = id, CommitId(t)' = id,
             branch[t].last # NoId => Earlier(branch[t].last, id)
      PROVE  Ordered(t)'
  <2>1. (branch[t].last # NoId => Asked(branch[t].last, t))'
    BY <1>1, <1>5, LastAsked
  <2>2. Earlier(branch[t].last, id)
    BY <1>5 DEF Earlier
  <2>3. Earlier(branch[t].last, commit[t].id)'
    BY <1>5, <2>2 DEF Earlier, Place
  <2> QED
    BY <1>5, <2>1, <2>3 DEF Ordered
<1>6. CASE Attempt(t)
  <2>1. /\ commit'[t].id = CommitId(t) /\ work[t].pc = "next" /\ UNCHANGED <<branch, cycle>>
        /\ work'[t].left = work[t].left /\ work'[t].attempt = work[t].attempt
    BY <1>1, <1>6 DEF Attempt, HasNext, StartCommit, Work
  <2>2. CommitId(t)' = CommitId(t)
    BY <2>1 DEF CommitId, Kind
  <2> QED
    BY <1>4, <1>5, <2>1, <2>2, AtWork
<1>7. CASE AttemptAgain(t)
  <2> DEFINE id == [CommitId(t) EXCEPT !.attempt = work[t].attempt + 1]
  <2>1. /\ work[t].pc = "committing" /\ UNCHANGED <<branch, cycle>>
        /\ work'[t].left = work[t].left /\ work'[t].attempt = work[t].attempt + 1
    BY <1>1, <1>7 DEF AttemptAgain, Committing, StartCommit, Work
  <2>2. CommitId(t).attempt = work[t].attempt
    BY DEF CommitId
  <2>3. commit'[t].id = id
    BY <1>1, <1>7, <2>2 DEF AttemptAgain, StartCommit
  <2>4. CommitId(t)' = id
    BY <2>1 DEF CommitId, Kind
  <2>5. id \in CommitIds
    <3>1. CommitId(t) \in CommitIds /\ work[t].attempt + 1 \in Nat
      BY <1>1, <2>1, AtWork, EngineAssumption DEF Work
    <3> QED
      BY <3>1 DEF CommitIds
  <2>6. id.cycle = cycle /\ id.kind = Kind(t) /\ id.attempt = work[t].attempt + 1
    BY DEF CommitId
  <2> HIDE DEF id
  <2>7. branch[t].last # NoId => Earlier(branch[t].last, id)
    BY <1>4, <2>1, <2>5, <2>6, AtWork
  <2> QED
    BY <1>5, <2>1, <2>3, <2>4, <2>5, <2>7
<1>8. CASE CommitStep(t)
  <2>1. UNCHANGED <<work, cycle>> /\ work[t].pc = "committing"
    BY <1>8, CommitGoesOn DEF CommitStep, Committing, runVars
  <2>2. CommitId(t)' = CommitId(t)
    BY <2>1 DEF CommitId, Kind
  <2>3. CASE UNCHANGED restVars
    BY <1>1, <2>2, <2>3, OrderStays DEF restVars
  <2>4. CASE ~UNCHANGED restVars
    <3>1. Live(t) /\ (Live(t)' => commit'[t].id = commit[t].id /\ commit'[t].base = commit[t].base)
      BY <1>8, <2>4, CommitGoesOn DEF Live, Outcomes
    <3>2. commit[t].id = CommitId(t) /\ CommitId(t) \in CommitIds /\ Asked(CommitId(t), t)
      BY <2>1, <3>1, AtWork DEF OrderOK
    <3>3. Asked(CommitId(t), t)'
      <4>1. PICK id \in CommitIds : id = CommitId(t)
        BY <3>2
      <4>2. Asked(id, t)'
        BY <1>1, <3>2, <4>1, AskedStays
      <4>3. CommitId(t)' = id
        BY <2>2, <4>1
      <4> QED
        BY <4>2, <4>3 DEF Asked
    <3>4. CASE UNCHANGED branch
      <4>1. (branch[t].last # NoId => Asked(branch[t].last, t))'
        BY <1>1, <3>4, LastAsked
      <4>2. ASSUME Live(t)'
            PROVE  commit'[t].id = CommitId(t)' /\ (Holds(Request(t)) => Earlier(branch[t].last, commit[t].id))'
        <5>1. commit'[t].id = commit[t].id /\ commit'[t].base = commit[t].base
          BY <3>1, <4>2
        <5>2. Holds(Request(t))' = Holds(Request(t))
          BY <3>4, <5>1 DEF Holds, Request
        <5>3. Holds(Request(t)) => Earlier(branch[t].last, commit[t].id)
          BY <3>1 DEF OrderOK
        <5> QED
          BY <2>2, <3>2, <3>4, <5>1, <5>2, <5>3 DEF Earlier, Place
      <4> QED
        BY <4>1, <4>2 DEF Ordered
    <3>5. CASE Move(t, commit[t].id)
      <4>1. PICK id \in CommitIds : id = CommitId(t)
        BY <3>2
      <4>2. Asked(id, t)' /\ id \in Ids /\ Move(t, id)
        BY <1>1, <3>2, <3>5, <4>1, AskedStays DEF Ids
      <4> QED
        BY <1>1, <2>2, <3>1, <4>2, OrderMoves
    <3> QED
      BY <1>8, <2>4, <3>4, <3>5, CommitGoesOn
  <2> QED
    BY <2>3, <2>4
<1> QED
  BY <1>2, <1>3, <1>6, <1>7, <1>8, TableCases

(* So does it the requests to its table that are still on their way.        *)
LEMMA ComingKept ==
    ASSUME TypeOK, RunOK, ConflictsOK, OrderOK, NEW t \in Tasks, TableStep(t), NEW r \in late'
    PROVE  Coming(r)'
<1>1. [Next]_vars
  BY DEF Next
<1>2. late \subseteq Late
  BY DEF TypeOK, RestTypeOK
<1>3. ASSUME r \in late, branch'[r.task] = branch[r.task] PROVE Coming(r)'
  BY <1>1, <1>3, ComingStays
<1>4. CASE r.task # t
  BY <1>2, <1>3, <1>4, OnlyItsTable DEF Late
<1>5. ASSUME Live(t), UNCHANGED branch, r \in StillComing(t) PROVE Coming(r)'
  <2>1. r = Request(t) /\ Holds(r) /\ r.task = t /\ r.id = commit[t].id
    BY <1>5 DEF StillComing, Request
  <2>2. work[t].pc = "committing"
    BY <1>5 DEF RunOK, Live
  <2>3. r.id = CommitId(t) /\ Earlier(branch[t].last, r.id)
    BY <1>5, <2>1 DEF OrderOK
  <2>4. r.id \in CommitIds /\ Asked(CommitId(t), t)
    BY <2>2, <2>3, AtWork
  <2>5. Asked(r.id, t)
    BY <2>3, <2>4 DEF Asked
  <2>6. Asked(r.id, t)'
    BY <1>1, <2>4, <2>5, AskedStays
  <2> QED
    BY <1>5, <2>1, <2>3, <2>4, <2>6 DEF Coming, Holds, Earlier, Place
<1>6. CASE r.task = t
  <2>1. \/ UNCHANGED <<branch, late>>
        \/ Live(t) /\ UNCHANGED branch /\ late' = late \cup StillComing(t)
        \/ Move(t, commit[t].id)
    <3>1. StartTable(t) \/ LoadFailed(t) \/ Attempt(t) \/ AttemptAgain(t) => UNCHANGED <<branch, late>>
      BY DEF StartTable, LoadFailed, Attempt, AttemptAgain, StartCommit, restVars
    <3>2. \A result \in Results : Over(t, result) =>
            \/ UNCHANGED <<branch, late>>
            \/ Live(t) /\ UNCHANGED branch /\ late' = late \cup StillComing(t)
      BY DEF Over
    <3>3. CommitStep(t) =>
            \/ UNCHANGED <<branch, late>>
            \/ Live(t) /\ UNCHANGED branch /\ late' = late \cup StillComing(t)
            \/ Move(t, commit[t].id)
      BY CommitGoesOn DEF restVars
    <3> QED
      BY <3>1, <3>2, <3>3, TableCases
  <2>2. ~Move(t, commit[t].id)
    BY <1>6 DEF Move
  <2> QED
    BY <1>3, <1>5, <2>1, <2>2
<1> QED
  BY <1>4, <1>6

LEMMA OrderInductive == TypeOK /\ RunOK /\ ConflictsOK /\ OrderOK /\ [Next]_vars => OrderOK'
<1> SUFFICES ASSUME TypeOK, RunOK, ConflictsOK, OrderOK, [Next]_vars PROVE OrderOK'
  OBVIOUS
<1>1. ASSUME \A s \in Tasks : Ordered(s)', \A r \in late' : Coming(r)' PROVE OrderOK'
  BY <1>1 DEF OrderOK, Ordered, Coming
<1>2. RunOK' /\ late \subseteq Late /\ branch \in [Tasks -> [moves : Nat, last : Ids]]
  BY RunInductive DEF TypeOK, RestTypeOK
<1>3. ASSUME NEW t \in Tasks, TableStep(t) PROVE OrderOK'
  <2>1. ASSUME NEW s \in Tasks PROVE Ordered(s)'
    <3>1. CASE s = t
      BY <1>3, <3>1, OrderKept
    <3>2. CASE s # t
      <4>1. branch'[s] = branch[s] /\ commit'[s] = commit[s] /\ work'[s] = work[s] /\ cycle' = cycle
        BY <1>3, <3>2, OnlyItsTable
      <4>2. CommitId(s)' = CommitId(s)
        BY <4>1 DEF CommitId, Kind
      <4> QED
        BY <4>1, <4>2, OrderStays
    <3> QED
      BY <3>1, <3>2
  <2>2. ASSUME NEW r \in late' PROVE Coming(r)'
    BY <1>3, <2>2, ComingKept
  <2> QED
    BY <1>1, <2>1, <2>2
<1>4. ASSUME UNCHANGED restVars, \A s \in Tasks : Live(s) => UNCHANGED <<work, cycle>> PROVE OrderOK'
  <2>1. UNCHANGED <<branch, commit, late>>
    BY <1>4 DEF restVars
  <2>2. ASSUME NEW s \in Tasks PROVE Ordered(s)'
    <3>1. Live(s)' => CommitId(s)' = CommitId(s)
      BY <1>4, <2>1 DEF Live, CommitId, Kind
    <3> QED
      BY <2>1, <3>1, OrderStays
  <2>3. ASSUME NEW r \in late' PROVE Coming(r)'
    BY <2>1, <2>3, ComingStays
  <2> QED
    BY <1>1, <2>2, <2>3
<1>5. CASE Plan \/ DiscoveryFailed \/ Run
  <2>1. \A s \in Tasks : ~Live(s)
    BY <1>5 DEF Plan, DiscoveryFailed, Run, RunOK, Live
  <2> QED
    BY <1>4, <1>5, <2>1 DEF Plan, DiscoveryFailed, Run
<1>6. CASE EndRun
  <2>1. phase' # "running" /\ UNCHANGED restVars
    BY <1>6 DEF EndRun
  <2>2. \A s \in Tasks : ~Live(s)
    BY <1>2, <2>1 DEF RunOK, Live, restVars
  <2> QED
    BY <1>4, <2>1, <2>2
<1>7. CASE Tick \/ UNCHANGED vars
  BY <1>4, <1>7 DEF Tick, vars, runVars
<1>8. ASSUME NEW t \in Tasks, NEW id \in Ids, Move(t, id), id # NoId => Asked(id, t), UNCHANGED <<commit, work, cycle>>
      PROVE  OrderOK'
  <2>1. \A s \in Tasks : CommitId(s)' = CommitId(s) /\ Live(s)' = Live(s)
    BY <1>8 DEF CommitId, Kind, Live
  <2>2. id # NoId => Asked(id, t)'
    BY <1>8, AskedStays DEF Ids
  <2>3. ASSUME NEW s \in Tasks PROVE Ordered(s)'
    <3>1. CASE s = t
      BY <1>8, <2>1, <2>2, <3>1, OrderMoves
    <3>2. CASE s # t
      <4>1. branch'[s] = branch[s]
        BY <1>2, <1>8, <3>2 DEF Move
      <4> QED
        BY <1>8, <2>1, <4>1, OrderStays
    <3> QED
      BY <3>1, <3>2
  <2>4. ASSUME NEW r \in late' PROVE Coming(r)'
    <3>1. r \in late /\ branch'[r.task] = branch[r.task]
      BY <1>2, <1>8, <2>4 DEF Move, Late
    <3> QED
      BY <3>1, ComingStays
  <2> QED
    BY <1>1, <2>3, <2>4
<1>9. ASSUME NEW t \in Tasks, Foreground(t) PROVE OrderOK'
  <2>1. branch[t].last \in Ids /\ (branch[t].last # NoId => Asked(branch[t].last, t))
    BY <1>2 DEF OrderOK
  <2> QED
    BY <1>8, <1>9, <2>1 DEF Foreground, runVars
<1>10. CASE LateArrival
  <2>1. PICK r \in late : Arrives(r)
    BY <1>10 DEF LateArrival
  <2>2. r.task \in Tasks /\ r.id \in Ids /\ Asked(r.id, r.task)
    BY <1>2 DEF Late, OrderOK
  <2> QED
    BY <1>8, <1>10, <2>1, <2>2 DEF Arrives, LateArrival, runVars
<1>11. CASE \E t \in Tasks : TableStep(t) \/ Foreground(t)
  BY <1>3, <1>9, <1>11
<1> QED
  BY <1>5, <1>6, <1>7, <1>10, <1>11 DEF Next

(* The commits that reach a table are applied in the order of the           *)
(* operations they belong to, and none twice (rest.rs:235-309,              *)
(* engine.rs:505-582): not behind a later one when its operation was        *)
(* dropped and its request arrives late, nor again when a gateway said      *)
(* "throttled" of a commit that was applied and it is sent once more - for  *)
(* the body that is sent again still asserts where the table was.           *)
THEOREM InOrder == Spec => AppliedInOrder
<1> DEFINE step == \A t \in Tasks : branch'[t] # branch[t] /\ foreground' = foreground
                        => Earlier(branch[t].last, branch'[t].last)
<1>1. Init => OrderOK
  BY DEF Init, RestInit, NoCommit, OrderOK, Live
<1>2. TypeOK /\ RunOK /\ OrderOK /\ [Next]_vars => [step]_vars
  <2> SUFFICES ASSUME TypeOK, RunOK, OrderOK, Next, NEW t \in Tasks, branch'[t] # branch[t], foreground' = foreground
               PROVE  Earlier(branch[t].last, branch'[t].last)
    OBVIOUS
  <2>1. branch \in [Tasks -> [moves : Nat, last : Ids]] /\ late \subseteq Late
    BY DEF TypeOK, RestTypeOK
  <2>2. ASSUME NEW s \in Tasks, TableStep(s) PROVE Earlier(branch[t].last, branch'[t].last)
    <3>1. s = t
      BY <2>2, OnlyItsTable
    <3>2. ~StartTable(s) /\ ~LoadFailed(s) /\ ~Attempt(s) /\ ~AttemptAgain(s)
      BY DEF StartTable, LoadFailed, Attempt, AttemptAgain, StartCommit, restVars
    <3>3. \A result \in Results : ~Over(s, result)
      BY DEF Over
    <3>4. CommitStep(t)
      BY <2>2, <3>1, <3>2, <3>3, TableCases
    <3>5. Live(t) /\ Holds(Request(t)) /\ Move(t, commit[t].id)
      BY <3>4, CommitGoesOn DEF restVars
    <3>6. branch'[t].last = commit[t].id
      BY <2>1, <3>5 DEF Move
    <3> QED
      BY <3>5, <3>6 DEF OrderOK
  <2>3. ~(\E s \in Tasks : Foreground(s))
    BY DEF Foreground, RunOK
  <2>4. CASE LateArrival
    <3>1. PICK r \in late : Arrives(r)
      BY <2>4 DEF LateArrival
    <3>2. r.task \in Tasks /\ Move(r.task, r.id)
      BY <2>1, <3>1 DEF Late, Arrives
    <3>3. t = r.task /\ branch'[t].last = r.id
      BY <2>1, <3>2 DEF Move
    <3> QED
      BY <3>3 DEF OrderOK
  <2>5. ~Plan /\ ~DiscoveryFailed /\ ~Run /\ ~EndRun /\ ~Tick
    BY DEF Plan, DiscoveryFailed, Run, EndRun, Tick, restVars
  <2> QED
    BY <2>2, <2>3, <2>4, <2>5 DEF Next
<1> QED
  BY <1>1, <1>2, ConflictsInit, RunInductive, ConflictsInductive, OrderInductive, TypeCorrect, PTL
     DEF Spec, AppliedInOrder

-----------------------------------------------------------------------------
(* Nothing that was planned goes unreported *)

MentionedIn(outcomes, k) == \E i \in DOMAIN outcomes : outcomes[i].kind = k

(* What is mentioned stays mentioned, and an outcome mentions its kind.     *)
LEMMA AppendMentions ==
    ASSUME NEW outcomes \in Seq(Outcome), NEW outcome
    PROVE  /\ MentionedIn(Append(outcomes, outcome), outcome.kind)
           /\ \A k : MentionedIn(outcomes, k) => MentionedIn(Append(outcomes, outcome), k)
<1>1. /\ DOMAIN Append(outcomes, outcome) = 1 .. Len(outcomes) + 1
      /\ DOMAIN outcomes = 1 .. Len(outcomes) /\ Len(outcomes) \in Nat
      /\ Append(outcomes, outcome)[Len(outcomes) + 1] = outcome
      /\ \A i \in DOMAIN outcomes : Append(outcomes, outcome)[i] = outcomes[i]
  BY DEF Outcome
<1>2. \A i \in DOMAIN outcomes : i \in DOMAIN Append(outcomes, outcome)
  BY <1>1
<1>3. Len(outcomes) + 1 \in DOMAIN Append(outcomes, outcome)
  BY <1>1
<1> QED
  BY <1>1, <1>2, <1>3 DEF MentionedIn

(* What is reported of a table while it is maintained.                      *)
PlannedOf(t) ==
    /\ work[t].pc \in {"next", "committing"} => \A k \in plan.operations[t] \ work[t].left : Mentioned(t, k)
    /\ work[t].pc = "done" => Accounted(t)
    /\ work[t].pc = "unstarted" => report.outcomes[t] = <<>>

LEMMA PlannedKept ==
    ASSUME TypeOK, RunOK, NEW t \in Tasks, TableStep(t), PlannedOf(t)
    PROVE  PlannedOf(t)'
<1>1. /\ work \in [Tasks -> Work] /\ plan' = plan /\ report \in Reports
      /\ \A k : Mentioned(t, k) <=> MentionedIn(report.outcomes[t], k)
      /\ \A k : Mentioned(t, k)' <=> MentionedIn(report'.outcomes[t], k)
  BY OnlyItsTable DEF TypeOK, RunTypeOK, Mentioned, MentionedIn
<1>2. ASSUME UNCHANGED report, work[t].pc = work'[t].pc \/ {work[t].pc, work'[t].pc} \subseteq {"next", "committing"},
             work'[t].left = work[t].left
      PROVE  PlannedOf(t)'
  BY <1>1, <1>2 DEF PlannedOf, Mentioned, Accounted, LoadFailureOnly
<1>3. CASE StartTable(t)
  <2> DEFINE due == plan.operations[t]
  <2>1. work'[t].left = due /\ work'[t].pc = PlaceWith(due)
    BY <1>1, <1>3 DEF StartTable, Work
  <2> QED
    BY <1>1, <2>1 DEF PlannedOf, Accounted, PlaceWith
<1>4. CASE LoadFailed(t)
  <2>1. PICK kind : report'.outcomes[t] = <<[kind |-> kind, result |-> "failed", moves |-> 0]>>
    BY <1>1, <1>4 DEF LoadFailed, Reports
  <2>2. Len(report'.outcomes[t]) = 1 /\ report'.outcomes[t][1].result = "failed"
    BY <2>1
  <2>3. work'[t].pc = "done"
    BY <1>1, <1>4 DEF LoadFailed, Work
  <2> QED
    BY <2>2, <2>3 DEF PlannedOf, Accounted, LoadFailureOnly
<1>5. ASSUME NEW result \in Results, Over(t, result) PROVE PlannedOf(t)'
  <2>1. /\ work'[t].left = work[t].left \ {Kind(t)} /\ work'[t].pc = PlaceWith(work'[t].left)
        /\ work[t].pc \in {"next", "committing"}
    BY <1>5, ReportSteps DEF Over
  <2>2. /\ report.outcomes[t] \in Seq(Outcome)
        /\ report'.outcomes[t] = Append(report.outcomes[t], OutcomeOf(t, result))
        /\ OutcomeOf(t, result).kind = Kind(t)
    BY <1>5, ReportAppends DEF Over, OutcomeOf
  <2>3. \A k : Mentioned(t, k) => Mentioned(t, k)'
    BY <1>1, <2>2, AppendMentions
  <2>4. MentionedIn(report'.outcomes[t], Kind(t))
    BY <2>2, AppendMentions
  <2>5. \A k \in plan.operations[t] \ work'[t].left : Mentioned(t, k)'
    <3> SUFFICES ASSUME NEW k \in plan.operations[t] \ work'[t].left PROVE Mentioned(t, k)'
      OBVIOUS
    <3>1. CASE k = Kind(t)
      BY <1>1, <2>4, <3>1
    <3>2. CASE k # Kind(t)
      BY <2>1, <2>3, <3>2 DEF PlannedOf
    <3> QED
      BY <3>1, <3>2
  <2>6. CASE work'[t].left = {}
    <3>1. \A k \in plan'.operations[t] : Mentioned(t, k)'
      BY <1>1, <2>5, <2>6
    <3>2. work'[t].pc = "done"
      BY <2>1, <2>6 DEF PlaceWith
    <3> QED
      BY <3>1, <3>2 DEF PlannedOf, Accounted
  <2>7. CASE work'[t].left # {}
    <3>1. work'[t].pc = "next"
      BY <2>1, <2>7 DEF PlaceWith
    <3> QED
      BY <1>1, <2>5, <3>1 DEF PlannedOf
  <2> QED
    BY <2>6, <2>7
<1>6. CASE Attempt(t) \/ AttemptAgain(t)
  <2>1. work[t].pc \in {"next", "committing"} /\ work'[t].pc = "committing" /\ work'[t].left = work[t].left
    BY <1>1, <1>6 DEF Attempt, AttemptAgain, HasNext, Committing, Work
  <2> QED
    BY <1>2, <1>6, <2>1 DEF Attempt, AttemptAgain
<1>7. CASE CommitStep(t)
  BY <1>2, <1>7 DEF CommitStep, runVars
<1> QED
  BY <1>3, <1>4, <1>5, <1>6, <1>7, TableCases

(* What each table was found to need is planned or deferred.                *)
WantedPlanned ==
    \A t \in Tasks : wanted[t] # {} =>
        /\ t \in plan.tables
        /\ t \in plan.deferred \/ wanted[t] \subseteq plan.operations[t]

LEMMA PlanInductive == TypeOK /\ RunOK /\ PlanOK /\ [Next]_vars => PlanOK'
<1> SUFFICES ASSUME TypeOK, RunOK, PlanOK, [Next]_vars PROVE PlanOK'
  OBVIOUS
<1>1. PlanOK' <=> ((phase # "idle" => WantedPlanned) /\ (phase = "running" => report.deferred = plan.deferred)
                   /\ (phase = "running" => \A t \in Tasks : PlannedOf(t))
                   /\ (phase = "planned" => \A t \in Tasks : report.outcomes[t] = <<>>) /\ NothingDropped)'
  BY DEF PlanOK, WantedPlanned, PlannedOf
<1>2. /\ phase # "idle" => WantedPlanned
      /\ phase = "running" => report.deferred = plan.deferred
      /\ phase = "running" => \A t \in Tasks : PlannedOf(t)
      /\ phase = "planned" => \A t \in Tasks : report.outcomes[t] = <<>>
      /\ NothingDropped
  BY DEF PlanOK, WantedPlanned, PlannedOf
<1>3. NoReport.outcomes = [t \in Tasks |-> <<>>] /\ NoReport.deferred = {}
  BY DEF NoReport
<1>4. CASE Plan
  <2>1. /\ phase' = "planned" /\ report' = NoReport
        /\ \A t \in Tasks : wanted'[t] # {} => t \in plan'.tables
        /\ \A t \in Tasks \ plan'.deferred : wanted'[t] = plan'.operations[t]
    BY <1>4, PlanTypes DEF Plan, TypeOK
  <2>2. WantedPlanned'
    BY <2>1 DEF WantedPlanned
  <2> QED
    BY <1>1, <1>3, <2>1, <2>2 DEF NothingDropped
<1>5. CASE DiscoveryFailed
  <2>1. phase' = "idle" /\ \A t \in Tasks : wanted'[t] = {}
    BY <1>5 DEF DiscoveryFailed
  <2> QED
    BY <1>1, <2>1 DEF NothingDropped
<1>6. CASE Run
  <2>1. PICK kinds \in Requests : plan' = Only(kinds) /\ wanted' = [t \in Tasks |-> wanted[t] \cap kinds]
    BY <1>6 DEF Run
  <2>2. /\ plan'.deferred = plan.deferred
        /\ \A t \in Tasks : plan'.operations[t] = plan.operations[t] \cap kinds
        /\ plan'.tables = {t \in plan.tables : t \in Tasks /\ (plan'.operations[t] # {} \/ t \in plan.deferred)}
    BY <2>1 DEF Only, Kept, TypeOK, RunTypeOK, Planned
  <2>3. WantedPlanned'
    <3> SUFFICES ASSUME NEW t \in Tasks, wanted'[t] # {}
                 PROVE  t \in plan'.tables /\ (t \in plan'.deferred \/ wanted'[t] \subseteq plan'.operations[t])
      BY DEF WantedPlanned
    <3>1. wanted'[t] = wanted[t] \cap kinds /\ wanted[t] # {}
      BY <2>1
    <3>2. t \in plan.tables /\ (t \in plan.deferred \/ wanted[t] \subseteq plan.operations[t])
      BY <1>2, <1>6, <3>1 DEF Run, WantedPlanned
    <3> QED
      BY <2>2, <3>1, <3>2
  <2>4. /\ phase = "planned" /\ UNCHANGED work /\ report'.outcomes = report.outcomes
        /\ \/ phase' = "running" /\ report'.deferred = plan.deferred
           \/ phase' = "idle" /\ report'.deferred = plan'.tables
    BY <1>6 DEF Run, TypeOK, RunTypeOK, Reports
  <2>5. CASE phase' = "running"
    <3>1. report'.deferred = plan'.deferred
      BY <2>2, <2>4, <2>5
    <3>2. ASSUME NEW t \in Tasks PROVE PlannedOf(t)'
      BY <1>2, <2>4 DEF PlannedOf, RunOK
    <3> QED
      BY <1>1, <2>3, <2>5, <3>1, <3>2 DEF NothingDropped
  <2>6. CASE phase' = "idle"
    <3>1. NothingDropped'
      BY <2>3, <2>4, <2>6 DEF NothingDropped, WantedPlanned
    <3> QED
      BY <1>1, <2>6, <3>1
  <2> QED
    BY <2>4, <2>5, <2>6
<1>7. CASE EndRun
  <2>1. /\ phase = "running" /\ phase' = "idle" /\ UNCHANGED <<wanted, plan, report>>
        /\ \A t \in plan.tables : work[t].pc = "done"
    BY <1>7 DEF EndRun
  <2>2. ASSUME NEW t \in Tasks
        PROVE  \/ wanted[t] = {} \/ t \in report.deferred \/ LoadFailureOnly(t)
               \/ \A k \in wanted[t] : Mentioned(t, k)
    <3>1. SUFFICES ASSUME wanted[t] # {}, t \notin report.deferred, ~LoadFailureOnly(t)
                   PROVE  \A k \in wanted[t] : Mentioned(t, k)
      OBVIOUS
    <3>2. t \in plan.tables /\ wanted[t] \subseteq plan.operations[t]
      BY <1>2, <2>1, <3>1 DEF WantedPlanned
    <3>3. Accounted(t)
      BY <1>2, <2>1, <3>2 DEF PlannedOf
    <3> QED
      BY <3>1, <3>2, <3>3 DEF Accounted
  <2>3. NothingDropped'
    BY <2>1, <2>2 DEF NothingDropped, Mentioned, LoadFailureOnly
  <2> QED
    BY <1>1, <2>1, <2>3
<1>8. ASSUME UNCHANGED runVars PROVE PlanOK'
  BY <1>8 DEF runVars, PlanOK, Accounted, Mentioned, LoadFailureOnly, NothingDropped
<1>9. CASE LateArrival \/ Tick \/ UNCHANGED vars \/ \E t \in Tasks : Foreground(t)
  BY <1>8, <1>9 DEF LateArrival, Tick, vars, Foreground
<1>10. ASSUME NEW t \in Tasks, TableStep(t) PROVE PlanOK'
  <2>1. phase = "running" /\ UNCHANGED <<phase, wanted, plan>> /\ report'.deferred = report.deferred
    <3>1. phase = "running"
      <4>1. StartTable(t) \/ LoadFailed(t) => phase = "running"
        BY DEF StartTable, LoadFailed
      <4>2. work[t].pc # "unstarted" => phase = "running"
        BY DEF RunOK
      <4>3. Attempt(t) \/ AttemptAgain(t) \/ CommitStep(t) => work[t].pc # "unstarted"
        BY DEF Attempt, AttemptAgain, CommitStep, HasNext, Committing
      <4>4. \A result \in Results : Over(t, result) => work[t].pc # "unstarted"
        BY DEF Over
      <4> QED
        BY <1>10, <4>1, <4>2, <4>3, <4>4, TableCases
    <3> QED
      BY <1>10, <3>1, OnlyItsTable, OutcomesStay
  <2>2. ASSUME NEW s \in Tasks PROVE PlannedOf(s)'
    <3>1. CASE s = t
      BY <1>2, <1>10, <2>1, <3>1, PlannedKept
    <3>2. CASE s # t
      <4>1. work'[s] = work[s] /\ report'.outcomes[s] = report.outcomes[s]
        BY <1>10, <3>2, OnlyItsTable, OutcomesStay
      <4> QED
        BY <1>2, <2>1, <4>1 DEF PlannedOf, Accounted, Mentioned, LoadFailureOnly
    <3> QED
      BY <3>1, <3>2
  <2>3. WantedPlanned'
    BY <1>2, <2>1 DEF WantedPlanned
  <2> QED
    BY <1>1, <1>2, <2>1, <2>2, <2>3 DEF NothingDropped
<1>11. CASE \E t \in Tasks : TableStep(t) \/ Foreground(t)
  BY <1>9, <1>10, <1>11
<1> QED
  BY <1>4, <1>5, <1>6, <1>7, <1>9, <1>11 DEF Next

(* Whatever planning found to do ends up in the report of its run, as an    *)
(* outcome, as part of a table that could not be loaded, or as deferred     *)
(* (engine.rs:404-467, 505-582; plan/mod.rs:236-326): no veto, timeout,     *)
(* conflict, restriction or budget makes an operation vanish.               *)
THEOREM AllReported == Spec => []NothingDropped
<1>1. Init => PlanOK
  BY DEF Init, PlanOK, NothingDropped, Unstarted
<1>2. PlanOK => NothingDropped
  BY DEF PlanOK
<1> QED
  BY <1>1, <1>2, ConflictsInit, RunInductive, PlanInductive, TypeCorrect, PTL DEF Spec

-----------------------------------------------------------------------------
(* Runs wind down: what each table has left to do can be counted.           *)

(* The most steps of one attempt of an operation that commits, a token and  *)
(* an answer for each time it is sent; and of one operation.                *)
AttemptSteps == 5 * MaxThrottleRetries + 5
OperationSteps == MaxCommitAttempts * AttemptSteps + 1

CallSteps(call) ==
    CASE call.pc = "asking"     -> 4
      [] call.pc = "queued"     -> 3
      [] call.pc = "exchanging" -> 2
      [] call.pc \in {"armed", "failed"} -> 1
      [] OTHER -> 0

SendsLeft(request) == IF request.sends < MaxThrottleRetries THEN MaxThrottleRetries - request.sends ELSE 0

SendSteps(request) ==
    CASE request.pc = "committing" -> 5 * SendsLeft(request)
      [] request.pc = "waiting"    -> 5 * SendsLeft(request) + 5
      [] OTHER -> 0

Operations(n) == n * OperationSteps
Retries(place) == (MaxCommitAttempts - place.attempt) * AttemptSteps

(* The most steps a table at this place has left, with this commit and this *)
(* call for a token.                                                        *)
StepsLeft(place, request, call) ==
    CASE place.pc = "done"       -> 0
      [] place.pc = "unstarted"  -> Operations(Cardinality(Kinds)) + 1
      [] place.pc = "next"       -> Operations(Cardinality(place.left))
      [] place.pc = "committing" ->
            Operations(Cardinality(place.left) - 1) + Retries(place) + SendSteps(request) + CallSteps(call) + 1

ToDo(t) == StepsLeft(work[t], commit[t], client[t])

LEMMA StepCounts ==
    /\ MaxThrottleRetries \in Nat /\ MaxCommitAttempts \in Nat
    /\ AttemptSteps \in Nat /\ AttemptSteps = 5 * MaxThrottleRetries + 5
    /\ OperationSteps \in Nat
    /\ OperationSteps = Retries([attempt |-> 1]) + AttemptSteps + 1
<1>1. MaxThrottleRetries \in Nat /\ MaxCommitAttempts \in Nat \ {0}
  BY RestCommitAssumption, EngineAssumption
<1>2. AttemptSteps \in Nat /\ AttemptSteps = 5 * MaxThrottleRetries + 5
  BY <1>1 DEF AttemptSteps
<1>3. \A m, n \in Nat : m # 0 => m * n \in Nat /\ m * n = (m - 1) * n + n
  <2> SUFFICES ASSUME NEW m \in Nat, NEW n \in Nat, m # 0
               PROVE  m * n \in Nat /\ m * n = (m - 1) * n + n
    OBVIOUS
  <2> QED OBVIOUS
<1>4. MaxCommitAttempts * AttemptSteps \in Nat
      /\ MaxCommitAttempts * AttemptSteps = (MaxCommitAttempts - 1) * AttemptSteps + AttemptSteps
  BY <1>1, <1>2, <1>3
<1> QED BY <1>1, <1>2, <1>4 DEF OperationSteps, Retries

LEMMA OperationsIs ==
    ASSUME NEW n \in Nat
    PROVE  /\ Operations(n) \in Nat
           /\ Operations(n + 1) = Operations(n) + OperationSteps
           /\ \A m \in Nat : m <= n => Operations(m) <= Operations(n)
<1>1. \A m, k \in Nat : m * k \in Nat /\ (m + 1) * k = m * k + k
  OBVIOUS
<1>2. \A l, m, k \in Nat : l <= m => l * k <= m * k
  <2> SUFFICES ASSUME NEW l \in Nat, NEW m \in Nat, NEW k \in Nat, l <= m PROVE l * k <= m * k
    OBVIOUS
  <2>1. m - l \in Nat /\ m = l + (m - l)
    OBVIOUS
  <2>2. (m - l) * k \in Nat /\ m * k = l * k + (m - l) * k
    BY <2>1
  <2>3. l * k \in Nat /\ m * k \in Nat
    OBVIOUS
  <2> QED BY <2>2, <2>3
<1> QED BY <1>1, <1>2, StepCounts DEF Operations

LEMMA RetriesIs ==
    ASSUME NEW place \in Work
    PROVE  Retries(place) \in Nat
<1>1. MaxCommitAttempts - place.attempt \in Nat
  BY EngineAssumption DEF Work
<1>2. \A m, n \in Nat : m * n \in Nat
  OBVIOUS
<1> QED BY <1>1, <1>2, StepCounts DEF Retries

LEMMA RetryLess ==
    ASSUME NEW place \in Work, place.attempt < MaxCommitAttempts,
           NEW new, new.attempt = place.attempt + 1
    PROVE  Retries(place) = Retries(new) + AttemptSteps /\ Retries(new) \in Nat
<1> DEFINE n == MaxCommitAttempts - new.attempt
<1>1. n \in Nat /\ MaxCommitAttempts - place.attempt = n + 1
  BY EngineAssumption DEF Work
<1> HIDE DEF n
<1>2. \A m, k \in Nat : (m + 1) * k = m * k + k /\ m * k \in Nat
  OBVIOUS
<1>3. Retries(new) = n * AttemptSteps /\ Retries(place) = (n + 1) * AttemptSteps
  BY <1>1 DEF Retries, n
<1> QED BY <1>1, <1>2, <1>3, StepCounts

LEMMA KindsLeft ==
    ASSUME NEW left \in SUBSET Kinds
    PROVE  /\ IsFiniteSet(left) /\ Cardinality(left) \in Nat /\ Cardinality(Kinds) \in Nat
           /\ Cardinality(left) <= Cardinality(Kinds)
           /\ \A k \in left : Cardinality(left) = Cardinality(left \ {k}) + 1
                              /\ Cardinality(left \ {k}) \in Nat
<1>1. IsFiniteSet(Kinds)
  <2>1. IsFiniteSet({"compact"}) /\ IsFiniteSet({"manifests"}) /\ IsFiniteSet({"expire"}) /\ IsFiniteSet({"orphans"})
    BY FS_Singleton
  <2>2. IsFiniteSet({"compact"} \cup {"manifests"}) /\ IsFiniteSet({"expire"} \cup {"orphans"})
    BY <2>1, FS_Union
  <2>3. IsFiniteSet(({"compact"} \cup {"manifests"}) \cup ({"expire"} \cup {"orphans"}))
    BY <2>2, FS_Union
  <2>4. Kinds = ({"compact"} \cup {"manifests"}) \cup ({"expire"} \cup {"orphans"})
    BY DEF Kinds
  <2> QED BY <2>3, <2>4
<1>2. IsFiniteSet(left) /\ Cardinality(left) <= Cardinality(Kinds)
  BY <1>1, FS_Subset
<1>3. Cardinality(left) \in Nat /\ Cardinality(Kinds) \in Nat
  BY <1>1, <1>2, FS_CardinalityType
<1>4. ASSUME NEW k \in left
      PROVE  Cardinality(left) = Cardinality(left \ {k}) + 1 /\ Cardinality(left \ {k}) \in Nat
  <2>1. IsFiniteSet(left \ {k}) /\ Cardinality(left \ {k}) = Cardinality(left) - 1
    BY <1>2, FS_RemoveElement
  <2>2. Cardinality(left \ {k}) \in Nat
    BY <2>1, FS_CardinalityType
  <2> QED BY <1>3, <2>1, <2>2
<1> QED BY <1>2, <1>3, <1>4

LEMMA SendStepsIs ==
    ASSUME NEW request \in Commit, NEW call
    PROVE  /\ SendsLeft(request) \in 0 .. MaxThrottleRetries
           /\ SendSteps(request) \in Nat /\ CallSteps(call) \in 0 .. 4
<1>1. request.sends \in Nat
  BY DEF Commit
<1>2. SendsLeft(request) \in 0 .. MaxThrottleRetries
  BY <1>1, StepCounts DEF SendsLeft
<1> QED BY <1>2, StepCounts DEF SendSteps, CallSteps

LEMMA StepsLeftIs ==
    ASSUME NEW place \in Work, NEW request \in Commit, NEW call,
           place.pc \in {"next", "committing"} => place.left # {}
    PROVE  StepsLeft(place, request, call) \in Nat
<1>1. place.left \in SUBSET Kinds
  BY DEF Work
<1>2. ASSUME place.pc = "committing" PROVE Cardinality(place.left) - 1 \in Nat
  <2>1. PICK k : k \in place.left
    BY <1>2
  <2>2. /\ Cardinality(place.left) = Cardinality(place.left \ {k}) + 1
        /\ Cardinality(place.left \ {k}) \in Nat
    BY <1>1, <2>1, KindsLeft
  <2> QED BY <2>2
<1>3. \A n \in Nat : Operations(n) \in Nat
  BY OperationsIs
<1>4. /\ Operations(Cardinality(Kinds)) \in Nat
      /\ Operations(Cardinality(place.left)) \in Nat
      /\ place.pc = "committing" => Operations(Cardinality(place.left) - 1) \in Nat
  BY <1>1, <1>2, <1>3, KindsLeft
<1>5. place.pc \in {"unstarted", "next", "committing", "done"}
  BY DEF Work
<1> QED BY <1>4, <1>5, RetriesIs, SendStepsIs DEF StepsLeft

-----------------------------------------------------------------------------
(* Each step of a table leaves it less to do                                *)

Less(m, n) == m \in Nat /\ n \in Nat /\ m < n

(* A call for a token comes to an answer or a failure. *)
LEMMA TokenStepLess ==
    ASSUME TokenTypeOK, NEW t \in Tasks, TokenStep(t)
    PROVE  Less(CallSteps(client'[t]), CallSteps(client[t]))
<1>1. client \in [Tasks -> Client]
  BY DEF TokenTypeOK
<1>2. \A pc \in {"queued", "exchanging", "failed"} : At(t, pc) => client'[t].pc = pc
  BY <1>1 DEF At, Client
<1>3. \A token : Present(t, token) => client'[t].pc = "armed"
  BY <1>1 DEF Present
<1>4. CASE Supplied(t)
  <2>1. client[t].pc = "asking" /\ client'[t].pc = "armed"
    BY <1>3, <1>4 DEF Supplied
  <2> QED BY <2>1 DEF Less, CallSteps
<1>5. CASE ReadCached(t)
  <2>1. client[t].pc = "asking" /\ client'[t].pc \in {"queued", "armed"}
    BY <1>2, <1>3, <1>5 DEF ReadCached
  <2> QED BY <2>1 DEF Less, CallSteps
<1>6. CASE Lock(t)
  <2>1. client[t].pc = "queued" /\ client'[t].pc \in {"exchanging", "armed"}
    BY <1>2, <1>3, <1>6 DEF Lock
  <2> QED BY <2>1 DEF Less, CallSteps
<1>7. CASE Exchanged(t) \/ ExchangeFailed(t)
  <2>1. client[t].pc = "exchanging" /\ client'[t].pc \in {"failed", "armed"}
    BY <1>2, <1>3, <1>7 DEF Exchanged, ExchangeFailed
  <2> QED BY <2>1 DEF Less, CallSteps
<1> QED BY <1>4, <1>5, <1>6, <1>7 DEF TokenStep

LEMMA SendAgainLess ==
    ASSUME RestTypeOK, NEW t \in Tasks, SendAgain(t), commit[t].pc = "committing"
    PROVE  SendSteps(commit[t]) = SendSteps(commit'[t]) /\ SendSteps(commit'[t]) \in Nat
<1>1. commit \in [Tasks -> Commit] /\ commit[t].sends \in Nat /\ commit[t].sends < MaxThrottleRetries
  BY DEF RestTypeOK, Commit, SendAgain
<1>2. commit'[t].pc = "waiting" /\ commit'[t].sends = commit[t].sends + 1
  BY <1>1 DEF SendAgain, SendsSoFar, Commit
<1>3. SendsLeft(commit'[t]) \in Nat /\ SendsLeft(commit[t]) = SendsLeft(commit'[t]) + 1
  BY <1>1, <1>2, StepCounts DEF SendsLeft
<1> QED BY <1>2, <1>3 DEF SendSteps

(* A request ends in an answer, or is sent again once less often. *)
LEMMA CommitRequestLess ==
    ASSUME TokenTypeOK, RestTypeOK, NEW t \in Tasks, CommitRequest(t)
    PROVE  Less(SendSteps(commit'[t]) + CallSteps(client'[t]), SendSteps(commit[t]) + CallSteps(client[t]))
<1>1. commit \in [Tasks -> Commit] /\ client \in [Tasks -> Client]
  BY DEF RestTypeOK, TokenTypeOK
<1>2. SendSteps(commit[t]) \in Nat /\ CallSteps(client[t]) \in 0 .. 4 /\ SendsLeft(commit[t]) \in Nat
  BY <1>1, SendStepsIs, StepCounts
<1>3. ASSUME NEW result \in Outcomes, End(t, result) PROVE SendSteps(commit'[t]) = 0
  <2>1. commit'[t].pc = result
    BY <1>1, <1>3 DEF End, NoCommit
  <2> QED BY <2>1 DEF SendSteps, Outcomes
<1>4. EndCall(t) => CallSteps(client'[t]) = 0
  BY <1>1 DEF EndCall, Idle, CallSteps
<1>5. CASE Resend(t)
  <2>1. /\ commit[t].pc = "waiting" /\ commit'[t].pc = "committing"
        /\ commit'[t].sends = commit[t].sends /\ client'[t].pc = "asking"
    BY <1>1, <1>5 DEF Resend, ResentBase, Commit, At, Client
  <2>2. SendSteps(commit[t]) = 5 * SendsLeft(commit[t]) + 5 /\ SendSteps(commit'[t]) = 5 * SendsLeft(commit[t])
    BY <2>1 DEF SendSteps, SendsLeft
  <2>3. CallSteps(client'[t]) = 4
    BY <2>1 DEF CallSteps
  <2> QED BY <1>2, <2>2, <2>3 DEF Less
<1>6. CASE NoTokenToSend(t) \/ Applied(t) \/ Answered(t) \/ Unanswered(t)
  <2>1. commit[t].pc = "committing" /\ client[t].pc \in {"armed", "failed"} /\ EndCall(t)
    BY <1>6 DEF NoTokenToSend, Applied, Answered, Unanswered
  <2>2. SendAgain(t) \/ \E result \in Outcomes : End(t, result)
    <3>1. \A status : Classify(status) \in Outcomes
      BY DEF Classify, Outcomes
    <3>2. "failed" \in Outcomes /\ "succeeded" \in Outcomes
      BY DEF Outcomes
    <3>3. CASE Answered(t)
      BY <3>1, <3>3 DEF Answered
    <3> QED BY <1>6, <3>2, <3>3 DEF NoTokenToSend, Applied, Unanswered
  <2>3. CallSteps(client[t]) = 1 /\ CallSteps(client'[t]) = 0
    BY <1>4, <2>1 DEF CallSteps
  <2>4. SendSteps(commit'[t]) \in 0 .. SendSteps(commit[t])
    BY <1>2, <1>3, <2>1, <2>2, SendAgainLess
  <2> QED BY <1>2, <2>3, <2>4 DEF Less
<1> QED BY <1>5, <1>6 DEF CommitRequest

(* A commit that is asked for has all its sends, and a call for a token.    *)
LEMMA FreshCommit ==
    ASSUME TokenTypeOK, RestTypeOK, NEW t \in Tasks, NEW id, NEW base, StartCommit(t, id, base)
    PROVE  SendSteps(commit'[t]) + CallSteps(client'[t]) + 1 = AttemptSteps
<1>1. commit \in [Tasks -> Commit] /\ client \in [Tasks -> Client]
  BY DEF RestTypeOK, TokenTypeOK
<1>2. commit'[t].pc = "committing" /\ commit'[t].sends = 0 /\ client'[t].pc = "asking"
  BY <1>1 DEF StartCommit, At, Client
<1>3. SendsLeft(commit'[t]) = MaxThrottleRetries
  BY <1>2, StepCounts DEF SendsLeft
<1> QED BY <1>2, <1>3, StepCounts DEF SendSteps, CallSteps

(* Each step of a table, its commit and its call leaves it less to do. *)
LEMMA TableStepLess ==
    ASSUME TypeOK, RunOK, NEW t \in Tasks, TableStep(t)
    PROVE  Less(ToDo(t)', ToDo(t))
<1> DEFINE place == work[t]
           new == work'[t]
           rest == SendSteps(commit[t]) + CallSteps(client[t])
<1>1. /\ work \in [Tasks -> Work] /\ commit \in [Tasks -> Commit]
      /\ place.pc \in {"next", "committing"} => place.left # {}
  BY DEF TypeOK, RestTypeOK, RunTypeOK
<1>2. place \in Work /\ commit[t] \in Commit /\ place.left \in SUBSET Kinds
  BY <1>1 DEF Work
<1>3. ToDo(t) \in Nat
  BY <1>1, <1>2, StepsLeftIs DEF ToDo
<1>4. ToDo(t)' = StepsLeft(new, commit'[t], client'[t])
  BY DEF ToDo, StepsLeft, SendSteps, SendsLeft, CallSteps, Retries, Operations
<1>5. rest \in Nat
  BY <1>2, SendStepsIs
<1>6. ASSUME place.pc \in {"next", "committing"}
      PROVE  /\ Cardinality(place.left) = Cardinality(place.left \ {Kind(t)}) + 1
             /\ Cardinality(place.left) - 1 = Cardinality(place.left \ {Kind(t)})
             /\ Operations(Cardinality(place.left \ {Kind(t)})) \in Nat
             /\ Operations(Cardinality(place.left))
                  = Operations(Cardinality(place.left \ {Kind(t)})) + OperationSteps
  <2>1. Kind(t) \in place.left
    BY <1>6, KindIsLeft DEF TypeOK
  <2>2. /\ Cardinality(place.left) = Cardinality(place.left \ {Kind(t)}) + 1
        /\ Cardinality(place.left \ {Kind(t)}) \in Nat
    BY <1>2, <2>1, KindsLeft
  <2> QED BY <2>2, OperationsIs
<1> DEFINE later == Operations(Cardinality(place.left \ {Kind(t)}))
<1>7. place.pc = "next" => ToDo(t) = later + OperationSteps
  BY <1>6 DEF ToDo, StepsLeft
<1>8. place.pc = "committing" => ToDo(t) = later + Retries(place) + rest + 1 /\ Retries(place) \in Nat
  <2>1. ASSUME place.pc = "committing"
        PROVE  /\ ToDo(t) = Operations(Cardinality(place.left) - 1) + Retries(place)
                              + SendSteps(commit[t]) + CallSteps(client[t]) + 1
               /\ Operations(Cardinality(place.left) - 1) = later
    BY <1>6, <2>1 DEF ToDo, StepsLeft
  <2>2. SendSteps(commit[t]) \in Nat /\ CallSteps(client[t]) \in Nat /\ Retries(place) \in Nat
    BY <1>2, SendStepsIs, RetriesIs
  <2> QED BY <1>6, <2>1, <2>2
<1>9. CASE StartTable(t)
  <2> DEFINE due == plan.operations[t]
  <2>1. due \in SUBSET Kinds /\ place.pc = "unstarted" /\ new.pc = PlaceWith(due) /\ new.left = due
    BY <1>1, <1>9 DEF StartTable, TypeOK, RunTypeOK, Planned, Work
  <2>2. ToDo(t)' = IF due = {} THEN 0 ELSE Operations(Cardinality(due))
    BY <1>4, <2>1 DEF StepsLeft, PlaceWith
  <2>3. /\ Operations(Cardinality(due)) \in Nat /\ Operations(Cardinality(Kinds)) \in Nat
        /\ Operations(Cardinality(due)) <= Operations(Cardinality(Kinds))
    BY <2>1, KindsLeft, OperationsIs
  <2>4. ToDo(t) = Operations(Cardinality(Kinds)) + 1
    BY <2>1 DEF ToDo, StepsLeft
  <2> QED BY <2>2, <2>3, <2>4 DEF Less
<1>10. CASE LoadFailed(t)
  <2>1. place.pc = "unstarted" /\ new.pc = "done"
    BY <1>1, <1>10 DEF LoadFailed, Work
  <2>2. ToDo(t)' = 0 /\ ToDo(t) = Operations(Cardinality(Kinds)) + 1
    BY <1>4, <2>1 DEF ToDo, StepsLeft
  <2>3. Operations(Cardinality(Kinds)) \in Nat
    BY <1>2, KindsLeft, OperationsIs
  <2> QED BY <2>2, <2>3 DEF Less
<1>11. ASSUME NEW result \in Results, Over(t, result) PROVE Less(ToDo(t)', ToDo(t))
  <2>1. /\ new.left = place.left \ {Kind(t)} /\ new.pc = PlaceWith(new.left)
        /\ place.pc \in {"next", "committing"}
    BY <1>11, ReportSteps DEF Over
  <2>2. ToDo(t)' = IF new.left = {} THEN 0 ELSE later
    BY <1>4, <2>1 DEF StepsLeft, PlaceWith
  <2>3. ToDo(t) > later /\ later \in Nat
    <3>1. CASE place.pc = "next"
      <4>1. OperationSteps > 0
        <5>1. \A m, n \in Nat : m * n + 1 > 0
          <6>1. \A m, n \in Nat : m * n \in Nat
            OBVIOUS
          <6> QED BY <6>1
        <5> QED BY <5>1, StepCounts DEF OperationSteps
      <4> QED BY <1>6, <1>7, <3>1, <4>1, StepCounts
    <3>2. CASE place.pc = "committing"
      <4>1. ToDo(t) = later + Retries(place) + rest + 1 /\ later \in Nat /\ Retries(place) \in Nat
        BY <1>6, <1>8, <3>2
      <4> HIDE DEF later, rest
      <4> QED BY <1>5, <4>1
    <3> QED BY <2>1, <3>1, <3>2
  <2> QED BY <1>3, <2>2, <2>3 DEF Less
<1>12. CASE Attempt(t)
  <2>1. place.pc = "next" /\ new.pc = "committing" /\ new.left = place.left /\ new.attempt = place.attempt
    BY <1>1, <1>12 DEF Attempt, HasNext, Work
  <2>2. place.attempt = 1
    BY <2>1 DEF RunOK
  <2>3. PICK id, base : StartCommit(t, id, base)
    BY <1>12 DEF Attempt
  <2>4. Retries(new) = Retries([attempt |-> 1]) /\ Retries(new) = Retries(place)
    BY <2>1, <2>2 DEF Retries
  <2>5. /\ ToDo(t)' = Operations(Cardinality(place.left) - 1) + Retries(new)
                        + SendSteps(commit'[t]) + CallSteps(client'[t]) + 1
        /\ Operations(Cardinality(place.left) - 1) = later
    BY <1>4, <1>6, <2>1 DEF StepsLeft
  <2>6. SendSteps(commit'[t]) \in Nat /\ CallSteps(client'[t]) \in Nat
    <3>1. commit'[t] = [pc |-> "committing", id |-> id, base |-> base, sends |-> 0]
      BY <1>1, <2>3 DEF StartCommit
    <3>2. SendsLeft(commit'[t]) \in Nat
      BY <3>1, StepCounts DEF SendsLeft
    <3> QED BY <3>2 DEF SendSteps, CallSteps
  <2>7. SendSteps(commit'[t]) + CallSteps(client'[t]) + 1 = AttemptSteps
    BY <2>3, FreshCommit DEF TypeOK
  <2>8. Retries(new) \in Nat
    BY <1>2, <2>4, RetriesIs
  <2>9. ToDo(t)' = later + Retries(new) + AttemptSteps
    BY <1>6, <2>1, <2>5, <2>6, <2>7, <2>8, StepCounts
  <2> QED BY <1>6, <1>7, <2>1, <2>4, <2>8, <2>9, StepCounts DEF Less
<1>13. CASE AttemptAgain(t)
  <2>1. /\ place.pc = "committing" /\ new.pc = "committing" /\ new.left = place.left
        /\ new.attempt = place.attempt + 1 /\ place.attempt < MaxCommitAttempts
    BY <1>1, <1>13 DEF AttemptAgain, Committing, AttemptsLeft, Work
  <2>2. PICK id, base : StartCommit(t, id, base)
    BY <1>13 DEF AttemptAgain
  <2>3. Retries(place) = Retries(new) + AttemptSteps /\ Retries(new) \in Nat
    BY <1>2, <2>1, RetryLess
  <2>4. /\ ToDo(t)' = Operations(Cardinality(place.left) - 1) + Retries(new)
                        + SendSteps(commit'[t]) + CallSteps(client'[t]) + 1
        /\ Operations(Cardinality(place.left) - 1) = later
    BY <1>4, <1>6, <2>1 DEF StepsLeft
  <2>5. SendSteps(commit'[t]) \in Nat /\ CallSteps(client'[t]) \in Nat
    <3>1. commit'[t] = [pc |-> "committing", id |-> id, base |-> base, sends |-> 0]
      BY <1>1, <2>2 DEF StartCommit
    <3>2. SendsLeft(commit'[t]) \in Nat
      BY <3>1, StepCounts DEF SendsLeft
    <3> QED BY <3>2 DEF SendSteps, CallSteps
  <2>6. SendSteps(commit'[t]) + CallSteps(client'[t]) + 1 = AttemptSteps
    BY <2>2, FreshCommit DEF TypeOK
  <2>7. ToDo(t)' = later + Retries(new) + AttemptSteps
    BY <1>6, <2>1, <2>3, <2>4, <2>5, <2>6, StepCounts
  <2> QED BY <1>5, <1>6, <1>8, <2>1, <2>3, <2>7, StepCounts DEF Less
<1>14. CASE CommitStep(t)
  <2>1. new = place /\ place.pc = "committing"
    BY <1>14, CommitGoesOn DEF CommitStep, Committing
  <2>2. SendSteps(commit'[t]) \in Nat /\ CallSteps(client'[t]) \in Nat
    <3>1. commit'[t] \in Commit
      BY <1>14, RestSteps DEF CommitStep, TypeOK, RestTypeOK, restVars
    <3> QED BY <3>1, SendStepsIs
  <2>3. SendSteps(commit[t]) \in Nat /\ CallSteps(client[t]) \in Nat
    BY <1>2, SendStepsIs
  <2>4. SendSteps(commit'[t]) + CallSteps(client'[t]) < rest
    <3>1. CASE TokenStep(t) /\ UNCHANGED restVars
      BY <2>3, <3>1, TokenStepLess DEF Less, restVars, TypeOK
    <3>2. CASE CommitRequest(t)
      BY <3>2, CommitRequestLess DEF Less, TypeOK
    <3> QED BY <1>14, <3>1, <3>2 DEF CommitStep
  <2>5. /\ ToDo(t)' = Operations(Cardinality(place.left) - 1) + Retries(place)
                        + SendSteps(commit'[t]) + CallSteps(client'[t]) + 1
        /\ Operations(Cardinality(place.left) - 1) = later
    BY <1>4, <1>6, <2>1 DEF StepsLeft
  <2> QED BY <1>5, <1>6, <1>8, <2>1, <2>2, <2>4, <2>5 DEF Less
<1> QED BY <1>9, <1>10, <1>11, <1>12, <1>13, <1>14, TableCases

(* The step of another table, of another writer or of time leaves a table   *)
(* as much to do as it had.                                                 *)
LEMMA OthersLeave ==
    ASSUME TypeOK, [Next]_vars, phase = "running", phase' = "running", NEW t \in Tasks, ~ TableStep(t)
    PROVE  ToDo(t)' = ToDo(t)
<1>1. client \in [Tasks -> Client]
  BY DEF TypeOK, TokenTypeOK
<1>2. CASE \E s \in Tasks : TableStep(s)
  <2>1. PICK s \in Tasks : TableStep(s)
    BY <1>2
  <2>2. s # t /\ work'[t] = work[t] /\ commit'[t] = commit[t]
    BY <2>1, OnlyItsTable
  <2>3. UNCHANGED tokenVars \/ TokenStep(s) \/ EndCall(s) \/ Asks(s)
    BY <2>1, CallOfTable
  <2>4. client'[t] = client[t]
    BY <1>1, <2>2, <2>3 DEF tokenVars, TokenStep, Supplied, ReadCached, Lock, Exchanged, ExchangeFailed,
         Present, At, EndCall, Asks
  <2> QED BY <2>2, <2>4 DEF ToDo, StepsLeft, SendSteps, SendsLeft, CallSteps, Retries, Operations
<1>3. CASE \A s \in Tasks : ~ TableStep(s)
  <2>1. UNCHANGED <<work, commit>>
    BY <1>3, OutsideSteps DEF EndRun
  <2>2. UNCHANGED client
    <3>1. CASE Plan \/ DiscoveryFailed \/ Run \/ EndRun \/ LateArrival
      BY <3>1 DEF Plan, DiscoveryFailed, Run, EndRun, LateArrival, Arrives, tokenVars
    <3>2. CASE Tick \/ UNCHANGED vars
      BY <3>2 DEF Tick, vars, tokenVars
    <3>3. ASSUME NEW s \in Tasks, Foreground(s) PROVE UNCHANGED client
      BY <3>3 DEF Foreground, tokenVars
    <3> QED BY <1>3, <3>1, <3>2, <3>3 DEF Next
  <2> QED BY <2>1, <2>2 DEF ToDo, StepsLeft, SendSteps, SendsLeft, CallSteps, Retries, Operations
<1> QED BY <1>2, <1>3

(* Runs wind down: each step of a table, whatever the catalog and the token *)
(* endpoint answered, leaves it fewer steps than it had, and no other table,*)
(* no other writer and no late request leaves it more (engine.rs).  RunsEnd *)
(* adds that the steps are taken.                                           *)
THEOREM RunsWindDown ==
    Spec => [][\A t \in Tasks : phase = "running" /\ phase' = "running" =>
                  /\ ToDo(t)' \in 0 .. ToDo(t)
                  /\ TableStep(t) => ToDo(t)' # ToDo(t)]_vars
<1>1. ASSUME TypeOK, RunOK, [Next]_vars, phase = "running", phase' = "running", NEW t \in Tasks
      PROVE  ToDo(t)' \in 0 .. ToDo(t) /\ (TableStep(t) => ToDo(t)' # ToDo(t))
  <2>1. ToDo(t) \in Nat
    <3>1. /\ work[t] \in Work /\ commit[t] \in Commit
          /\ work[t].pc \in {"next", "committing"} => work[t].left # {}
      BY <1>1 DEF TypeOK, RunTypeOK, RestTypeOK
    <3> QED BY <3>1, StepsLeftIs DEF ToDo
  <2>2. TableStep(t) => Less(ToDo(t)', ToDo(t))
    BY <1>1, TableStepLess
  <2>3. ~ TableStep(t) => ToDo(t)' = ToDo(t)
    BY <1>1, OthersLeave
  <2> QED BY <2>1, <2>2, <2>3 DEF Less
<1>2. TypeOK /\ RunOK /\ [Next]_vars =>
        \A t \in Tasks : phase = "running" /\ phase' = "running" =>
           /\ ToDo(t)' \in 0 .. ToDo(t)
           /\ TableStep(t) => ToDo(t)' # ToDo(t)
  BY <1>1
<1>3. Init => RunOK
  BY ConflictsInit
<1> QED BY <1>2, <1>3, TypeCorrect, RunInductive, PTL DEF Spec
=============================================================================
