----------------------------- MODULE Compaction -----------------------------
(***************************************************************************)
(* Compaction runs of one or more stateless replicas against one table,    *)
(* while foreground writers commit to it.                                  *)
(*                                                                         *)
(* A run loads the table, splits the requested partitions into file        *)
(* groups, and rewrites and commits the groups one by one: each attempt    *)
(* reads the group's files with their deletes applied, writes replacements *)
(* and offers a commit that asserts the head of main has not moved.  A     *)
(* lost compare-and-swap reloads the table and rebuilds the group.  The    *)
(* run ends by removing delete files that apply to nothing.                *)
(*                                                                         *)
(* Commits travel over a network: a request may be answered, its answer    *)
(* may be lost, it may be served after its sender gave up or crashed.      *)
(***************************************************************************)
EXTENDS IcebergFiles

CONSTANTS
    Replicas,
    Seed,               \* the live files of the table as the runs find it
    SeedSpec,           \* its default partition spec
    SeedSeq,            \* its last sequence number
    MaxInputFiles,      \* files per group
    MaxCommitAttempts,
    MaxGroupFailures,   \* consecutive failures that stop a run
    MaxResends,         \* re-sends of one request to a busy catalog
    MaxOutputs,         \* 1 or 2: whether a group's output may roll over
    LossyPipeline,      \* whether reading or writing may drop rows silently
    MaxEdits,           \* bound: foreground commits
    MaxEvolutions,      \* bound: changes of the default partition spec
    MaxTurns            \* bound: runs started per replica

VARIABLES
    table,       \* what the catalog holds: head of main, files, default spec
    inflight,    \* commit requests the catalog may still serve
    run,         \* per replica, the state of its compaction run
    nextName,    \* source of fresh names for files and snapshots
    edits,       \* foreground commits so far
    evolutions   \* default-spec changes so far

vars == <<table, inflight, run, nextName, edits, evolutions>>

WellFormed(live) ==
    /\ live \subseteq File
    /\ \A f, g \in live : f.path = g.path => f = g
    /\ \A f \in DataFiles(live) : \A r \in f.rows : f.path.part.tuple = TupleOf[f.path.part.spec][r]
    /\ \A f \in live : Unpartitioned(f.path.part.spec) => f.path.part.tuple = NoTuple
    /\ \A f, g \in DataFiles(live) : f # g => f.rows \cap g.rows = {}

ASSUME CompactionAssumption ==
    /\ IsFiniteSet(Rows) /\ IsFiniteSet(Replicas) /\ IsFiniteSet(Seed)
    /\ WellFormed(Seed) /\ SeedSpec \in Specs /\ SeedSeq \in Nat
    /\ \A f \in Seed : f.seq \in 1 .. SeedSeq /\ f.path.name \in 1 .. Cardinality(Seed)
    /\ MaxInputFiles \in Nat \ {0} /\ MaxCommitAttempts \in Nat \ {0}
    /\ MaxGroupFailures \in Nat \ {0} /\ MaxResends \in Nat /\ MaxOutputs \in 1 .. 2
    /\ LossyPipeline \in BOOLEAN
    /\ MaxEdits \in Nat /\ MaxEvolutions \in Nat /\ MaxTurns \in Nat

-----------------------------------------------------------------------------
(* Views and groups *)

Table == [head : Nat, seq : Nat, spec : Specs, live : SUBSET File]
NoView == [head |-> 0, seq |-> 0, spec |-> SeedSpec, live |-> {}]

Tasks(view, wanted) == {f \in DataFiles(view.live) : f.path \in wanted}

IsEligible(f, live) == DeletesOf(f, live) # {} \/ f.size # "target"

WorthRewriting(files, live) ==
    \/ \E f, g \in files : f # g
    \/ \E f \in files : DeletesOf(f, live) # {} \/ f.size = "large"

(* Smallest first; among equals, in the order the scan lists them. *)
Precedes(f, g) ==
    LET rank == [small |-> 1, target |-> 2, large |-> 3]
    IN  \/ rank[f.size] < rank[g.size]
        \/ f.size = g.size /\ f.path.name < g.path.name

Pack(files) ==
    LET chunk(f) == Cardinality({g \in files : Precedes(g, f)}) \div MaxInputFiles
    IN  {{g \in files : chunk(g) = chunk(f)} : f \in files}

(* The groups of the requested partitions, each a set of paths. Partitions *)
(* of a superseded spec are left alone.                                    *)
BuildGroups(view, partitions) ==
    UNION {LET eligible == {f \in DataFiles(view.live) :
                               f.path.part = p /\ IsEligible(f, view.live)}
           IN  {{f.path : f \in c} : c \in {k \in Pack(eligible) : WorthRewriting(k, view.live)}}
           : p \in {q \in partitions : q.spec = view.spec}}

(* Mutant: every delete of the group is retired, shared or not. *)
RetirableIfApplied(files, live) ==
    {d \in DeleteFiles(live) : \E f \in files : Applies(d, f)}

(* The delete files only this group's data files need. *)
Retirable(files, live) ==
    {d \in DeleteFiles(live) :
        /\ \E f \in files : Applies(d, f)
        /\ ~ \E f \in DataFiles(live) \ files : Applies(d, f)}

(* The partition the outputs are written under: the tuple the inputs share, *)
(* stamped with the view's default spec.                                    *)
OutputPartition(files, view) ==
    [spec |-> view.spec,
     tuple |-> IF Unpartitioned(view.spec) THEN NoTuple
               ELSE (CHOOSE f \in files : TRUE).path.part.tuple]

OnePartition(files, view) ==
    /\ \A f, g \in files : f.path.part.spec = g.path.part.spec
    /\ Unpartitioned(view.spec) \/ \A f, g \in files : f.path.part.tuple = g.path.part.tuple

(* Mutant: the read side of the row counts is not compared. *)
WriteCountsAgree(files, live, streamed, persisted) ==
    Cardinality(persisted) = Cardinality(streamed)

(* Rows in equal rows out where no delete applies; at most, where one does. *)
(* Rows written equal rows read.                                            *)
RowCountsAgree(files, live, streamed, persisted) ==
    LET expected == Cardinality(UNION {f.rows : f \in files})
    IN  /\ IF \E f \in files : DeletesOf(f, live) # {}
             THEN Cardinality(streamed) <= expected
             ELSE Cardinality(streamed) = expected
        /\ Cardinality(persisted) = Cardinality(streamed)

(* Mutant: survivors of a rebuilt manifest are stamped as new. *)
CarriedRestamped(live, removed) ==
    {[f EXCEPT !.seq = @ + 1] : f \in {g \in live : g \notin removed}}

(* Mutant: the paths of removed data files are not matched. *)
CarriedUnlessDelete(live, removed) == {f \in live : f \notin removed \/ f.kind = "data"}

(* The files of the snapshot a rewrite produces: every live file it does    *)
(* not remove is carried forward as it is.                                  *)
CarriedForward(live, removed) == {f \in live : f \notin removed}
RewriteFiles(live, removed, added) == CarriedForward(live, removed) \cup added

NextSequence(view) == view.seq + 1

-----------------------------------------------------------------------------
(* Runs *)

Request == [owner : Replicas, turn : Nat, snap : Nat, base : Nat, seq : Nat, live : SUBSET File]
NoRequest(r) == [owner |-> r, turn |-> 0, snap |-> 0, base |-> 0, seq |-> 0, live |-> {}]

Results == {"none", "noop", "succeeded", "refused", "failed", "crashed"}

Run == [pc : {"idle", "choose", "rewrite", "reload", "refresh", "dangling", "await"},
        phase : {"group", "dangling"},
        state : Table,                   \* the run's table state
        current : Table,                 \* the table state of this attempt
        groups : SUBSET SUBSET Path,     \* groups not yet tried
        group : SUBSET Path,
        attempt : 0 .. MaxCommitAttempts - 1,
        resends : 0 .. MaxResends,
        fails : 0 .. MaxGroupFailures,
        request : Request,
        rewrote : BOOLEAN,               \* whether some group was rewritten
        dropped : BOOLEAN,               \* whether dangling deletes were removed
        skipped : SUBSET {"replan", "error"},
        landed : SUBSET Nat,             \* snapshots of this run the catalog installed
        result : Results, turn : Nat]

IdleRun(r, turn, result, skipped, landed) ==
    [pc |-> "idle", phase |-> "group", state |-> NoView, current |-> NoView, groups |-> {},
     group |-> {}, attempt |-> 0, resends |-> 0, fails |-> 0, request |-> NoRequest(r),
     rewrote |-> FALSE, dropped |-> FALSE, skipped |-> skipped, landed |-> landed,
     result |-> result, turn |-> turn]

Init ==
    /\ table = [head |-> Cardinality(Seed) + 1, seq |-> SeedSeq, spec |-> SeedSpec, live |-> Seed]
    /\ inflight = {}
    /\ run = [r \in Replicas |-> IdleRun(r, 0, "none", {}, {})]
    /\ nextName = Cardinality(Seed) + 2
    /\ edits = 0
    /\ evolutions = 0

Become(r, rec) == run' = [run EXCEPT ![r] = rec]
Elsewhere == UNCHANGED <<table, inflight, nextName, edits, evolutions>>

(* Mutant: only a skipped group keeps a run from reporting success. *)
ReportedUnlessSkipped(r, rec) ==
    IdleRun(r, rec.turn, IF rec.skipped # {} THEN "noop" ELSE "succeeded", rec.skipped, rec.landed)

(* The run's report, from what it counted. *)
Reported(r, rec) ==
    IdleRun(r, rec.turn, IF ~rec.rewrote /\ ~rec.dropped THEN "noop" ELSE "succeeded",
            rec.skipped, rec.landed)

NextGroup(r, rec) ==
    [rec EXCEPT !.pc = "choose", !.current = NoView, !.group = {}, !.attempt = 0, !.resends = 0,
                !.request = NoRequest(r)]

(* A group failed: counted, its reason kept, the run's table state not      *)
(* refreshed.                                                               *)
GroupFailed(r, why) ==
    [NextGroup(r, run[r]) EXCEPT !.fails = @ + 1, !.skipped = @ \cup {why}]

AfterCommit(r, rec) ==
    IF rec.phase = "group"
      THEN [NextGroup(r, rec) EXCEPT !.pc = "refresh", !.fails = 0, !.rewrote = TRUE]
      ELSE Reported(r, [rec EXCEPT !.dropped = TRUE])

AfterConflict(r) ==
    CASE run[r].phase = "dangling" -> Reported(r, [run[r] EXCEPT !.skipped = @ \cup {"replan"}])
      [] run[r].phase = "group" /\ run[r].attempt + 1 < MaxCommitAttempts ->
           [run[r] EXCEPT !.pc = "reload", !.attempt = @ + 1, !.resends = 0,
                          !.request = NoRequest(r), !.current = NoView]
      [] OTHER -> GroupFailed(r, "replan")

AfterError(r) ==
    IF run[r].phase = "group" THEN GroupFailed(r, "error")
    ELSE Reported(r, [run[r] EXCEPT !.skipped = @ \cup {"error"}])

-----------------------------------------------------------------------------
(* Actions of a run *)

(* Checks made before anything is read refuse the table, or it cannot be    *)
(* read at all.                                                             *)
Decline(r) ==
    /\ run[r].pc = "idle" /\ run[r].turn < MaxTurns
    /\ \E result \in {"refused", "failed"} :
          Become(r, IdleRun(r, run[r].turn + 1, result, {}, {}))
    /\ Elsewhere

Begin(r) ==
    /\ run[r].pc = "idle" /\ run[r].turn < MaxTurns
    /\ \E partitions \in SUBSET {f.path.part : f \in DataFiles(table.live)} :
          Become(r, [IdleRun(r, run[r].turn + 1, "none", {}, {}) EXCEPT
                        !.pc = "choose", !.state = table,
                        !.groups = BuildGroups(table, partitions)])
    /\ Elsewhere

ChooseGroup(r) ==
    /\ run[r].pc = "choose"
    /\ run[r].fails < MaxGroupFailures
    /\ \E g \in run[r].groups :
          Become(r, [run[r] EXCEPT !.pc = "rewrite", !.group = g, !.groups = @ \ {g},
                                   !.current = run[r].state])
    /\ Elsewhere

GroupsDone(r) ==
    /\ run[r].pc = "choose"
    /\ run[r].groups = {} \/ run[r].fails >= MaxGroupFailures
    /\ Become(r, [run[r] EXCEPT !.pc = "dangling", !.phase = "dangling", !.groups = {},
                                !.state = NoView])
    /\ Elsewhere

(* Somebody else did the work: not a failure, not a success of ours. *)
NothingLeft(r) ==
    /\ run[r].pc = "rewrite"
    /\ ~WorthRewriting(Tasks(run[r].current, run[r].group), run[r].current.live)
    /\ Become(r, NextGroup(r, run[r]))
    /\ Elsewhere

(* Offer to replace "removed" by "added" on top of the view: the new        *)
(* snapshot is built from the view's files and asserts the view's head.     *)
Offer(r, view, removed, added, names) ==
    LET q == [owner |-> r, turn |-> run[r].turn, snap |-> nextName + names, base |-> view.head,
              seq |-> NextSequence(view), live |-> RewriteFiles(view.live, removed, added)]
    IN  /\ Become(r, [run[r] EXCEPT !.pc = "await", !.request = q, !.current = NoView])
        /\ inflight' = inflight \cup {q}
        /\ nextName' = nextName + names + 1
        /\ UNCHANGED <<table, edits, evolutions>>

(* Mutant: the group is read without its deletes. *)
EveryRow(files, live) == UNION {f.rows : f \in files}

(* The rows a rewrite reads, and what it may stream and persist of them. *)
Survivors(files, live) == UNION {Surviving(f, live) : f \in files}
Streams(survivors, streamed, persisted) ==
    LossyPipeline \/ (streamed = survivors /\ persisted = survivors)

(* A writer that was given no row leaves no file. *)
Output(name, part, view, size, rows) ==
    IF rows = {} THEN {} ELSE {DataFile(name, part, NextSequence(view), size, rows)}

RewriteOnce(r) ==
    LET view == run[r].current
        files == Tasks(view, run[r].group)
        part == OutputPartition(files, view)
        survivors == Survivors(files, view.live)
    IN  /\ run[r].pc = "rewrite"
        /\ WorthRewriting(files, view.live)
        /\ OnePartition(files, view)
        /\ \E streamed \in SUBSET survivors : \E persisted \in SUBSET streamed :
           \E first \in SUBSET persisted, size \in {"small", "target"} :
              /\ Streams(survivors, streamed, persisted)
              /\ RowCountsAgree(files, view.live, streamed, persisted)
              /\ IF MaxOutputs = 1 THEN first = persisted /\ size = "target"
                 ELSE persisted # {} => first # {}
              /\ Offer(r, view, files \cup Retirable(files, view.live),
                       Output(nextName, part, view, size, first)
                         \cup Output(nextName + 1, part, view, size, persisted \ first), 2)

(* The group cannot be read or written, or a check refuses the outputs. *)
RewriteFails(r) ==
    /\ run[r].pc = "rewrite"
    /\ WorthRewriting(Tasks(run[r].current, run[r].group), run[r].current.live)
    /\ Become(r, GroupFailed(r, "error"))
    /\ Elsewhere

(* Mutant: a lost group is offered against the new head with the old files. *)
ReloadHeadOnly(r) ==
    /\ run[r].pc = "reload"
    /\ Become(r, [run[r] EXCEPT !.pc = "rewrite",
                                !.current = [run[r].state EXCEPT !.head = table.head, !.seq = table.seq]])
    /\ Elsewhere

(* After a lost commit: read the table again, for this group only. *)
Reload(r) ==
    /\ run[r].pc = "reload"
    /\ \/ Become(r, [run[r] EXCEPT !.pc = "rewrite", !.current = table])
       \/ Become(r, GroupFailed(r, "error"))
    /\ Elsewhere

(* After a commit of ours: read the table again, for the groups to come.    *)
(* If it cannot be read, no later group is offered.                         *)
Refresh(r) ==
    /\ run[r].pc = "refresh"
    /\ \/ Become(r, [run[r] EXCEPT !.pc = "choose", !.state = table])
       \/ Become(r, [run[r] EXCEPT !.pc = "dangling", !.phase = "dangling", !.groups = {},
                                   !.state = NoView, !.skipped = @ \cup {"error"}])
    /\ Elsewhere

DropDangling(r) ==
    /\ run[r].pc = "dangling"
    /\ LET dangling == DanglingDeleteFiles(table.live)
       IN  \/ dangling = {} /\ Become(r, Reported(r, run[r])) /\ Elsewhere
           \/ dangling # {} /\ Offer(r, table, dangling, {}, 0)
           \/ Become(r, AfterError(r)) /\ Elsewhere

(* Mutant: re-sends are not counted. *)
ResendForever(r) ==
    /\ run[r].pc = "await"
    /\ inflight' = inflight \cup {run[r].request}
    /\ UNCHANGED <<run, table, nextName, edits, evolutions>>

(* The catalog or a gateway says it is busy: the identical request again.   *)
Resend(r) ==
    /\ run[r].pc = "await" /\ run[r].resends < MaxResends
    /\ inflight' = inflight \cup {run[r].request}
    /\ Become(r, [run[r] EXCEPT !.resends = @ + 1])
    /\ UNCHANGED <<table, nextName, edits, evolutions>>

(* Any other bad answer, or none: an error, whatever became of the request. *)
GiveUp(r) ==
    /\ run[r].pc = "await"
    /\ inflight' \in {inflight, inflight \ {run[r].request}}
    /\ Become(r, AfterError(r))
    /\ UNCHANGED <<table, nextName, edits, evolutions>>

Crash(r) ==
    /\ run[r].pc # "idle"
    /\ Become(r, IdleRun(r, run[r].turn, "crashed", {}, {}))
    /\ Elsewhere

-----------------------------------------------------------------------------
(* The catalog *)

Awaits(q) == run[q.owner].pc = "await" /\ run[q.owner].request = q

(* The snapshot is installed and main moves to it. The answer may be lost. *)
Install(q) ==
    LET o == q.owner
        rec == IF run[o].pc # "idle" /\ run[o].turn = q.turn
                 THEN [run[o] EXCEPT !.landed = @ \cup {q.snap}] ELSE run[o]
    IN  /\ q.base = table.head
        /\ table' = [table EXCEPT !.head = q.snap, !.seq = q.seq, !.live = q.live]
        /\ inflight' = inflight \ {q}
        /\ \/ Become(o, rec)
           \/ Awaits(q) /\ Become(o, AfterCommit(o, rec))
        /\ UNCHANGED <<nextName, edits, evolutions>>

(* The head is not the one the request asserts. *)
Reject(q) ==
    /\ q.base # table.head
    /\ inflight' = inflight \ {q}
    /\ \/ UNCHANGED run
       \/ Awaits(q) /\ Become(q.owner, AfterConflict(q.owner))
    /\ UNCHANGED <<table, nextName, edits, evolutions>>

-----------------------------------------------------------------------------
(* Foreground writers *)

ForegroundCommit(live, names) ==
    /\ table' = [table EXCEPT !.head = nextName, !.seq = @ + 1, !.live = live]
    /\ nextName' = nextName + names + 1
    /\ edits' = edits + 1
    /\ UNCHANGED <<inflight, run, evolutions>>

FreshRows(part) ==
    {r \in Rows : /\ TupleOf[part.spec][r] = part.tuple
                  /\ \A f \in DataFiles(table.live) : r \notin f.rows}

(* Append rows, delete keys, or replace the rows of some keys. *)
Write(tuple, keys, rows) ==
    LET part == [spec |-> table.spec, tuple |-> tuple]
        seq == NextSequence(table)
    IN  /\ \E r \in Rows : TupleOf[table.spec][r] = tuple
        /\ keys # {} \/ rows # {}
        /\ rows \subseteq FreshRows(part)
        /\ ForegroundCommit(
              table.live
                \cup (IF keys = {} THEN {} ELSE {EqualityDelete(nextName + 1, part, seq, keys)})
                \cup (IF rows = {} THEN {} ELSE {DataFile(nextName + 2, part, seq, "small", rows)}),
              2)

(* Delete some visible rows of one partition by position. *)
MarkRows(part, rows) ==
    LET files == {f \in DataFiles(table.live) : f.path.part = part /\ f.rows \cap rows # {}}
    IN  /\ rows # {}
        /\ \A r \in rows : <<r, part>> \in Visible(table.live)
        /\ ForegroundCommit(
              table.live \cup {PositionDelete(nextName + 1, part, NextSequence(table),
                                              {f.path : f \in files}, rows)},
              1)

(* Drop a data file with all its rows. *)
DropFile(f) == ForegroundCommit(table.live \ {f}, 0)

(* A new default partition spec: metadata only, main does not move. *)
EvolveSpec(s) ==
    /\ evolutions < MaxEvolutions /\ s # table.spec
    /\ table' = [table EXCEPT !.spec = s]
    /\ evolutions' = evolutions + 1
    /\ UNCHANGED <<inflight, run, nextName, edits>>

-----------------------------------------------------------------------------
RunStep(r) ==
    \/ ChooseGroup(r) \/ GroupsDone(r)
    \/ NothingLeft(r) \/ RewriteOnce(r) \/ RewriteFails(r)
    \/ Reload(r) \/ Refresh(r) \/ DropDangling(r)
    \/ Resend(r) \/ GiveUp(r)

Foreground ==
    \/ /\ edits < MaxEdits
       /\ \/ \E tuple \in Tuples, keys \in SUBSET Keys, rows \in SUBSET Rows :
                Write(tuple, keys, rows)
          \/ \E part \in Partition, rows \in SUBSET Rows : MarkRows(part, rows)
          \/ \E f \in DataFiles(table.live) : DropFile(f)
    \/ \E s \in Specs : EvolveSpec(s)

Next ==
    \/ \E r \in Replicas : Decline(r) \/ Begin(r) \/ RunStep(r) \/ Crash(r)
    \/ \E q \in inflight : Install(q) \/ Reject(q)
    \/ Foreground

Spec == Init /\ [][Next]_vars

(* A started run keeps being scheduled, and its HTTP client times out.     *)
Fairness == \A r \in Replicas : WF_vars(RunStep(r))
FairSpec == Spec /\ Fairness

-----------------------------------------------------------------------------
(* Properties *)

(* Every variable holds a value of its kind. *)
TypeOK ==
    /\ table \in Table
    /\ inflight \subseteq Request
    /\ run \in [Replicas -> Run]
    /\ nextName \in Nat /\ edits \in 0 .. MaxEdits /\ evolutions \in 0 .. MaxEvolutions

(* Maintenance is invisible: whatever races, crashes and lost answers a run *)
(* meets, readers see rows change, or move between partitions, only through *)
(* the edits of foreground writers, and every edit takes full effect.       *)
Promise == INSTANCE RowTable WITH
    rows <- Visible(table.live),
    Global <- {p \in Partition : p.tuple = NoTuple},
    InitialRows <- Visible(Seed)
MaintenanceIsInvisible == Promise!Spec

(* No two live data files hold the same row: no group is installed twice,   *)
(* however often its request is re-sent or served late.                     *)
NoRowTwice ==
    \A f, g \in DataFiles(table.live) : f # g => f.rows \cap g.rows = {}

(* A commit of a run never drops a delete file that still applies to a data *)
(* file of the snapshot it produces, even one that hides no row today.      *)
RetiredDeletesApplyNowhere ==
    [][edits' = edits =>
         \A d \in DeleteFiles(table.live) \ table.live' :
            \A f \in DataFiles(table.live') : ~Applies(d, f)]_vars

(* A file that stays in the table keeps its sequence number and everything  *)
(* else about it: no commit makes it look newer than the deletes on it.     *)
CarriedFilesUnchanged ==
    [][\A f \in table.live, g \in table.live' : f.path = g.path => f = g]_vars

(* The two derivations of a dangling delete agree on every delete file: the *)
(* scan attaches it to no data file exactly when its sequence number is too *)
(* low for every data file it reaches.                                      *)
DerivationsAgree ==
    \A d \in DeleteFiles(table.live) :
        d \notin StillApplied(table.live) <=> DeadBySequence(d, table.live)

(* A run that reports success installed at least one snapshot.              *)
SuccessIsReal ==
    \A r \in Replicas : run[r].result = "succeeded" => run[r].landed # {}

(* Every run that starts ends, with a report or a crash: retries, re-sends  *)
(* and groups are all bounded, however hard the table is written.           *)
RunsEnd == \A r \in Replicas : run[r].pc # "idle" ~> run[r].pc = "idle"

RowsSeen(live) == {v[1] : v \in Visible(live)}

(* Where no delete applies to the files a run replaces, a pipeline that     *)
(* silently loses rows never reaches the table: the row counts stop it.     *)
LostRowsAreCaught ==
    [][(edits' = edits /\ \A f \in DataFiles(table.live) \ table.live' : DeletesOf(f, table.live) = {})
         => RowsSeen(table.live) = RowsSeen(table.live')]_vars

-----------------------------------------------------------------------------
(* What the documentation says of a run, and the code does not do *)

(* "Never rewrites files written under a spec other than the table's current *)
(* one": the data files a run adds are in the spec of those it replaces.    *)
RewritesKeepTheSpec ==
    [][edits' = edits =>
         \A f \in DataFiles(table.live) \ table.live', g \in DataFiles(table.live') \ table.live :
            f.path.part.spec = g.path.part.spec]_vars
=============================================================================
