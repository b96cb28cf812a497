------------------------------- MODULE Reclaim -------------------------------
(***************************************************************************)
(* How storage is given back: the expiration of snapshots with the cleanup *)
(* of what it orphans, and the removal of files nothing references.        *)
(*                                                                         *)
(* A cycle loads the table once, then runs the two operations one after    *)
(* the other from that load.  Several processes may do so at once, while   *)
(* writers stage files and commit them later, another table is created     *)
(* inside this one's location, and any process may stop between any two    *)
(* steps.  Paths are numbers, in the order in which they are sorted.       *)
(***************************************************************************)
EXTENDS Naturals, FiniteSets

CONSTANTS
    Processes,
    Paths,
    Lists,              \* paths of manifest lists: what is read to know a snapshot's files
    ForeignPaths,       \* paths another table, inside this location, may write
    ForeignRoot,        \* the metadata document of that table
    Outside,            \* files the table references outside its own location
    NoTime,             \* files for which the store reports no modification time
    Locked,             \* files the store refuses to delete
    Seed,               \* the snapshots of the table at the start
    SeedStaged,         \* files written before the start by writers still at work
    Grace,              \* orphans.older_than
    MaxAge,             \* snapshots.max_age
    MinToKeep,          \* snapshots.min_to_keep
    DeleteFiles,        \* snapshots.delete_files
    OrphanMode,         \* "off", "dry-run" or "delete"
    Ceiling,            \* limits.max_deletes_per_run
    MaxCommitAttempts,
    CommitRefreshes,    \* whether the catalog client may apply a commit to a table that moved
    PromptWriters,      \* whether writers commit a file within Grace of writing it
    MaxClock,           \* bound: ticks of the clock
    MaxStops            \* bound: errors, timeouts, crashes and records that cannot be written

VARIABLES
    table,     \* the snapshots the catalog's current metadata retains
    objects,   \* the paths that exist in the store
    mtime,     \* when each path was written
    written,   \* the paths ever written
    staged,    \* those not yet committed to a table
    foreign,   \* the files of the other table
    clock,
    audit,     \* the paths on record as about to be deleted
    unrecorded, \* those whose record could not be written: an error was logged
    run,       \* per process, the state of its cycle
    stops

vars == <<table, objects, mtime, written, staged, foreign, clock, audit, unrecorded, run, stops>>
store == <<objects, mtime, written>>
records == <<audit, unrecorded>>

Snapshot == [list : Lists, data : SUBSET Paths, at : Nat, seq : Nat]

ASSUME ReclaimAssumption ==
    /\ Paths \subseteq Nat \ {0} /\ IsFiniteSet(Paths) /\ IsFiniteSet(Processes)
    /\ Lists \subseteq Paths /\ ForeignPaths \subseteq Paths
    /\ ForeignRoot \in Paths => ForeignRoot \in ForeignPaths
    /\ Outside \subseteq Paths /\ Lists \cap (ForeignPaths \cup Outside) = {}
    /\ Outside \cap ForeignPaths = {}
    /\ Seed \subseteq Snapshot /\ Seed # {} /\ IsFiniteSet(Seed)
    /\ \A s \in Seed : s.data \cap (ForeignPaths \cup Lists) = {}
    /\ SeedStaged \subseteq Paths \ (Outside \cup {ForeignRoot})
    /\ \A s \in Seed : (s.data \cup {s.list}) \cap SeedStaged = {}
    /\ Grace \in Nat \ {0} /\ MaxAge \in Nat /\ MinToKeep \in Nat \ {0} /\ Ceiling \in Nat
    /\ MaxCommitAttempts \in Nat \ {0} /\ MaxClock \in Nat /\ MaxStops \in Nat
    /\ DeleteFiles \in BOOLEAN /\ PromptWriters \in BOOLEAN /\ CommitRefreshes \in BOOLEAN
    /\ OrphanMode \in {"off", "dry-run", "delete"}

-----------------------------------------------------------------------------
(* Tables *)

(* Mutant: only the current snapshot is walked. *)
ReachOfCurrent(t) == UNION {s.data \cup {s.list} : s \in {h \in t : \A o \in t : o.seq <= h.seq}}

(* Everything a set of retained snapshots refers to. *)
Reach(t) == UNION {s.data \cup {s.list} : s \in t}

(* The set cannot be computed once a manifest list is gone. *)
Readable(t) == \A s \in t : s.list \in objects

Latest(s, t) == \A o \in t : o.seq <= s.seq

(* What expiration keeps: the young, and the last MinToKeep of the branch. *)
Retained(t, now) ==
    {s \in t : \/ now <= s.at + MaxAge
               \/ Cardinality({o \in t : o.seq > s.seq}) < MinToKeep}

(* Mutants: the ceiling is not applied; an excessive list is refused. *)
Unlimited(doomed) == doomed
AllOrNothing(doomed) == IF Cardinality(doomed) <= Ceiling THEN doomed ELSE {}

(* The first paths of a sorted kill list, as many as one run may delete. *)
WithholdBeyond(doomed) ==
    {f \in doomed : Cardinality({g \in doomed : g < f}) < Ceiling}

-----------------------------------------------------------------------------
(* Cycles *)

Results == {"none", "succeeded", "noop", "conflicted", "failed"}

Run == [pc : {"idle", "loaded", "commit", "reload", "count", "toClean", "clean",
              "between", "list", "listed", "verify", "toSweep", "sweep"},
        view : SUBSET Snapshot,       \* the table as the cycle loaded it
        base : SUBSET Snapshot,       \* as the operation last saw it
        now : Nat, attempt : 0 .. MaxCommitAttempts,
        before : SUBSET Paths,        \* reachable before the expiration
        cand : SUBSET Paths, cursor : Nat,
        doomed : SUBSET Paths,
        dropped : SUBSET Snapshot,    \* what this run's commit expired
        result : Results]             \* of its expiration

AtRest(pc, view, dropped, result) ==
    [pc |-> pc, view |-> view, base |-> {}, now |-> 0, attempt |-> 0, before |-> {},
     cand |-> {}, cursor |-> 0, doomed |-> {}, dropped |-> dropped, result |-> result]

IdleRun == AtRest("idle", {}, {}, "none")

(* The expiration is over; the cycle goes on with the table it loaded. *)
AfterExpire(r, result) == AtRest("between", r.view, r.dropped, result)

Set(p, r) == run' = [run EXCEPT ![p] = r]

Init ==
    /\ table = Seed /\ staged = SeedStaged
    /\ objects = Reach(Seed) \cup SeedStaged \cup Outside
    /\ written = objects /\ mtime = [f \in Paths |-> 0]
    /\ foreign = {} /\ clock = 0 /\ audit = {} /\ unrecorded = {} /\ stops = 0
    /\ run = [p \in Processes |-> IdleRun]

LoadTable(p) ==
    /\ run[p].pc = "idle"
    /\ Set(p, AtRest("loaded", table, {}, "none"))
    /\ UNCHANGED <<table, store, staged, foreign, clock, records, stops>>

(* The plan holds only some of the operations, and an observer may veto one. *)
Skip(p) ==
    /\ run[p].pc \in {"loaded", "between"}
    /\ Set(p, IF run[p].pc = "loaded" THEN AfterExpire(run[p], "none") ELSE IdleRun)
    /\ UNCHANGED <<table, store, staged, foreign, clock, records, stops>>

(* An error, or the deadline of the operation: the cycle moves on. *)
Abort(p) ==
    /\ stops < MaxStops
    /\ run[p].pc \notin {"idle", "loaded", "between"}
    /\ Set(p, IF run[p].pc \in {"commit", "reload", "count", "toClean", "clean"}
              THEN AfterExpire(run[p], "failed") ELSE IdleRun)
    /\ stops' = stops + 1
    /\ UNCHANGED <<table, store, staged, foreign, clock, records>>

Crash(p) ==
    /\ stops < MaxStops /\ run[p].pc # "idle"
    /\ Set(p, IdleRun)
    /\ stops' = stops + 1
    /\ UNCHANGED <<table, store, staged, foreign, clock, records>>

(* A snapshot of the table as loaded was expired and cleaned up meanwhile. *)
Unreadable(p) ==
    /\ \/ run[p].pc = "loaded" /\ DeleteFiles /\ ~Readable(run[p].view)
       \/ run[p].pc = "count" /\ DeleteFiles /\ ~Readable(run[p].base)
       \/ run[p].pc = "between" /\ ~Readable(run[p].view)
       \/ run[p].pc = "verify" /\ ~Readable(run[p].base)
    /\ Set(p, IF run[p].pc \in {"loaded", "count"} THEN AfterExpire(run[p], "failed") ELSE IdleRun)
    /\ UNCHANGED <<table, store, staged, foreign, clock, records, stops>>

-----------------------------------------------------------------------------
(* Expiration *)

StartExpire(p) ==
    /\ run[p].pc = "loaded"
    /\ DeleteFiles => Readable(run[p].view)
    /\ Set(p, [run[p] EXCEPT !.pc = "commit", !.now = clock, !.base = run[p].view, !.attempt = 1,
                             !.before = IF DeleteFiles THEN Reach(run[p].view) ELSE {}])
    /\ UNCHANGED <<table, store, staged, foreign, clock, records, stops>>

CommitExpiry(p) ==
    LET kept == Retained(table, run[p].now) IN
    /\ run[p].pc = "commit" /\ (CommitRefreshes \/ table = run[p].base)
    /\ table' = kept
    /\ Set(p, [run[p] EXCEPT !.pc = "count", !.base = kept, !.dropped = table \ kept])
    /\ UNCHANGED <<store, staged, foreign, clock, records, stops>>

(* Another commit moved the table under the attempt. *)
LoseCommit(p) ==
    /\ run[p].pc = "commit" /\ table # run[p].base
    /\ Set(p, IF run[p].attempt < MaxCommitAttempts
              THEN [run[p] EXCEPT !.pc = "reload"] ELSE AfterExpire(run[p], "conflicted"))
    /\ UNCHANGED <<table, store, staged, foreign, clock, records, stops>>

ReloadTable(p) ==
    /\ run[p].pc = "reload"
    /\ Set(p, [run[p] EXCEPT !.pc = "commit", !.base = table, !.attempt = @ + 1])
    /\ UNCHANGED <<table, store, staged, foreign, clock, records, stops>>

(* The number expired is measured against the table the cycle loaded. *)
NothingRemoved(p) ==
    /\ run[p].pc = "count"
    /\ Cardinality(run[p].view) <= Cardinality(run[p].base)
    /\ Set(p, AfterExpire(run[p], "noop"))
    /\ UNCHANGED <<table, store, staged, foreign, clock, records, stops>>

(* What was reachable before the commit and is not after it. *)
NowUnreachable(r) == (r.before \ Reach(r.base)) \ Outside

Cleanup(p) ==
    /\ run[p].pc = "count"
    /\ Cardinality(run[p].base) < Cardinality(run[p].view)
    /\ DeleteFiles => Readable(run[p].base)
    /\ Set(p, [run[p] EXCEPT !.pc = "toClean", !.doomed = WithholdBeyond(NowUnreachable(run[p]))])
    /\ UNCHANGED <<table, store, staged, foreign, clock, records, stops>>

-----------------------------------------------------------------------------
(* Orphan removal *)

StartScan(p) ==
    /\ run[p].pc = "between" /\ OrphanMode # "off"
    /\ Readable(run[p].view)
    /\ Set(p, [run[p] EXCEPT !.pc = "list", !.now = clock, !.cand = {}, !.cursor = 0])
    /\ UNCHANGED <<table, store, staged, foreign, clock, records, stops>>

(* The process has examined the nested table. *)
RefuseSibling(p) ==
    /\ run[p].pc = "between" /\ OrphanMode # "off" /\ foreign # {}
    /\ Set(p, IdleRun)
    /\ UNCHANGED <<table, store, staged, foreign, clock, records, stops>>

(* Mutant: no grace period. *)
IsUnreferenced(f, r) == f \notin Reach(r.view) \cup Outside \cup NoTime

(* Old enough, inside the location, and not of the table as loaded. *)
IsCandidate(f, r) ==
    /\ f \notin Reach(r.view)
    /\ f \notin Outside
    /\ f \notin NoTime
    /\ mtime[f] + Grace <= r.now

(* The listing is a stream: an object is seen if it exists when its turn    *)
(* comes.  The metadata document of another table ends the scan.            *)
ListObject(p) ==
    \E f \in objects :
        /\ run[p].pc = "list" /\ f > run[p].cursor
        /\ \A g \in objects : g > run[p].cursor => f <= g
        /\ Set(p, IF f = ForeignRoot THEN IdleRun
                  ELSE [run[p] EXCEPT !.cursor = f,
                                      !.cand = IF IsCandidate(f, run[p]) THEN @ \cup {f} ELSE @])
        /\ UNCHANGED <<table, store, staged, foreign, clock, records, stops>>

EndListing(p) ==
    /\ run[p].pc = "list" /\ \A g \in objects : g <= run[p].cursor
    /\ Set(p, IF OrphanMode = "dry-run" \/ run[p].cand = {}
              THEN IdleRun ELSE [run[p] EXCEPT !.pc = "listed"])
    /\ UNCHANGED <<table, store, staged, foreign, clock, records, stops>>

ReloadAfterListing(p) ==
    /\ run[p].pc = "listed"
    /\ Set(p, [run[p] EXCEPT !.pc = "verify", !.base = table])
    /\ UNCHANGED <<table, store, staged, foreign, clock, records, stops>>

(* Mutant: the reachable set of the scan is used again. *)
StillOrphans(r) == r.cand \ Reach(r.view)

(* Candidates that became reachable since the scan are spared. *)
Reverified(r) == r.cand \ Reach(r.base)

Reverify(p) ==
    /\ run[p].pc = "verify" /\ Readable(run[p].base)
    /\ Set(p, [run[p] EXCEPT !.pc = "toSweep", !.doomed = WithholdBeyond(Reverified(run[p]))])
    /\ UNCHANGED <<table, store, staged, foreign, clock, records, stops>>

-----------------------------------------------------------------------------
(* Deletion: in any order, a failure leaves a leak *)

(* The list is announced before the first deletion.  A record that cannot   *)
(* be written is an error in the log, and the deletion goes on.             *)
Announce(p) ==
    /\ run[p].pc \in {"toClean", "toSweep"}
    /\ Set(p, [run[p] EXCEPT !.pc = IF @ = "toClean" THEN "clean" ELSE "sweep"])
    /\ \/ audit' = audit \cup run[p].doomed /\ UNCHANGED <<unrecorded, stops>>
       \/ /\ stops < MaxStops /\ stops' = stops + 1
          /\ unrecorded' = unrecorded \cup run[p].doomed /\ UNCHANGED audit
    /\ UNCHANGED <<table, store, staged, foreign, clock>>

(* Mutant: deletions start before the list is announced. *)
DeletingAtOnce(p) == run[p].pc \in {"toClean", "clean", "toSweep", "sweep"}

Deleting(p) == run[p].pc \in {"clean", "sweep"}

Delete(p, f) ==
    /\ Deleting(p) /\ f \in run[p].doomed /\ f \notin Locked
    /\ objects' = objects \ {f}
    /\ Set(p, [run[p] EXCEPT !.doomed = @ \ {f}])
    /\ UNCHANGED <<table, mtime, written, staged, foreign, clock, records, stops>>

DeleteFails(p, f) ==
    /\ Deleting(p) /\ f \in run[p].doomed
    /\ Set(p, [run[p] EXCEPT !.doomed = @ \ {f}])
    /\ UNCHANGED <<table, store, staged, foreign, clock, records, stops>>

DeletionDone(p) ==
    /\ Deleting(p) /\ run[p].doomed = {}
    /\ Set(p, IF run[p].pc = "clean" THEN AfterExpire(run[p], "succeeded") ELSE IdleRun)
    /\ UNCHANGED <<table, store, staged, foreign, clock, records, stops>>

-----------------------------------------------------------------------------
(* Writers and the other table *)

Stage(f) ==
    /\ f \notin written /\ f # ForeignRoot
    /\ objects' = objects \cup {f} /\ written' = written \cup {f} /\ staged' = staged \cup {f}
    /\ mtime' = [mtime EXCEPT ![f] = clock]
    /\ UNCHANGED <<table, foreign, clock, records, run, stops>>

InTime(f) == (PromptWriters /\ f \notin NoTime) => clock < mtime[f] + Grace

(* A commit adds staged files, one of them its manifest list, and carries   *)
(* forward what it likes of the head.                                       *)
WriterCommit ==
    \E add \in SUBSET (staged \ ForeignPaths), l \in Lists, head \in table :
        /\ Latest(head, table)
        /\ add \cap Lists = {l}
        /\ \A f \in add : InTime(f)
        /\ \E keep \in SUBSET head.data :
              table' = table \cup {[list |-> l, data |-> keep \cup (add \ {l}),
                                    at |-> clock, seq |-> head.seq + 1]}
        /\ staged' = staged \ add
        /\ UNCHANGED <<store, foreign, clock, records, run, stops>>

ForeignCommit ==
    \E add \in SUBSET (staged \cap ForeignPaths) :
        /\ ForeignRoot \in ForeignPaths
        /\ add # {} \/ ForeignRoot \notin written
        /\ \A f \in add : InTime(f)
        /\ foreign' = foreign \cup add \cup {ForeignRoot}
        /\ objects' = objects \cup {ForeignRoot} /\ written' = written \cup {ForeignRoot}
        /\ mtime' = [mtime EXCEPT ![ForeignRoot] = clock]
        /\ staged' = staged \ add
        /\ UNCHANGED <<table, clock, records, run, stops>>

Tick ==
    /\ clock < MaxClock /\ clock' = clock + 1
    /\ UNCHANGED <<table, store, staged, foreign, records, run, stops>>

-----------------------------------------------------------------------------
Cycle(p) ==
    \/ LoadTable(p) \/ Skip(p) \/ Unreadable(p)
    \/ StartExpire(p) \/ CommitExpiry(p) \/ LoseCommit(p) \/ ReloadTable(p)
    \/ NothingRemoved(p) \/ Cleanup(p)
    \/ StartScan(p) \/ RefuseSibling(p) \/ ListObject(p) \/ EndListing(p)
    \/ ReloadAfterListing(p) \/ Reverify(p) \/ Announce(p)
    \/ \E f \in Paths : Delete(p, f) \/ DeleteFails(p, f)
    \/ DeletionDone(p)

Environment ==
    \/ \E f \in Paths : Stage(f)
    \/ WriterCommit \/ ForeignCommit \/ Tick

Next ==
    \/ \E p \in Processes : Cycle(p) \/ Abort(p) \/ Crash(p)
    \/ Environment

Spec == Init /\ [][Next]_vars

(* Cycles recur and go on; every cycle may include a scan, and an object    *)
(* that can be deleted is not refused for ever.                             *)
Fairness ==
    \A p \in Processes :
        /\ WF_vars(Cycle(p))
        /\ SF_vars(StartScan(p))
        /\ \A f \in Paths : SF_vars(Delete(p, f))

FairSpec == Spec /\ Fairness

-----------------------------------------------------------------------------
TypeOK ==
    /\ table \subseteq Snapshot
    /\ objects \subseteq written /\ written \subseteq Paths
    /\ mtime \in [Paths -> 0 .. MaxClock] /\ staged \subseteq written
    /\ foreign \subseteq written \cap ForeignPaths
    /\ clock \in 0 .. MaxClock /\ stops \in 0 .. MaxStops
    /\ audit \subseteq Paths /\ unrecorded \subseteq Paths
    /\ run \in [Processes -> Run]

(* What must not be deleted: every file a retained snapshot refers to, the  *)
(* files of the table nested inside, and what lies outside the location.    *)
Protected ==
    (UNION {s.data \cup {s.list} : s \in table}) \cup foreign \cup Outside

(* No interleaving of writers, expirations, cleanups and scans - with stale *)
(* loads, lost commits, crashes and timeouts - deletes a file that a        *)
(* retained snapshot or another table needs (orphans.rs:1-36).              *)
LiveFilesSurvive == Protected \subseteq objects

(* A file that a writer may still commit is there when it does: cleanup     *)
(* takes only committed files, a scan only files past the grace period.     *)
StagedFilesSurvive ==
    \A f \in staged : InTime(f) => f \in objects

(* No object disappears in silence: wherever the process stops, what is     *)
(* gone - and what a deletion under way is about to take - was recorded     *)
(* before, or the log has the error; and no run takes more than its ceiling *)
(* (delete.rs:13-19, audit.rs:184).                                         *)
DeletionsAccounted ==
    /\ written \ objects \subseteq audit \cup unrecorded
    /\ \A p \in Processes :
          /\ run[p].pc \in {"clean", "sweep"} => run[p].doomed \subseteq audit \cup unrecorded
          /\ Cardinality(run[p].doomed) <= Ceiling

Reclaimable(f) ==
    /\ f \in objects \ Protected /\ f \notin NoTime
    /\ mtime[f] + Grace <= clock

(* What nothing references any more is deleted in the end, however often    *)
(* the ceiling, a failed deletion or a stop left it behind (delete.rs:14).  *)
WithheldIsReclaimed ==
    \A f \in Paths \ Locked : Reclaimable(f) ~> f \notin objects
=============================================================================
