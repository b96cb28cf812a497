# A verification development for bergman

bergman maintains Apache Iceberg tables: it compacts small files, rewrites
manifests, expires snapshots and removes orphaned files, as a daemon or from the
command line. It keeps no state of its own between cycles. Everything it knows it
reads from a REST catalog and an object store, and everything it changes goes
through a commit that asserts the snapshot it was computed from. Several
replicas, and every other writer of the table, may work at once.

This directory holds TLA+ models of that code, the TLC configurations that check
them on small instances, and theorems about them that TLAPS has checked for all
instances. `PROJECT.json` maps every definition to the lines it models.

## The system

| part | code | state it keeps | operations | talks to |
|---|---|---|---|---|
| compaction | `ops/compact/` | the run's table state, its groups, a breaker, an outcome | load, group, rewrite, commit, reload, drop dangling deletes | snapshot producer, REST committer, scan |
| snapshot producer | `commit/snapshot.rs` | none: one snapshot per call | rewrite files, rewrite manifests, find dangling deletes, write manifests, install | object store, committer |
| REST committer | `commit/rest.rs`, `commit/mod.rs` | none | send an assertion and updates, re-send when busy, classify the answer | catalog, token source |
| token source | `commit/auth.rs` | a token with its expiry | token, renew (serialised by a lock) | identity endpoint |
| manifest rewrite | `ops/manifests.rs` | none | bucket, pack and replace manifests | snapshot producer |
| snapshot expiration | `ops/expire.rs` | the reachable set before the commit | select, commit, compute what became unreachable, delete | reachability, deletion |
| orphan removal | `ops/orphans.rs`, `ops/store.rs` | the listing, two reachable sets | list, judge, wait, judge again, delete | reachability, deletion |
| reachability | `ops/reachability.rs` | none | every path the metadata names, normalised | object store |
| deletion | `ops/delete.rs` | a ceiling | announce, delete, count | object store, audit |
| engine | `engine.rs` | one cycle: the loaded table and the plan | plan, veto, run operations in order with a timeout, report | all operations |
| daemon | `sched/mod.rs`, `sched/trigger.rs` | triggers, consecutive failures | wait, select a wake-up, run a cycle, report health, shut down | engine, event stream |
| event stream | `sched/event_stream.rs` | a bounded queue, a debounce | accept, drop, batch | daemon |
| window, schedules | `policy/window.rs`, `policy/schedule.rs` | none | is it open, when does it open next | daemon, engine |
| planner | `plan/` | none | judge what the manifests show, decide, order, cut to a budget | engine, health |
| policy | `policy/` | the compiled rules | validate, refuse dead rules, first matching rule, layered settings | engine, planner |
| health | `health/` | none | group files by partition, count, sum, estimate | planner |
| catalog discovery | `catalog/` | the walk's queue and what was listed | list namespaces level by level, list tables, load | engine |
| observability, command line, errors | `obs/`, `cli/`, `error.rs` | counters | I/O and text | engine |

### What is hard about it

* **Every commit is optimistic.** A run computes for minutes against one snapshot
  while writers append, upsert and delete. Losing the race means the plan is
  stale, not only the commit.
* **Answers get lost.** A commit can be installed although its answer was a
  timeout; a request re-sent to a busy catalog can be served twice; a request can
  be served after its sender has crashed and another replica has taken over.
* **Delete files are shared.** One delete file applies to data files of several
  groups, and by sequence number to files that do not exist yet.
* **Deletion cannot be undone.** Reachability is computed, then time passes, then
  files are deleted, while other writers commit files they staged before.
* **The daemon waits on several things at once**, and a wake-up that is consumed
  but not acted on is lost.
* **A plan is made from other evidence than the run acts on.** The planner counts in
  manifests, the executor in scan tasks, minutes later; if they disagree, a table is
  planned in every cycle for ever, or more is read than the budget was charged for.
* **Things are compared by how they are written down**: tables by a rendered name,
  partitions by a rendered path, objects by a normalised location. Two that are
  written alike by accident are merged, or deleted in each other's place.
* **Tables are maintained side by side** and share one token, whose renewal holds a
  lock across a request that may fail or be dropped.

### What would make each part correct

* Compaction: readers never notice it; no row twice; no delete file retired while
  it applies to something; no file restamped; a run ends; its report is true.
* Expiration and orphan removal: no file that any retained snapshot needs is ever
  deleted, nor one that a writer within the grace period is about to commit; the
  ceiling withholds exactly the excess; nothing is deleted that was not announced, in
  a record or, where that fails, in the log.
* Engine and daemon: a due table is eventually maintained, a veto is final, no two
  cycles of one daemon overlap, a shutdown is answered.
* Manifest rewrite: the live files are the same files afterwards, with the same
  sequence numbers and partitions; a quiet table is not packed again for ever.
* Token source: one renewal serves all waiters; a request that carries a token is
  answered before the token expires.
* Planner: what it plans the executor finds worth doing, at no more than was charged,
  no run makes work for the next, and maintenance stops once writers do.
* Policy and discovery: each table is found once, governed by the rule that names it,
  and every setting it makes is used or warned of.

## Modules

| module | models | state |
|---|---|---|
| `IcebergFiles` | files of a table, which delete applies to which data file, what a reader sees, dead delete files | none (operators) |
| `RowTable` | abstract: what readers are promised while maintenance runs | visible rows, edits |
| `Compaction` | runs of several replicas, the catalog, foreground writers | a record per replica, the table, requests under way |
| `Reclaim` | snapshot expiration with its cleanup, orphan removal, both in a cycle, several processes, writers, a nested table | a record per process, the table, the store, a clock |
| `EventStream` | the queue of notifications and its debounce window | queue, window |
| `Daemon` | the loop around all of it; extends `EventStream` | timers, what the cycle covers, work outstanding |
| `LiveEntries` | abstract: what a table's manifests record, however they are packed | live entries, edits |
| `Manifests` | the snapshot producer at the granularity of manifests: manifest rewrites, rewrites of planned groups and the pass over dangling deletes, of several replicas | the table's metadata, a record per replica, requests under way |
| `TokenSource` | the cached token and its locks | clock, slot, lock holder, each task's call |
| `RestCommit` | a commit with its re-sends, and the catalog; extends `TokenSource` | each table's branch, each task's commit, late requests |
| `Engine` | cycles: plan, budget, run tables side by side, report; extends `RestCommit` | plan, each table's place, report, scan ledger |
| `Upkeep` | what the planner triggers on and what the executor then finds | files per partition, one delete file, a plan |
| `Naming` | how tables, patterns, partitions and paths are written down | none (operators) |
| `Policy` | compiling rules, resolving settings; extends `Naming` | none (operators) |
| `GroupRewrite` | what becomes of the rows of one file group; extends `Naming` | none (operators) |
| `Survey` | from a policy over the walk of a changing catalog to what is done to one table; extends `Policy` and `GroupRewrite` | the walk, the catalog, the last decision |
| `MCCompaction`, `MCReclaim`, `MCDaemon`, `MCManifests`, `MCEngine`, `MCUpkeep`, `MCSurvey` | instances for TLC | |
| `CompactionProofs` | facts about `IcebergFiles`, the inductive invariant of `Compaction` and its theorems, the refinement of `RowTable` | |
| `ReclaimProofs`, `DaemonProofs`, `EngineProofs`, `UpkeepProofs` | invariants and theorems of `Reclaim`, `Daemon`, `Engine` (with `RestCommit` and `TokenSource`) and `Upkeep` | |
| `ManifestsProofs` | invariants and theorems of `Manifests`, the refinement of `LiveEntries` | |
| `NamingProofs` | theorems about `Naming`: texts of any length | |
| `SurveyProofs` | invariants and theorems of `Survey` (with `Policy`); extends `NamingProofs` | |

Each module cuts the same program at another granularity. `Compaction` knows rows and
delete files and no manifests; `Manifests` knows manifests, retention and which delete
file applies to which data file, and no rows;
`Engine` knows commits only by identity and base; `Upkeep` takes a whole run as one
step and looks at sizes; `GroupRewrite` is the one group that `Compaction` takes as
"the surviving rows".

`IcebergFiles` is the vocabulary of compaction. A row is an identity with a key; a
file is a path, a kind, a sequence number and the rows, keys or paths it speaks
of. `Applies` is the scan's rule (external: it belongs to the Iceberg library),
`DeadBySequence` and `DanglingDeleteFiles` are the code's own derivation from
sequence numbers in `commit/snapshot.rs`.

### Compaction

One record per replica, `run[r]`, follows `ops/compact/mod.rs`:

| `pc` | the code is about to | left by |
|---|---|---|
| `idle` | start a run | `Begin` (load, build groups), `Decline` (refusals) |
| `choose` | take the next group | `ChooseGroup`, `GroupsDone` (no group, or the breaker) |
| `rewrite` | select the group's tasks again and rewrite them | `RewriteOnce`, `NothingLeft`, `RewriteFails` |
| `await` | hear from the catalog | `Install`, `Reject`, `Resend`, `GiveUp` |
| `reload` | read the table after a lost commit | `Reload` |
| `refresh` | read the table after a commit | `Refresh` |
| `dangling` | remove delete files that apply to nothing | `DropDangling` |

`run[r].state` is the table state that is kept between groups, `run[r].current` the
one this attempt uses; that they are two things is where the hazards are. A commit
is a request in `inflight`: the catalog installs it if it asserts the current head
(`Install`), rejects it if not (`Reject`), and in either case the answer may or may
not reach the run. `Resend` puts the identical request there again, `GiveUp` stops
waiting without knowing what happened, `Crash` forgets the run and leaves its
request under way. Foreground writers append, upsert, delete by key or by position,
drop files and change the default partition spec.

Abstracted: reading, sorting and writing Parquet become "which rows survive";
planning thresholds become "some subset of the partitions"; the byte limit of a
group becomes its limit on files; sizes are three classes. `LossyPipeline` lets the
read and the write half lose rows silently, to ask whether the row counts catch it.

### Reclaim

One record per process, `run[p]`, follows one table's part of a cycle in `engine.rs`
through `ops/expire.rs` and then `ops/orphans.rs`, both from the table loaded once:

| `pc` | the code is about to | left by |
|---|---|---|
| `idle` | load the table | `LoadTable` |
| `loaded` | run the expiration | `StartExpire`, `Skip`, `Unreadable` |
| `commit` | commit it | `CommitExpiry`, `LoseCommit` |
| `reload` | read the table after a lost commit | `ReloadTable` |
| `count` | compare snapshot counts, compute what became unreachable | `NothingRemoved`, `Cleanup`, `Unreadable` |
| `toClean` | announce the list | `Announce` |
| `clean` | delete it | `Delete`, `DeleteFails`, `DeletionDone` |
| `between` | run the orphan removal | `StartScan`, `RefuseSibling`, `Skip`, `Unreadable` |
| `list` | take the next object of the listing | `ListObject`, `EndListing` |
| `listed` | load the table again | `ReloadAfterListing` |
| `verify` | compute reachability again | `Reverify`, `Unreadable` |
| `toSweep` | announce the list | `Announce` |
| `sweep` | delete what is left | `Delete`, `DeleteFails`, `DeletionDone` |

`Announce` writes a list to the audit record or fails to: then an error is in the log
(`unrecorded`) and the deletions go on all the same. `Abort` (an error, or the
operation's deadline) and `Crash` may end any of these.
Writers stage an object and later commit it (`Stage`, `WriterCommit`), another table
is created and grows inside the location (`ForeignCommit`), the clock advances.

Abstracted: a path is a number, in the order in which the code sorts paths. A
snapshot is its manifest list, the set of all the files reached through it, the
time it was committed and its place in the history of one branch; manifests, data
files and statistics are not told apart, because reachability treats them alike:
it is a union, and fails if a manifest list cannot be read (`Readable`).
`ForeignRoot` is the metadata document by which a listing recognises a nested
table. `Outside` are files that a table refers to but that do not lie under its
location, `NoTime` objects without a modification time, `Locked` objects the store
refuses to delete. Which snapshots may expire is the Iceberg library's decision
(`Retained`, external), reduced to an age and a number to keep. `CommitRefreshes`
chooses between the two ways that library may meet a moved table: it applies the
expiration to the new one, or fails and lets the loop in `expire.rs` reload.

### Daemon

`EventStream` gives one poll of `next_batch`: it yields a batch (`Deliver`), finds the
senders gone (`Ended`), or waits with what it has collected (`Collect`). `Daemon`
puts it beside the timer in the loop of `sched/mod.rs`:

| `pc` | the code is about to | left by |
|---|---|---|
| `top` | check the cycle limit, choose the trigger, compute the sleep | `Settle` |
| `first` | poll the select for the first time | `Poll` |
| `parked` | poll it again | `Poll` |
| `planning` | list and load the tables in scope | `PlanTables`, `PlanFails` |
| `planned` | ask the window | `RunPlan`, `Defer` |
| `running` | finish the cycle | `Finish` |
| `stopped` | nothing | |

`Poll` is the biased select in its order: `Shutdown`, `BatchArrives`, `EventsEnd`,
`TimerFires`, `Park`. Around it tables change, notifications arrive or are dropped by
a full queue, senders leave, somebody asks for a shutdown, and time passes.

Abstracted: time is counted in ticks of a short day; a cron expression and the
maintenance window are sets of ticks. What a cycle does to a table is whether its
work is done. Between `top` and the first poll the code does not await, so no time
passes there; planning's time passes before its result is fixed.

### Manifests

`table.manifests` is the manifest list: each manifest has a partition spec, a kind
(data or deletes), whether the rewrite takes it for undersized, and entries with a
file, a tuple, a sequence number and a status. One record per replica:

| `pc` | the code is about to | left by |
|---|---|---|
| `idle` | load the table: to pack manifests, to plan a group, or to look for dangling deletes | `Begin` |
| `loaded` | decide, write manifests and send the commit | `Refuse`, `NothingToPack`, `RewriteManifests`, `RewriteFiles`, `DropDangling`; `Reload` before a later group |
| `sent` | hear from the catalog | `Commit`, `Conflict` |
| `backoff` | reload after a lost commit | `Reload` |

`Drop` ends an operation anywhere (an error, its timeout, a crash) and may leave its
request under way; `Commit` may leave the request there too, because the answer was a
gateway's and the throttle loop sends it again. Around the replicas, writers append
data and deletes, remove files, change the default spec, and the owner alters the
branch's retention; the last two add no snapshot, so no assertion sees them.

A manifest rewrite buckets the undersized manifests by spec and kind, sorts the live
entries by rendered partition, cuts them at the target size, and commits only if that
leaves fewer. A file rewrite rebuilds the manifests that lost an entry under their own
spec, drops those that lost all, carries the others and, if a file was written, adds one
for it under the spec that is the table's then. What it removes is its group and the
delete files that group was the last to need (`Retired`); the pass after the groups
removes the delete files that apply to nothing and adds none.

A group is planned once, from files of one partition under the current spec (`Groups`),
and from then on is a set of paths (`wanted`): after a lost commit, and before each later
group of the plan, the table is read again and the group is what is left of those paths
(`Selected`), with the deletes that apply now. The code then refuses a group under
several specs but does not ask whether its one spec is still the table's, so an output
may be filed under another spec than its inputs; the run `rewrite_crosses_specs` has what
that does to rows. One run here is one group of a plan: groups meet only by way of the
table, which they read again.

`LiveEntries` is what all three promise; `EntriesUntouched` is the refinement: no entry
changes but those that are exchanged, data goes for newer data of its tuple or, where
deletes hid all of it, for nothing, and no delete goes that applies to data that stays.
Because of the finding, it leaves open under which spec the output is filed.

Abstracted: the size of a manifest is its number of entries, and because the code only
estimates it, a written manifest may turn out small or not (`Sizes`). The order of
tuples is a rank. A delete applies to the data of its partition that is not newer
(`Hides`); where numbers are equal the kinds of deletes differ, and a global delete
reaches further, which is in `IcebergFiles`. `SoundManifests` is what a manifest list of a real table is: each live
file listed once, numbered no later than the table; `SeedAssumption` asks it of the seed.
`ReadableMetadata` says whether the metadata file is always read back for the retention;
where it is not, the commit may fall back to no retention, as the code does, which
the theorems allow for and the findings name. No property of `manifests` reads the
retention, and `retention_lost` loses it without, so the runs do without that choice.

### TokenSource, RestCommit, Engine

`TokenSource` is one call of `token()`, per task: `asking` (take the read lock; use the
token unless it is due), `queued` (take the write lock; look again), `exchanging` (with
the lock), then `armed` with a token or `failed`. Dropping the call releases the lock.
`RestCommit` puts it under a commit: `committing` until answered, `waiting` between a
throttled answer and the identical request. A request that was applied may still be
answered as if not, one that times out may arrive later (`late`), as long as the branch
is where its assertion says. `Engine` puts both under a cycle:

| `phase` / `work[t].pc` | the code is about to | left by |
|---|---|---|
| `idle` | plan | `Plan`, `DiscoveryFailed` |
| `planned` | restrict the plan, ask the window | `Run` |
| `running` | poll the tables | `EndRun` |
| `unstarted` | load the table, if a permit is free | `StartTable`, `LoadFailed` |
| `next` | ask for approval and start the operation | `Vetoed`, `ScanOrphans`, `Expire`, `Attempt`, `NothingSent` |
| `committing` | carry the commit on | `CommitStep`, `AttemptAgain`, `RetryGivesUp`, `Ended`, `TimedOut` |
| `done` | nothing | |

What a table has still to do is a set (`left`), taken in the code's order. A table's
operations share the table loaded at `StartTable`, so a second rewrite starts from a base that the first has moved and loses its first attempt. What planning found
(`wanted`) is kept beside the plan to ask whether the report accounts for it.

Abstracted: a survey of a table is which operations are due, what the rewrite costs and
how fragmented the table is; which of these are possible is the instance's choice
(`Surveys`). What a rewrite does to the table is in the modules above, here it moves the
branch. The orphan ledger is the time of the last scan's start.

### Upkeep

A partition key has a spec and a value; a file has a size, and `hit` says whether the one
live delete file applies to it. A partition's files are kept smallest first, as both the
planner and the executor sort them, and a set of files is the set of their places. `Plan` is `plan/planner.rs` over what `health/` shows
(small files, oversized files, deletes, the estimate of output files, the age of the
newest file), and keeps the targeted partitions and, for each, its charge. `Run` is
`ops/compact/` grouping what is worth rewriting, smallest first, within the bounds on
files and bytes (`Pack`: at each place, where the open group began), each group failing or leaving rolled files, and the pass over dangling
deletes; `Refuse` is the check of the write format. Between the two, writers append,
drop and delete, and the owner changes the spec or the format. `Cool` is
`min_file_age` passing.

Abstracted: a row has size one, so records and bytes agree but for what deletes take;
commits are one step (`Compaction` has their races).

### Naming, Policy, GroupRewrite, Survey

A text is a sequence of `Tokens`: characters, and as a whole those words that the escapes
treat as a whole. `NamingAssumption` names the tokens that the code itself writes. `Naming` has the rendering of a table's name and the translation of a
pattern to a glob over it (`catalog/` names, `policy/`), the rendering of a partition
(`health/partition.rs`), and the normal form of an object path (`ops/reachability.rs`).
`Policy` has validation, dead rules, first match and the four layers of a setting;
settings are three sorts of number and a sort order, which is what the code
distinguishes them by. `GroupRewrite` has buckets by equal delete sets, anti-joins in
which null equals null, one sort across buckets, the rolling writer, and the refusals. A
row is told from others of the same values by its place, a file and a position; rows
that tie in the sort stay as they were read.

`Survey` strings them together, one pass per behaviour:

| `walk.pc` | the code is about to | left by |
|---|---|---|
| `config` | compile the policy | `Compile` |
| `compiled`, `rejected` | start the walk, or nothing | `Start` |
| `walking` | list namespaces, level by level | `Descend`, `ListTables`, `ListChildren`, `ListingFails` |
| `decide` | decide on a table found, and look inside it | `DecideOn`, `Examine`, `CleanUp`, `Rewrite` |
| `examined`, `cleaned`, `rewritten`, `failed` | nothing | |

Meanwhile tables are created and dropped and namespaces mounted and unmounted below
others. `Examine` groups files of any two specs and tuples, `CleanUp` deletes the
difference of any two sets of paths, `Rewrite` rewrites one group in the order decided.

A walk reaches what is in the least set that holds its roots and, with a namespace, those
below it (`Reached`).

Abstracted: a rule's glob has `*` and `**`, matched from left to right; that the library
lets a `/**/` stand for one slash is not reproduced. A column is an integer or null; the
positional deletes of a task are already applied to its rows.

## Runs

The bounds are named constants of the cfgs.

| run | what it asks | instance |
|---|---|---|
| `compaction` | one run against any one edit: no row twice, a true report, the refinement of `RowTable`, no file restamped, and that every run ends | 3 rows, 2 keys, 2 groups that share an equality delete, 2 attempts, 1 re-send |
| `compaction_evolving` | silent loss of rows, a superseded spec with a global delete, spec changes during the run: deletes are retired only when dead, and row counts catch a loss | 4 rows, 2 specs, 2 changes, 5 files |
| `reclaim` | expiration and scan against writers, a nested table, a file outside, one without a time, one stop or lost record anywhere: nothing needed is deleted, nothing is deleted unaccounted for | 1 process, 9 paths, ceiling 2 |
| `reclaim_live` | what is unreferenced is deleted in the end, with a ceiling of one | 1 process, 6 paths, 3 snapshots at most, 1 stop |
| `daemon` | every wake-up leads somewhere, none starves another, the daemon stops when told | 2 tables, day of 4 ticks, window of 2, interval 3, queue 2, debounce 2 |
| `manifests` | the refinement of `LiveEntries` by packing, group rewrites with retired deletes, and the pass over dangling ones; summaries stay true; packing settles and keeps pruning | 2 replicas (symmetric), 7 entries, 3 of them deletes, 2 specs, 2 tuples, formats 2 and 3, 2 operations, 2 attempts, 1 edit |
| `engine` | one renewal serves all, tokens outlive requests, commits land in order and once, conflicts are real, nothing planned goes unreported, runs end | 2 tables in parallel, 2 cycles, 2 ticks, token life 2 with margin 1, 1 re-send, 2 attempts, budget 3, 1 foreign commit |
| `upkeep` | a plan is a promise, within its charge; no run is for nothing or makes work; maintenance stops once writers do | 3 partitions of 2 specs, sizes 3 to 17 around a target of 8, groups of 2 files, 3 writes, 2 failures |
| `survey` | the walk ends and overlooks nothing; nothing that differs is taken for the same; settings are heeded; a rewrite writes what a scan reads | 4 namespaces with a cycle and a diamond, 6 tables, 156 policies, 2 listings at once, 1 change, groups of 2 files with up to 3 deletes |
| `rewrite_crosses_specs`, `schedules_coincide`, `retention_lost` | statements of the documentation the code does not keep | see Findings |

Why the bounds are enough to be interesting:

* Two small data files and one delete file that applies to both are the least table
  on which groups share a delete; three rows and two keys let a key be deleted and
  written again. One edit meets a run at every point; with two attempts the run
  loses once and succeeds, or loses for good. A re-send, a late answer and a crash
  can all happen in one behaviour.
* Compaction and reclamation run with one replica or process: the theorems below hold
  for any number, and what a second one does to a first (commit behind its back,
  delete what it listed) a foreground edit, a writer or a restarted process does too.
  Manifest rewrites run with two, so that packing and a file rewrite meet.
* Two snapshots are the least history in which one can expire and leave something
  behind. A grace period of one tick and one tick of the clock let a file be young or
  old on either side of every step. With a ceiling of 2 a cleanup or scan may
  withhold.
* The window is half the day; the schedule falls inside it once and outside it
  once, so a wake-up is once kept and once put off. Interval 3 does not divide the
  day, so sweeps meet every hour. A queue of 2 overflows, and a window of 2 ticks
  is interrupted by the timer. One table sends notifications and one never does.
* The seed of `manifests` has two manifests whose entries alternate between two
  partitions, so packing must sort across both, and one under a superseded spec; a
  delete file applies to two data files of different manifests, one to one, one to none,
  so a group alone retires it, shares it or has no use for it. Two
  operations are two replicas that race or one that works twice; a full manifest may
  count as small, so packing can be tempted again.
* In `engine` both tables find the token due at once; it lives as long as the clock
  runs and its margin is one request. Two cycles let a request of the first arrive in
  the second; two attempts conflict once or for good. Money is short: the budget pays
  for either of two rewrites, not both, and never for a third.
* In `upkeep` the sizes are below, at and far above the target, so that a merge leaves
  fewer files or as many, and a split leaves several. Three writes make a partition
  small again after a cycle, cover it with deletes and move the spec.
* In `survey` the tables' names contain the separator, its escape and an escaped dot;
  the namespaces are met twice, by a cycle and from two parents. Every pair of the
  patterns and every combination of the layers is tried in a quiet catalog; in a
  changing one, two policies, because what the walk does depends on none. Groups have
  null keys on both sides, deletes on one column, on two and on the other, one that
  names no field and one whose field is gone; they are rewritten under two policies
  (`Studied`), one with a sort and one that leaves it to the table.

Deadlock checking is off where the system really stops: in the compaction and manifest
runs once the turns and edits are spent, in `engine` once the cycles are, in `upkeep`
when there is nothing to plan, in `survey` after its one pass, in the daemon runs when
told to. In `Reclaim` cycles recur and it is on.

### Fairness

* `Compaction`: `WF_vars(RunStep(r))`. A started run is a future its runtime keeps
  polling, and every wait in it has a limit (the HTTP client's timeout, the retry
  delay). Nothing is assumed of writers, of new runs, of crashes, or of the catalog
  answering.
* `Reclaim`: `WF_vars(Cycle(p))` for the same reason; `SF_vars(StartScan(p))`,
  because the policy plans a scan at a cadence, so not every cycle skips it;
  `SF_vars(Delete(p, f))`, because a store that accepts the deletion of an object
  does not refuse it for ever. `Locked` files are exempt.
* `Daemon`: `WF` of its own steps; `SF` of time passing; `SF` of planning and of
  finishing *while the window is open*: a cycle does not outlast the window each
  time it meets it. (Without it TLC finds a behaviour in which cycles for
  notifications bridge every window and no sweep is ever run.) Of sweeps, not all
  fail: `SF` of a plan that could read every table, and of a run that did what was
  planned, inside the window. Nothing is assumed of notifications, schedules,
  changes or senders. `Debounce` is positive in the instance: with 0 the biased
  select serves a constant stream of notifications and never reaches the timer.
* `Engine`: `WF_vars(TableStep(t))` of each table, `WF_vars(EndRun)`: the stream of
  tables is polled to its end, and each request is answered or times out. Nothing is
  assumed of time, of the answer, or of a cycle beginning.
* `Upkeep`: `WF` of `Plan` and of the end of a run, because the daemon's cycles recur;
  `WF` of `Cool`, because files grow older. Groups may fail, a bounded number of times.
* `Survey`: `WF_vars(Pass)`: listings are answered or fail.

## Proofs

Every theorem holds for all values of the constants that satisfy the named assumptions.

| module | theorems | invariant |
|---|---|---|
| `CompactionProofs` | `TypeCorrect`, `NothingInstalledTwice`, `SuccessesAreReal`, `DerivationsAlwaysAgree`, `RetirementIsSafe`, `NothingRestamped`, `LossIsCaught`, `CompactionIsInvisible`, `RunsWindDown` | `IInv`, with `VInv` for the refinement and `FInv` for `RunsWindDown` |
| `ReclaimProofs` | `TypeCorrect`, `LiveFilesAlwaysSurvive`, `StagedFilesAlwaysSurvive`, `DeletionsAlwaysAccounted` | `IInv` and its parts |
| `DaemonProofs` | `TypeCorrect`, `AcceptedNotificationsKept`, `EndsForAReason` | `IInv` |
| `EngineProofs` | `TypeCorrect`, `SharedExchange`, `TokensCoverRequests`, `ConflictsReal`, `InOrder`, `AllReported`, `RunsWindDown` | `TypeOK`, `RunOK`, and one part for each of the others |
| `ManifestsProofs` | `TypeCorrect`, `SummariesTrue`, `EntriesKept`, `PruningSurvives`, `PackingEnds` | `Inv` |
| `UpkeepProofs` | `TypeCorrect`, `PlansArePromises`, `ReadsAreCharged`, `NothingIsRedone`, `UpkeepWindsDown` | `Inv` |
| `NamingProofs` | `CollapsedTwice`, `PathInjective`, `RenderInjective`, `SpelledMatches`, `PrefixCovers` | none: about operators |
| `SurveyProofs` | `TypeCorrect`, `WalkFindsAll`, `PropertiesHeeded`, `PartitionsTold`, `LiveSpared`, `RewritesAreScans`, `LiteralsNameOne`, `DeadRulesAreDead`, `WalksWindDown` | `WalkInv`, `SeenOK` |

**Files.** `CompactionProofs` begins with what compaction believes about delete files,
for every set of files: a delete file applies to no data file exactly when its sequence
number is too low for everything it reaches (`DeadIsUnapplied`), and replacing data files
of one partition by newer files of their surviving rows, while retiring deletes that
apply to nothing else, changes nothing a reader sees (`RewriteKeepsVisible`).

**Compaction.** `NoRowTwice`, `SuccessIsReal`, `DerivationsAgree`,
`RetiredDeletesApplyNowhere`, `CarriedFilesUnchanged` and `LostRowsAreCaught` hold for every number of
replicas, rows, files, edits, attempts and re-sends, with a lossy pipeline and with spec
changes. None of these is inductive alone. The invariant `IInv` says of every view a run
holds and every request under way that it is *behind* the head of main or *agrees* with
the table there (`Current`, `RequestOK`). Heads only grow, so what is behind stays behind
and can only be rejected; what is not behind was derived from the very files the table
holds, so what it removes and adds fits (`Follows`). For `LostRowsAreCaught` a request
that follows keeps the rows that are seen where it replaces no file with deletes
(`KeepsRows`): the rows read are among those there were, as many, and so the same, and
likewise those written (`CountedRows`).

`CompactionIsInvisible` shows that `Compaction` implements `RowTable` under the mapping
from files to the rows a scan returns, provided that the default spec does not change
(`MaxEvolutions = 0`) and that no row is lost between reading and writing
(`~LossyPipeline`). The first condition is needed: see the first finding. The invariant
added to `IInv` is that every request the catalog could still install would show readers
exactly what the table shows now, and that every group lies in one partition. Each
foreground edit then maps to a step of `RowTable`, every other step to a stutter.

`RunsWindDown` is the part of `RunsEnd` that is a safety property. `ToDo` bounds the steps
a run has left: for each group to come its attempts, for each attempt its re-sends, then
the pass over dangling deletes. Every step of the run lowers it, whatever the catalog
answers, and nothing that others commit raises it: a table that moves all the time costs
a run attempts, and those are counted. The groups can be counted because what a run loaded
is finite, and so is every table a request could make (`FInv`).

**Reclaim.** `LiveFilesSurvive` and `StagedFilesSurvive` are proved under the assumption
`PromptWriters \/ OrphanMode # "delete"`: a writer that commits a file older than the
grace period can lose it, which is what the grace period means. The argument: a file that
was committed and is no longer reachable never becomes reachable again, because writers
commit only staged files and carry forward only the head's, so what a cleanup has found
unreachable stays so. A candidate of a scan was past the grace period when the scan
began; a writer in time cannot commit it after that, and a commit before is seen by the
second reachability computation. The files of a nested table are young, or its metadata
document is still ahead of the cursor and will end the scan. `DeletionsAccounted` says
of what is gone that its list was recorded before, or that the log has the error: the
list is settled in one step, announced in another and deleted from in others, with a stop
between any two. Its bound rests on a counting lemma: the elements of a finite set of numbers that have fewer than `n`
smaller ones are at most `n`.

**Daemon.** `NotificationsKept` and `StopsForAReason` hold for every policy, interval,
window and queue. The invariant adds to the types
that only a cycle in progress has a plan and that the loop waits only with cycles left.

**Engine.** For any number of tables, operations, attempts, re-sends and cycles.
`OneExchangeServesAll` becomes inductive with "who exchanges holds the write lock"
(`ExchangeOK`). `TokensOutliveRequests` needs that what the server grants leaves room for
a request (`RoomForARequest`): a request takes no longer than the margin, no lifetime is
shorter than a request, and where a lifetime is shorter than the margin, so that the code
renews halfway through, the other half is a request long. That every token lasts so much
longer than it is handed out is the invariant (`TokensOK`). For `AppliedInOrder`, each
request under way that could still be applied is later in the order of operations than
what its branch was last moved by, and nothing was asked for that is later than what the
table is doing now (`OrderOK`, `Asked`): a base can be asserted with effect once. For
`ConflictsAreReal`, by its n-th attempt a table has moved n - 1 times since it was loaded
(`ConflictsOK`). For `NothingDropped`, what was wanted is planned or deferred, and what
was planned is left to do or reported (`PlanOK`).

`RunsWindDown` bounds what each table of a run has left: its operations, the attempts of
each, the sends of an attempt, and for each send the way to a token. Each step of the
table lowers the bound, a throttled answer or a token renewed by somebody else included,
and no step of another table, another writer or a late request raises it. It needs that
the re-sends are a number (`RestCommitAssumption`), as the constant of the code is.

**Manifests.** `Inv` says that the table's manifests are sound, that each view of a
replica is behind the table or has its manifests, and that a request that could still be
applied was computed from them. Then packing exchanges entries for the same entries
(`EntriesUntouched`, the refinement of `LiveEntries`), a file rewrite those it names, and
the totals of data and of deletes it computes are those of what it leaves
(`SummaryIsTrue`). Across reloads the invariant keeps of a group only that its paths, as
far as they are live, are data files of one partition (`GroupsOK`): paths are never given
to another file, so what is left of a group lies in one partition still, whatever became
the table's spec. That is enough for the exchange, and not for the spec of its output. `PackingSettles`
is a counting argument: after a packing the undersized manifests of a spec and kind
follow each other in the order of partitions, each full but the last (`Settled`), and of
such a list packing makes no shorter one. `PruningKept` comes from the same order of the
entries.

**Upkeep.** The invariant is that files are in order of size and that a fresh plan still
targets what triggers, under the current spec, at the charge it would be given
(`PlanOK`). `PlanIsAPromise` is then about two algorithms that never meet in the code:
from few enough output files follows a group of two or more. If no group held two files,
the bound on bytes would be exceeded by two small files, which `RoomForTwo` excludes;
so where a merge is promised, the two smallest files share a group. `ReadsWithinCharge`
is that groups are disjoint and within what the planner took for eligible, and that sums
grow with their parts. The condition that a group has
room for two small files (`RoomForTwo`) is one the settings do not enforce: see the
findings. What the run reads beyond the charge is named in the property: files of
a fitting size that deletes too few to trigger on apply to.

`UpkeepWindsDown` is the part of `Settles` that is a safety property, and the property
`RunsEase` of the run; `NothingIsRedone` is the half of it that needs no room for two
files: no run makes work for the next. The `Burden` of a
partition counts marks: two for a file that deletes apply to, one for a file of an
unfitting size, another where it is too large. A chunk worth rewriting has two marks at
the least (`ChunkMarked`), and what is written for it has one at the most, because only
the last file of a rolling writer can be small (`RolledMarks`); the marks left map one to
one into those there were, and a second mark of each chunk is the image of none
(`RewriteEases`). So between writers' changes no burden grows, files change only where it
shrinks, and by `PlanIsAPromise` a run of a fresh plan in which nothing fails shrinks one
in every partition of its plan or retires the delete file, but for deletes that linger.

**Naming.** The texts are of any length and the names hold anything: separators, escapes,
dots, text that looks like a null. Texts are written by a fold over their tokens and
matched by a recursive function over patterns; both are reached by induction over sets:
a set of texts that holds the empty one, and a text with its tail, holds all
(`TailInduction`), because a set of numbers that is not empty has a least
(`MinIsLeast`). Where an escape writes several tokens, the first tells which token it
stands for, so that of two texts written alike the first tokens agree and then the tails.

**Survey.** `WalkOK` relates what was listed, queued, started and found to what stayed in
place since the walk began: what is below a namespace that is done with is listed or
queued. When nothing is queued, what is listed is closed and so holds everything reached.
The properties about settings, partitions, paths and literal patterns rest on the types,
on `SeenOK` (what was seen was computed by the operators) and on the theorems of
`NamingProofs`. `RejectedRulesAreDead` assumes that no rule is a bare `.**`
(`NoBareSuffix`), for which it is false: the code takes such a rule for one that matches
everything, and refuses those after it, although `policy/mod.rs:288` calls the check
sound.

`RewriteIsTheScan` holds for groups of any number of files and deletes. That a row occurs
as often as it did is said by places: a place is written exactly if a scan sees it, and
at one position only. The buckets part the files (`BucketsPart`), the anti-joins of one
bucket leave what a scan of its files sees (`BucketIsTheScan`, by induction over the
deletes, because an anti-join removes what one delete names), and their union what a scan
of the group sees (`UnionIsTheScan`). The sort puts each place where its rank says, the
number of places before it; rank is one to one and onto because the order is total, ties
being decided by which was read first (`SortedIs`). Cutting a sequence into files leaves
its elements and their order (`RolledOut`).

`WalksWindDown` is the part of `WalkEnds` that is a safety property: `LeftToList` counts
what is left of a walk, three steps for a namespace not yet listed; every step of the
walk lowers it, and no change of the catalog raises it. It assumes that there are finitely
many namespaces.

The proofs assume what the named `ASSUME`s say of the constants, which TLC evaluates in
every run, and where a theorem says so one of the conditions above: prompt writers or no
deleting scan, no spec change and no lossy pipeline, `RoomForARequest`,
`RoomForTwo`, `NoBareSuffix`, finitely many `Namespaces`. The instances of the passing
runs satisfy them where the same property is checked. The type invariants and `StopsForAReason` are proved and not also
run.

Model-checked only:

* all liveness, which is beyond the proof system: `RunsEnd` (of compaction and of the
  engine), `WithheldIsReclaimed`, `NotificationsActedOn`, `SweepsRecur`,
  `ChangesAreMaintained`, `ShutdownIsAnswered`, `Settles`, `WalkEnds`. Of `WalkEnds`
  and of both `RunsEnd` only the last step is left to TLC: that a step can be taken while
  the walk or the run goes on (`ENABLED`), and therefore is, until the measure of
  `WalksWindDown` or `RunsWindDown` is used up. Of `Settles`, TLC alone shows that plans
  are made and runs end until no partition is targeted but for deletes that linger, which
  `UpkeepWindsDown` allows only so often.

The refinement of `RowTable` with spec changes does not hold and is neither proved nor
checked.

## Findings

Three statements of the documentation or of comments are not what the code does.
Each has a run whose counterexample TLC produces.

| run | the text | what happens |
|---|---|---|
| `rewrite_crosses_specs` | `ops/compact/mod.rs:34-37`: files of another spec are never rewritten | a spec change between planning and a retry lets the outputs be filed under the new spec with a tuple of the old |
| `schedules_coincide` | `sched/trigger.rs:4-9`: waking for the earliest loses no other rule's cadence | of two rules due at the same time, the second is not evaluated at all |
| `retention_lost` | `commit/snapshot.rs:20`: a branch's retention survives a commit that moves it | a retention altered between a rewrite's load and its commit is set back by the commit, whose assertion does not cover it |

Further divergences met while modelling, which no run shows:

* `obs/audit.rs:184-186` logs an audit record that cannot be written, and
  `ops/delete.rs:102-104` deletes all the same, where `obs/audit.rs:62-64` says that the
  caller takes a successful write as permission and `ops/delete.rs:13` that a record is
  left of what was about to go. `Announce` has the step; what holds is that the list is
  recorded or the error logged (`DeletionsAccounted`).
* `commit/snapshot.rs:84-97`: where the metadata file cannot be read or parsed, a commit
  names the default retention and so erases what the owner configured, against invariant
  4 at the head of that file (`:20-24`); the comment at `:79-83` prefers that to failing
  the commit. With `ReadableMetadata = FALSE`, `OnlyTheOwnerAltersRetention` fails at the
  first such commit.
* `plan/planner.rs:576` says that the byte budget is charged what a rewrite reads. A
  partition triggered by sizes is charged for files of an unfitting size only, and read
  also where too few deletes to trigger on apply (`ops/compact/mod.rs:195-199`); the
  second term of `ReadsWithinCharge` is what that adds.
* `policy/settings.rs:132-142` accepts a `max_group_bytes` below two small files, with
  which every cycle plans a merge that no group can hold; `ops/compact/mod.rs:575-578`
  wants `bergman run` to keep what `bergman plan` promises. The theorems on plans ask for
  `RoomForTwo`.
* `README.md:320` says a compaction reports `conflicted` after three attempts; it
  reports a no-op if no group succeeded.
* `ops/expire.rs:65`, "nothing was expirable": the count is taken against the first
  load, so a commit that meanwhile added as many snapshots as were expired hides them,
  and their files are not cleaned up.
* `ops/delete.rs:11`, what the ceiling withholds is reclaimed by the next scan: files
  that cannot be deleted fill the front of the sorted list in every scan. `Locked` is
  empty in `reclaim_live` for this reason.
* `ops/compact/mod.rs:577-583`: a global equality delete that only files of superseded
  specs need is counted, and planned for, in every cycle, and never goes (`Lingers`).
* The planner asks of a partition as a whole whether a merge leaves fewer files, while
  the run merges group by group; `min_count_to_merge` (`plan/planner.rs:311`) counts
  undersized manifests across specs and kinds, which are packed separately.
* A pattern `.**` is taken to cover every rule after it and matches no table
  (`policy/mod.rs`).
* The file index is keyed by the path with doubled slashes merged
  (`health/analyze.rs`), as reachability is; two objects that differ in nothing else
  share an entry. `CleanupSparesLive` holds all the same, since what is merged is
  spared.
* An equality delete on a nested field is joined on the top-level column of the same
  name (`ops/compact/rewrite.rs:457`), where a comment promises a refusal.
* Buckets are sorted by the first path of their deletes only; those that share it come
  in the order of a hash map, although the comment (`ops/compact/rewrite.rs:165`)
  promises a layout that does not depend on it.
* `policy/window.rs`: when a clock change skips the window's opening time, that day's
  opening does not exist and the daemon sleeps to the next one, although a comment
  says a change costs at most an hour.

## Plan

Done, most important first: compaction with the snapshot producer and the committer's
re-sends; reclamation, because it cannot be undone; the daemon; the manifests with
their abstract specification; token, commit and engine; planner against executor;
naming, policy, discovery and the rewrite of a group. Proved, in the order of how much
rests on it: compaction and its refinement, reclamation, the daemon, then engine,
manifests, naming with the survey, and upkeep. What is left:

1. Nested columns in `GroupRewrite`, for the hazard no property covers yet
   (`ops/compact/rewrite.rs:457`).

No module declares a `RECURSIVE` operator, so all of them can be proved about.

## Not modelled, and why

* Reading and writing Parquet, the planning of a scan: the Iceberg library's and
  DataFusion's. Their effect on rows is in `Compaction` and `GroupRewrite`. Nested
  columns, the memory budget and writer properties are not in either.
* The text of manifests, statistics files, the metadata log: reachability
  joins them all; snapshots with several branches and tags are one branch here. Of a
  snapshot's summary the totals are in `Manifests`, the rest is text.
* The conditions on which the planner expires snapshots and rewrites manifests: each is
  one comparison of a count or an age; `Engine` takes any of them as found.
* Jittered delays between commit attempts: they are time, and the models let
  anything happen meanwhile.
* Time zones and clock changes in schedules and windows: they belong to the
  libraries that compute them; a day here has a fixed number of ticks. Parsing of
  policies, windows, schedules and properties beyond what decides between layers.
* Clients, storage credentials and their configuration, observability, the command
  line, errors and formatting: I/O and text without state that outlives a call.
