------------------------------- MODULE Upkeep -------------------------------
(***************************************************************************)
(* The decision to compact: what the planner triggers on, from the sizes,  *)
(* ages and deletes the manifests show, and what the executor then finds   *)
(* worth reading.  The two look at different evidence at different times,  *)
(* with writers between them, and must agree.                              *)
(*                                                                         *)
(* A run's commits are one step here: module Compaction has their races.   *)
(* A file holds one row per unit of size, and a rewrite keeps the size of  *)
(* the rows it keeps.  At most one delete file is live at a time.          *)
(***************************************************************************)
EXTENDS Integers, Sequences, FiniteSets, SequencesExt

CONSTANTS
    Partitions,        \* partition keys: records of a spec and a value
    UnpartitionedSpec, \* the spec whose deletes can apply to every partition
    FirstSpec,         \* the default spec at first
    SeedFiles,         \* per partition, the sizes of its files at first
    AppendSizes,       \* sizes writers append
    Target, SmallBelow, LargeAbove,   \* the target file size and its thresholds
    SmallRatio, DeleteRatio,          \* records [num, den]
    MinInputFiles, MaxInputFiles, MaxGroupBytes,
    NoDelete, NoPlan,
    MaxWrites,         \* bound: changes made by writers and the owner
    MaxFailures        \* bound: groups that fail

VARIABLES
    table,    \* default spec, write format, files per partition, delete file
    hot,      \* partitions whose newest file is younger than min_file_age
    plan,     \* the partitions a plan targets, what it charges for each, and
              \* whether the table is still the one it was made from
    counts

vars == <<table, hot, plan, counts>>

Specs == {p.spec : p \in Partitions}
Sizes == Nat \ {0}
Ratio == [num : Nat, den : Sizes]

(* No file is empty.                                                        *)
ASSUME UpkeepAssumption ==
    /\ IsFiniteSet(Partitions) /\ {UnpartitionedSpec, FirstSpec} \subseteq Specs
    /\ SeedFiles \in [Partitions -> Seq(Sizes)] /\ AppendSizes \subseteq Sizes
    /\ {SmallBelow, Target, LargeAbove} \subseteq Sizes /\ SmallBelow <= Target /\ Target < LargeAbove
    /\ {SmallRatio, DeleteRatio} \subseteq Ratio /\ {MinInputFiles, MaxInputFiles, MaxGroupBytes} \subseteq Nat

(* A group has room for two files below the threshold.  The settings need   *)
(* not leave it that room.                                                  *)
RoomForTwo == MaxInputFiles >= 2 /\ MaxGroupBytes >= 2 * (SmallBelow - 1)

-----------------------------------------------------------------------------
(* Health: what the manifests say of one partition *)

File == [size : Sizes, hit : BOOLEAN]

Total(numbers) ==
    LET sum[i \in 0 .. Len(numbers)] == IF i = 0 THEN 0 ELSE sum[i - 1] + numbers[i]
    IN  sum[Len(numbers)]

(* The places of a partition's files; some files are named by theirs. *)
Places(p) == DOMAIN table.files[p]

BytesOf(p, places) == Total([i \in Places(p) |-> IF i \in places THEN table.files[p][i].size ELSE 0])
Records(p) == BytesOf(p, Places(p))
Named(p) == IF table.delete # NoDelete /\ table.delete.key = p THEN table.delete.named ELSE 0

Reaches(ratio, part, whole) ==
    IF whole = 0 THEN ratio.num = 0 ELSE part * ratio.den >= ratio.num * whole

IsSmall(f) == f.size < SmallBelow
IsLarge(f) == f.size > LargeAbove
Misfit(f) == IsSmall(f) \/ IsLarge(f)
SmallFiles(p) == {i \in Places(p) : IsSmall(table.files[p][i])}
SizeEligible(p) == {i \in Places(p) : Misfit(table.files[p][i])}

(* How many files rewriting these would leave, one at the least. *)
OutputFileEstimate(p, eligible) ==
    LET bytes == BytesOf(p, eligible)
        named == IF Named(p) > Records(p) THEN Records(p) ELSE Named(p)
        live == (bytes * (Records(p) - named)) \div Records(p)
    IN  IF bytes = 0 THEN 0
        ELSE IF live = 0 THEN 1 ELSE (live + Target - 1) \div Target

-----------------------------------------------------------------------------
(* The planner *)

BySmallFiles(p) ==
    /\ Reaches(SmallRatio, Cardinality(SmallFiles(p)), Len(table.files[p]))
    /\ Cardinality(SizeEligible(p)) >= MinInputFiles

ByOversized(p) == \E i \in Places(p) : IsLarge(table.files[p][i])

ByDeletes(p) ==
    /\ table.delete # NoDelete /\ table.delete.key = p
    /\ Reaches(DeleteRatio, Named(p), Records(p))

(* Mutant: N files may be rewritten into N. *)
AnyCount(p) == TRUE

(* Merging must leave fewer files; splitting and retiring deletes need not. *)
LeavesFewer(p) ==
    OutputFileEstimate(p, SizeEligible(p)) < Cardinality(SizeEligible(p))

Triggered(p) ==
    \/ ByDeletes(p)
    \/ ByOversized(p)
    \/ (BySmallFiles(p) /\ LeavesFewer(p))

Eligible(p) == IF ByDeletes(p) THEN Places(p) ELSE SizeEligible(p)

Targets ==
    IF table.format # "parquet" THEN {}
    ELSE {p \in Partitions : p \notin hot /\ p.spec = table.spec /\ Triggered(p)}

(* Mutant: a partition is charged for the files of an unfitting size only. *)
SizeCharged(p) == BytesOf(p, SizeEligible(p))

(* What the cycle's byte budget is charged for one partition. *)
Charge(p) == BytesOf(p, Eligible(p))

-----------------------------------------------------------------------------
(* The executor *)

Rewritable(f) == f.hit \/ Misfit(f)

(* What a run may read of a partition, smallest first. *)
Input(p) == {i \in Places(p) : Rewritable(table.files[p][i])}

Fits(p, first, last) ==
    LET chunk == Input(p) \cap (first .. last)
    IN  Cardinality(chunk) <= MaxInputFiles /\ BytesOf(p, chunk) <= MaxGroupBytes

(* A chunk takes the next file while it has room for it in files and bytes: *)
(* for each place, where the chunk starts that is open after it.            *)
Pack(p) ==
    LET first[i \in 0 .. Len(table.files[p])] ==
            IF i = 0 THEN 0
            ELSE LET open == first[i - 1]
                 IN  IF i \in Input(p) /\ (open = 0 \/ ~ Fits(p, open, i)) THEN i ELSE open
    IN  first

WorthRewriting(p, chunk) ==
    \/ Cardinality(chunk) > 1
    \/ \E i \in chunk : table.files[p][i].hit \/ IsLarge(table.files[p][i])

Chunks(p) ==
    LET pack == Pack(p)
        chunk(i) == {j \in Input(p) : pack[j] = pack[i]}
    IN  {c \in {chunk(i) : i \in Input(p)} : WorthRewriting(p, c)}

(* The groups of the targeted partitions that are under the current spec. *)
Groups(keys) == UNION {{p} \X Chunks(p) : p \in {q \in keys : q.spec = table.spec}}

(* Mutant: files are closed at half the target. *)
RolledAtHalf(size) ==
    [i \in 1 .. (2 * size + Target - 1) \div Target |->
        [size |-> IF i * Target <= 2 * size THEN Target \div 2 ELSE size % (Target \div 2), hit |-> FALSE]]

(* The rolling writer closes a file at the target and opens the next. *)
Rolled(size) ==
    [i \in 1 .. (size + Target - 1) \div Target |->
        [size |-> IF i * Target <= size THEN Target ELSE size % Target, hit |-> FALSE]]

HitBytes(p, places) == BytesOf(p, {i \in places : table.files[p][i].hit})

(* Rows its deletes take from a chunk: none, as many as they name, or, an   *)
(* equality delete matching many rows, all.                                 *)
Tolls == {"none", "named", "all"}
Taken(p, chunk, toll) ==
    CASE toll = "none" -> 0
      [] toll = "all" -> HitBytes(p, chunk)
      [] toll = "named" -> Min({HitBytes(p, chunk), IF table.delete = NoDelete THEN 0 ELSE table.delete.named})

Rewritten(p, chunk, toll) == Rolled(BytesOf(p, chunk) - Taken(p, chunk, toll))

(* Filed is a set of pairs, of a file and what tells it from its likes.     *)
(* They are put in order, smallest first: before a file come those that     *)
(* precede it and, at the most, those it does not precede.                  *)
Precedes(f, g) == f.size < g.size \/ (f.size = g.size /\ f.hit /\ ~ g.hit)
BySize(filed) ==
    LET before(f) == {x \in filed : Precedes(x[2], f)}
        upTo(f) == {x \in filed : ~ Precedes(f, x[2])}
    IN  [k \in 1 .. Cardinality(filed) |->
            CHOOSE f \in {x[2] : x \in filed} : Cardinality(before(f)) < k /\ k <= Cardinality(upTo(f))]

Filed(files) == {<<i, files[i]>> : i \in DOMAIN files}

(* Chunks of a partition that were rewritten. *)
Done(p, done) == {g[2] : g \in {d \in done : d[1] = p}}

(* Its files after that: those that were not read, and what was written for *)
(* each chunk.                                                              *)
FilesAfter(p, done, toll) ==
    LET left == {<<<<{i}, 0>>, table.files[p][i]>> : i \in Places(p) \ UNION Done(p, done)}
        out == UNION {{<<<<c, n>>, Rewritten(p, c, toll)[n]>> : n \in DOMAIN Rewritten(p, c, toll)} : c \in Done(p, done)}
    IN  BySize(left \cup out)

(* Whether the delete file applies to anything but what was rewritten. *)
StillHits(done) ==
    \E p \in Partitions : \E i \in Places(p) \ UNION Done(p, done) : table.files[p][i].hit

-----------------------------------------------------------------------------
(* Cycles of maintenance *)

Plan ==
    /\ plan = NoPlan
    /\ Targets # {}
    /\ plan' = [targets |-> Targets, charged |-> [p \in Targets |-> Charge(p)], fresh |-> TRUE]
    /\ UNCHANGED <<table, hot, counts>>

(* The table declares a format bergman does not write: refused before it is *)
(* scanned.                                                                 *)
Refuse ==
    /\ plan # NoPlan /\ table.format # "parquet"
    /\ plan' = NoPlan
    /\ UNCHANGED <<table, hot, counts>>

(* Mutant: a delete file stays once nothing needs it. *)
DeleteKept(done, swept) == table.delete

(* A commit retires the delete file whose last data files it rewrites; one *)
(* that applied to nothing before is dropped at the end of the run.         *)
DeleteAfter(done, swept) ==
    LET exclusive == \E g \in done : HitBytes(g[1], g[2]) > 0
    IN  IF ~ StillHits(done) /\ (exclusive \/ swept) THEN NoDelete ELSE table.delete

(* Rewrites the groups of the plan but those that fail, and sweeps up, but  *)
(* if that fails, the delete file that applies to nothing.  The files       *)
(* written are the partition's newest.                                      *)
Run ==
    /\ plan # NoPlan /\ table.format = "parquet"
    /\ \E failed \in SUBSET Groups(plan.targets), toll \in Tolls, swept \in BOOLEAN :
        LET done == Groups(plan.targets) \ failed
            failures == counts.failures + Cardinality(failed) + (IF swept THEN 0 ELSE 1)
        IN  /\ failures <= MaxFailures
            /\ table' = [table EXCEPT
                    !.files = [p \in Partitions |-> FilesAfter(p, done, toll)],
                    !.delete = DeleteAfter(done, swept)]
            /\ hot' = hot \cup {g[1] : g \in {d \in done : Rewritten(d[1], d[2], toll) # <<>>}}
            /\ counts' = [counts EXCEPT !.failures = failures]
    /\ plan' = NoPlan

(* min_file_age passes, or the snapshot that dates the newest file expires. *)
Cool(p) ==
    /\ p \in hot
    /\ hot' = hot \ {p}
    /\ UNCHANGED <<table, plan, counts>>

-----------------------------------------------------------------------------
(* Writers and the owner *)

Changes ==
    /\ counts.writes < MaxWrites
    /\ counts' = [counts EXCEPT !.writes = @ + 1]
    /\ plan' = IF plan = NoPlan THEN NoPlan ELSE [plan EXCEPT !.fresh = FALSE]

Appends(p, size) ==
    /\ Changes /\ p.spec = table.spec
    /\ table' = [table EXCEPT !.files[p] = BySize(Filed(Append(@, [size |-> size, hit |-> FALSE])))]
    /\ hot' = hot \cup {p}

(* A delete file of one row or of many that applies to every older file of  *)
(* its partition, or, filed under an unpartitioned spec, of the table.      *)
Deletes(p) ==
    /\ Changes /\ p.spec = table.spec /\ table.delete = NoDelete
    /\ \E named \in {1, Target}, reach \in {{p}, IF p.spec = UnpartitionedSpec THEN Partitions ELSE {p}} :
        table' = [table EXCEPT
            !.delete = [key |-> p, named |-> named],
            !.files = [q \in Partitions |->
                IF q \in reach THEN [i \in DOMAIN @[q] |-> [@[q][i] EXCEPT !.hit = TRUE]] ELSE @[q]]]
    /\ UNCHANGED hot

Drops(p, i) ==
    /\ Changes
    /\ table' = [table EXCEPT !.files[p] = RemoveAt(@, i)]
    /\ UNCHANGED hot

EvolvesSpec ==
    /\ Changes
    /\ \E s \in Specs \ {table.spec} : table' = [table EXCEPT !.spec = s]
    /\ UNCHANGED hot

SetsFormat ==
    /\ Changes /\ table.format = "parquet"
    /\ table' = [table EXCEPT !.format = "orc"]
    /\ UNCHANGED hot

-----------------------------------------------------------------------------
Init ==
    /\ table = [spec |-> FirstSpec, format |-> "parquet", delete |-> NoDelete,
                files |-> [p \in Partitions |->
                    BySize({<<i, [size |-> SeedFiles[p][i], hit |-> FALSE]>> : i \in DOMAIN SeedFiles[p]})]]
    /\ hot = {}
    /\ plan = NoPlan
    /\ counts = [writes |-> 0, failures |-> 0]

Write ==
    \/ \E p \in Partitions :
        \/ \E size \in AppendSizes : Appends(p, size)
        \/ Deletes(p)
        \/ \E i \in Places(p) : Drops(p, i)
    \/ EvolvesSpec \/ SetsFormat

Next == Plan \/ Run \/ Refuse \/ (\E p \in Partitions : Cool(p)) \/ Write

(* A cycle that planned comes to its end. *)
RunEnds == plan # NoPlan /\ plan' = NoPlan

(* Cycles recur, runs end and time passes; writers owe nothing. *)
Fairness == WF_vars(Plan) /\ WF_plan(RunEnds) /\ \A p \in Partitions : WF_vars(Cool(p))

Spec == Init /\ [][Next]_vars /\ Fairness

-----------------------------------------------------------------------------
(* Properties *)

(* A delete file counted in one partition that only files of other          *)
(* partitions, under superseded specs and never rewritten, still need.      *)
Lingers(p) ==
    /\ ByDeletes(p)
    /\ ~ \E i \in Places(p) : table.files[p][i].hit
    /\ StillHits({})

(* What plan shows, run does: while the table is as it was planned, every   *)
(* partition of the plan has a group to rewrite, or the deletes it was      *)
(* planned for apply to nothing and go; but for deletes that linger.        *)
PlanIsAPromise ==
    plan # NoPlan /\ plan.fresh =>
        \A p \in plan.targets :
            \/ p \in {g[1] : g \in Groups(plan.targets)}
            \/ (ByDeletes(p) /\ ~ StillHits({}))
            \/ Lingers(p)

(* What there is to be done about a file: two marks where deletes apply,    *)
(* one where its size is unfitting, another where it is oversized.  What is *)
(* worth rewriting has two marks or more, what it leaves has one at most:   *)
(* the last file written may be small.                                      *)
MarkNames == {"hit", "rows", "misfit", "large"}
Marks(f) ==
    {m \in MarkNames : (m \in {"hit", "rows"} /\ f.hit) \/ (m = "misfit" /\ Misfit(f)) \/ (m = "large" /\ IsLarge(f))}
Marked(files) == {y \in (DOMAIN files) \X MarkNames : y[2] \in Marks(files[y[1]])}
Burden(files) == Cardinality(Marked(files))

(* Between two changes of the writers no delete file appears, and a         *)
(* partition whose files change has less left to be done.                   *)
Easing ==
    /\ table.delete = NoDelete => table'.delete = NoDelete
    /\ \A p \in Partitions :
        table'.files[p] # table.files[p] => Burden(table'.files[p]) < Burden(table.files[p])

(* What a run that fails nowhere achieves in a partition of its plan.       *)
Progress(p) ==
    \/ Burden(table'.files[p]) < Burden(table.files[p])
    \/ table.delete # NoDelete /\ table'.delete = NoDelete
    \/ Lingers(p)

(* No run is for nothing, and none makes work for the next: a run only ever *)
(* takes from what there is to be done, and one that fails nowhere, on the  *)
(* table its plan was made from, takes something in each partition of its   *)
(* plan (planner.rs:180-191, compact/mod.rs:574-592, writer.rs:25-63).      *)
RunsEase ==
    [][counts'.writes = counts.writes =>
        /\ Easing
        /\ RunEnds /\ plan.fresh /\ counts' = counts => \A p \in plan.targets : Progress(p)]_vars

(* Once writers stop, maintenance does: nothing is planned any more but for *)
(* deletes that linger.                                                     *)
Settles == <>[](\A p \in Targets : Lingers(p))

(* Every file as often as there are groups that read it. *)
BytesRead(p, groups) ==
    Total([i \in Places(p) |-> table.files[p][i].size * Cardinality({g \in groups : g[1] = p /\ i \in g[2]})])

(* Files of a fitting size that deletes too few to trigger on apply to: the *)
(* planner does not count on them, the run reads them.                      *)
Uncounted(p) == HitBytes(p, Places(p) \ Eligible(p))

(* The byte budget pays for what is read, once: on the table it was planned *)
(* from, a run reads no more of a partition than it was charged for, and    *)
(* what the planner cannot count on.                                        *)
ReadsWithinCharge ==
    plan # NoPlan /\ plan.fresh =>
        \A p \in plan.targets : BytesRead(p, Groups(plan.targets)) <= plan.charged[p] + Uncounted(p)
=============================================================================
