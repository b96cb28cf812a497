------------------------------ MODULE Manifests ------------------------------
(***************************************************************************)
(* The snapshot producer at the granularity of manifests: what a manifest  *)
(* rewrite (ops/manifests.rs), a file rewrite and the pass that drops      *)
(* dangling deletes (SnapshotProducer, ops/compact/mod.rs) do to the       *)
(* manifest set, the branch's retention and the snapshot summary, with     *)
(* replicas, foreground writers, lost answers and dropped operations.      *)
(* An entry's partition tuple means nothing without the partition spec of  *)
(* the manifest that holds it, so an entry's partition is the pair.        *)
(***************************************************************************)
EXTENDS Naturals, FiniteSets, FiniteSetsExt

CONSTANTS
    Replicas,            \* processes that maintain the table
    Specs, FirstSpec,    \* partition specs; the one the table starts with
    Tuples, Rank(_),     \* partition tuples, and the order of their rendered paths
    Formats,             \* format versions a table may have
    PerManifest,         \* entries the target size is estimated to hold
    Sizes(_),            \* whether a manifest of so many entries may be undersized
    MinToMerge,          \* undersized manifests below which nothing is merged
    MaxCommitAttempts,   \* commits one run may lose
    ReadableMetadata,    \* the metadata file is always read back for the retention
    MaxEdits,            \* bound: foreground commits and changes of metadata
    MaxRuns,             \* bound: operations begun
    SeedManifests, SeedSeq   \* what the table holds at first

ASSUME ManifestsAssumption ==
    /\ FirstSpec \in Specs
    /\ PerManifest \in Nat \ {0}
    /\ MinToMerge \in Nat \ {0}
    /\ MaxCommitAttempts \in Nat \ {0}
    /\ \A t \in Tuples : Rank(t) \in Nat
    /\ \A t, u \in Tuples : Rank(t) = Rank(u) => t = u

VARIABLES
    table,     \* the table's metadata at the catalog
    run,       \* each replica's current operation
    inflight,  \* commit requests the catalog has yet to answer
    counts     \* bounds, and the foreground commits so far

vars == <<table, run, inflight, counts>>

-----------------------------------------------------------------------------
(* Manifests and their entries *)

(* Positional and equality deletes share delete manifests. *)
Contents == {"data", "deletes"}

(* Loading a manifest drops the entries a previous snapshot marked deleted:  *)
(* they are history, not content.                                            *)
LiveIn(manifest) == {e \in manifest.entries : e.status # "deleted"}

LiveEntriesOf(manifests) ==
    UNION {{[file |-> e.file, content |-> e.content, spec |-> m.spec, tuple |-> e.tuple, seq |-> e.seq]
              : e \in LiveIn(m)} : m \in manifests}

(* Mutant: the carried entry takes the new snapshot's sequence number. *)
Restamped(e) == [e EXCEPT !.status = "existing", !.seq = table.seq + 1]
(* The file's own number is kept: an entry that is carried is never restamped. *)
Existing(e) == [e EXCEPT !.status = "existing"]

(* What a writer is given, and the manifests it may leave: the estimate of    *)
(* what fits a manifest says nothing certain about the size of what is       *)
(* written.                                                                  *)
Draft(spec, kind, entries) == [spec |-> spec, kind |-> kind, entries |-> entries]

Written(drafts) ==
    {{[spec |-> d.spec, kind |-> d.kind, small |-> small[d], entries |-> d.entries] : d \in drafts}
        : small \in {f \in [drafts -> BOOLEAN] : \A d \in drafts : f[d] \in Sizes(Cardinality(d.entries))}}

-----------------------------------------------------------------------------
(* Rewriting manifests: cluster by partition, then pack *)

Undersized(manifests) == {m \in manifests : m.small}

(* Entries may share a manifest only if they share a spec and a content kind. *)
Buckets(manifests) == {<<m.spec, m.kind>> : m \in Undersized(manifests)}
Bucket(manifests, b) ==
    UNION {LiveIn(m) : m \in {n \in Undersized(manifests) : <<n.spec, n.kind>> = b}}

(* Mutant: entries are packed in the order they arrived. *)
ArrivalOrder(d, e) == d.file < e.file
(* The stable sort by rendered partition; entries arrive in commit order. *)
Before(d, e) == Rank(d.tuple) < Rank(e.tuple) \/ (d.tuple = e.tuple /\ d.file < e.file)
Position(e, entries) == Cardinality({d \in entries : Before(d, e)})

Chunks(entries) == {{e \in entries : Position(e, entries) \div PerManifest = Position(d, entries) \div PerManifest} : d \in entries}

Packed(manifests) ==
    UNION {{Draft(b[1], b[2], {Existing(e) : e \in c}) : c \in Chunks(Bucket(manifests, b))} : b \in Buckets(manifests)}

(* Every manifest set a rewrite of these manifests may leave. *)
Repacked(manifests) == {(manifests \ Undersized(manifests)) \cup w : w \in Written(Packed(manifests))}

-----------------------------------------------------------------------------
(* Rewriting files: rebuild the manifests that lost one, carry the others *)

Files(manifest) == {e.file : e \in LiveIn(manifest)}

Touched(manifests, removed) == {m \in manifests : Files(m) \cap removed # {}}

(* A manifest is rebuilt under the spec it was written under; one that lost  *)
(* every file simply disappears.                                             *)
Rebuilt(manifest, removed) ==
    LET survivors == {Existing(e) : e \in {x \in LiveIn(manifest) : x.file \notin removed}}
    IN  IF survivors = {} THEN {} ELSE {Draft(manifest.spec, manifest.kind, survivors)}

(* Added files go under the table's current spec; where none is added, no    *)
(* manifest is written for them.                                             *)
ForAdded(view, added) == IF added = {} THEN {} ELSE {Draft(view.spec, "data", added)}

WriteManifests(view, removed, added) ==
    LET touched == Touched(view.manifests, removed)
    IN  {(view.manifests \ touched) \cup w
            : w \in Written((UNION {Rebuilt(m, removed) : m \in touched}) \cup ForAdded(view, added))}

(* Mutant: the totals are those before the rewrite. *)
CountedBefore(manifests, removed, kind) ==
    Cardinality({e \in LiveEntriesOf(manifests) : e.content = kind})
(* What survives a rewrite, counted over the entries that were loaded. *)
Surviving(manifests, removed, kind) ==
    Cardinality({e \in LiveEntriesOf(manifests) : e.file \notin removed /\ e.content = kind})

Summary(view, removed, added) ==
    [dataFiles |-> Surviving(view.manifests, removed, "data") + Cardinality(added),
     deleteFiles |-> Surviving(view.manifests, removed, "deletes")]

NoTotals == [dataFiles |-> 0, deleteFiles |-> 0, absent |-> TRUE]

-----------------------------------------------------------------------------
(* Which files: the group of a plan, and the deletes nothing needs *)

Data(view) == {e \in LiveEntriesOf(view.manifests) : e.content = "data"}
Deletes(view) == {e \in LiveEntriesOf(view.manifests) : e.content = "deletes"}

(* A delete file applies to the data files of its partition that are not     *)
(* newer.  Kinds of deletes differ where the numbers are equal, which those  *)
(* of one commit only are; module IcebergFiles tells them apart.             *)
Hides(d, e) == d.spec = e.spec /\ d.tuple = e.tuple /\ d.seq >= e.seq

(* The groups a plan may hold: data files of one partition under the spec    *)
(* that is the table's as it is planned.                                     *)
Groups(view) ==
    {{e.file : e \in g} : g \in
        {s \in SUBSET {e \in Data(view) : e.spec = view.spec} : s # {} /\ \A d, e \in s : d.tuple = e.tuple}}

(* What a view has left of a group, which is named by its files.             *)
Selected(view, wanted) == {e \in Data(view) : e.file \in wanted}

(* Mutant: a delete file is retired with any data file it applies to. *)
RetiredIfApplied(view, group) == {d \in Deletes(view) : \E e \in group : Hides(d, e)}
(* The delete files that apply to files of a group and to no other.          *)
Retired(view, group) ==
    {d \in Deletes(view) : (\E e \in group : Hides(d, e)) /\ \A e \in Data(view) \ group : ~ Hides(d, e)}

Dangling(view) == {d \in Deletes(view) : \A e \in Data(view) : ~ Hides(d, e)}

(* A file that takes the new snapshot's number, or, where deletes apply to   *)
(* every file of the group and to every row, none.                           *)
Outputs(view, group) ==
    LET new == [file |-> view.seq + 1, content |-> "data", tuple |-> (CHOOSE e \in group : TRUE).tuple,
                seq |-> view.seq + 1, status |-> "added"]
        hidden == \A e \in group : \E d \in Deletes(view) : Hides(d, e)
    IN  {added \in {{}, {new}} : added = {} => hidden}

-----------------------------------------------------------------------------
(* The commit a producer asks for *)

DefaultRetention == "none configured"

(* Read back from the metadata file the view was loaded from; where that     *)
(* may fail, a file that cannot be read or parsed gives no retention.        *)
Retentions(view) == IF ReadableMetadata THEN {view.retention} ELSE {view.retention, DefaultRetention}

Install(view, manifests, retention, totals, by) ==
    [base |-> view.version, manifests |-> manifests, retention |-> retention, totals |-> totals,
     by |-> by, seq |-> view.seq + 1]

NoView == [version |-> 0]

Idle == [pc |-> "idle", op |-> "none", id |-> 0, view |-> NoView, wanted |-> {}, attempt |-> 0]

AuthoringRefusal(format) == format = 3

(* The run is over; its result goes into the report. *)
Done(p) == run' = [run EXCEPT ![p] = Idle]

Send(p, request) ==
    /\ inflight' = inflight \cup {[from |-> p, id |-> run[p].id, request |-> request]}
    /\ run' = [run EXCEPT ![p].pc = "sent", ![p].view = NoView]
    /\ UNCHANGED <<table, counts>>

-----------------------------------------------------------------------------
(* The operations *)

(* A compaction plans its groups, unless it is about to be refused.  A run   *)
(* of files here is one group of a plan.                                     *)
Begin(p) ==
    /\ run[p].pc = "idle"
    /\ counts.runs < MaxRuns
    /\ \E op \in {"manifests", "files", "dangling"}, wanted \in {{}} \cup Groups(table) :
        /\ IF op = "files" /\ ~AuthoringRefusal(table.format) THEN wanted # {} ELSE wanted = {}
        /\ run' = [run EXCEPT ![p] = [pc |-> "loaded", op |-> op, id |-> counts.runs + 1, view |-> table,
                                     wanted |-> wanted, attempt |-> 0]]
    /\ counts' = [counts EXCEPT !.runs = @ + 1]
    /\ UNCHANGED <<table, inflight>>

(* A table whose snapshots cannot be authored is refused before anything is read. *)
Refuse(p) ==
    /\ run[p].pc = "loaded"
    /\ AuthoringRefusal(run[p].view.format)
    /\ Done(p)
    /\ UNCHANGED <<table, inflight, counts>>

(* Mutant: whatever was packed is committed. *)
AlwaysWorth(before, after) == Cardinality(before) >= 0
WorthPacking(before, after) == Cardinality(after) < Cardinality(before)

(* Too few undersized manifests, or packing them would not leave fewer. *)
NothingToPack(p) ==
    LET before == run[p].view.manifests
    IN  /\ run[p].pc = "loaded" /\ run[p].op = "manifests"
        /\ ~AuthoringRefusal(run[p].view.format)
        /\ \/ Cardinality(Undersized(before)) < MinToMerge
           \/ \E after \in Repacked(before) : ~WorthPacking(before, after)
        /\ Done(p)
        /\ UNCHANGED <<table, inflight, counts>>

RewriteManifests(p) ==
    LET view == run[p].view
    IN  /\ run[p].pc = "loaded" /\ run[p].op = "manifests"
        /\ ~AuthoringRefusal(view.format)
        /\ Cardinality(Undersized(view.manifests)) >= MinToMerge
        /\ \E after \in Repacked(view.manifests), retention \in Retentions(view) :
            /\ WorthPacking(view.manifests, after)
            /\ Send(p, Install(view, after, retention, NoTotals, "manifests"))

(* A replacement of files, over what this view holds. *)
Replace(p, removed, added) ==
    LET view == run[p].view
    IN  \E after \in WriteManifests(view, removed, added), retention \in Retentions(view) :
            Send(p, Install(view, after, retention, Summary(view, removed, added), "files"))

(* What is left of the group, and the deletes it was the last to need.  That *)
(* it was planned under another spec than the table has now is not noticed,  *)
(* only that its files are under several.                                    *)
RewriteFiles(p) ==
    LET view == run[p].view
        group == Selected(view, run[p].wanted)
    IN  /\ run[p].pc = "loaded" /\ run[p].op = "files"
        /\ ~AuthoringRefusal(view.format)
        /\ group # {} /\ \A d, e \in group : d.spec = e.spec
        /\ \E added \in Outputs(view, group) :
            Replace(p, {e.file : e \in group \cup Retired(view, group)}, added)

(* After the groups, the deletes that apply to nothing.                      *)
DropDangling(p) ==
    LET view == run[p].view
    IN  /\ run[p].pc = "loaded" /\ run[p].op = "dangling"
        /\ ~AuthoringRefusal(view.format)
        /\ Dangling(view) # {}
        /\ Replace(p, {d.file : d \in Dangling(view)}, {})

-----------------------------------------------------------------------------
(* The catalog, and the answer *)

(* The run the answer is for may have ended, and its process begun another.  *)
Awaits(r) == run[r.from].pc = "sent" /\ run[r.from].id = r.id

Applies(request) == request.base = table.version

(* The assertion holds: the snapshot is added and main is moved to it with   *)
(* the retention the request names, which replaces whatever it had.          *)
Commit(r) ==
    /\ r \in inflight
    /\ Applies(r.request)
    /\ table' = [table EXCEPT !.version = @ + 1, !.seq = @ + 1, !.manifests = r.request.manifests,
                    !.retention = r.request.retention, !.totals = r.request.totals, !.by = r.request.by]
    /\ \/ /\ IF Awaits(r) THEN Done(r.from) ELSE UNCHANGED run
          /\ inflight' = inflight \ {r}
       \* the answer is lost to a gateway; the throttle loop sends the same again
       \/ Awaits(r) /\ UNCHANGED <<run, inflight>>
    /\ UNCHANGED counts

(* The pass over dangling deletes leaves a lost commit to the next cycle.    *)
AttemptsLeft(r) == r.op # "dangling" /\ r.attempt + 1 < MaxCommitAttempts

Conflict(r) ==
    /\ r \in inflight
    /\ ~Applies(r.request)
    /\ inflight' = inflight \ {r}
    /\ IF ~Awaits(r) THEN UNCHANGED run
       ELSE IF AttemptsLeft(run[r.from])
            THEN run' = [run EXCEPT ![r.from].pc = "backoff", ![r.from].attempt = @ + 1]
            ELSE Done(r.from)
    /\ UNCHANGED <<table, counts>>

(* After the delay the run reloads: what it packs is what the table has now, *)
(* what it rewrites is its group still.  So it does before a later group of  *)
(* a plan, when the one before it was committed.                             *)
Reload(p) ==
    /\ \/ run[p].pc = "backoff"
       \/ run[p].pc = "loaded" /\ run[p].op = "files" /\ run[p].attempt = 0
    /\ run' = [run EXCEPT ![p].pc = "loaded", ![p].view = table]
    /\ UNCHANGED <<table, inflight, counts>>

(* The operation ends here with nothing to rewrite, by an error, the         *)
(* operation timeout or a crash; a request already sent may still be applied. *)
Drop(p) ==
    /\ run[p].pc # "idle"
    /\ Done(p)
    /\ UNCHANGED <<table, inflight, counts>>

(* A request nobody waits for may get lost on the way. *)
Lose(r) ==
    /\ r \in inflight /\ ~Awaits(r)
    /\ inflight' = inflight \ {r}
    /\ UNCHANGED <<table, run, counts>>

-----------------------------------------------------------------------------
(* The foreground *)

Edit(manifests) ==
    /\ counts.edits < MaxEdits
    /\ table' = [table EXCEPT !.version = @ + 1, !.seq = @ + 1, !.manifests = manifests,
                    !.totals = NoTotals, !.by = "foreground"]
    /\ counts' = [counts EXCEPT !.edits = @ + 1]
    /\ UNCHANGED <<run, inflight>>

Write ==
    \E content \in Contents, tuple \in Tuples :
        /\ content # "data" => table.format > 1
        /\ \E w \in Written({Draft(table.spec, content,
                     {[file |-> table.seq + 1, content |-> content, tuple |-> tuple, seq |-> table.seq + 1, status |-> "added"]})}) :
            Edit(table.manifests \cup w)

(* The manifest keeps the removed entry as history. *)
Remove ==
    \E m \in table.manifests : \E gone \in LiveIn(m) :
        LET entries == {IF e = gone THEN [e EXCEPT !.status = "deleted"] ELSE Existing(e) : e \in LiveIn(m)}
        IN  Edit((table.manifests \ {m}) \cup {[m EXCEPT !.entries = entries]})

(* Neither of these adds a snapshot. *)
EvolveSpec ==
    /\ counts.edits < MaxEdits
    /\ \E s \in Specs \ {table.spec} : table' = [table EXCEPT !.spec = s]
    /\ counts' = [counts EXCEPT !.edits = @ + 1]
    /\ UNCHANGED <<run, inflight>>

AlterRetention ==
    /\ counts.edits < MaxEdits
    /\ table' = [table EXCEPT !.retention = "altered"]
    /\ counts' = [counts EXCEPT !.edits = @ + 1]
    /\ UNCHANGED <<run, inflight>>

-----------------------------------------------------------------------------
Init ==
    /\ \E f \in Formats :
        table = [format |-> f, version |-> 0, seq |-> SeedSeq, manifests |-> SeedManifests, spec |-> FirstSpec,
                 retention |-> "configured", totals |-> NoTotals, by |-> "foreground"]
    /\ run = [p \in Replicas |-> Idle]
    /\ inflight = {}
    /\ counts = [edits |-> 0, runs |-> 0]

Maintain(p) == Begin(p) \/ Refuse(p) \/ NothingToPack(p) \/ RewriteManifests(p)
    \/ RewriteFiles(p) \/ DropDangling(p) \/ Reload(p) \/ Drop(p)

Next ==
    \/ \E p \in Replicas : Maintain(p)
    \/ \E r \in inflight : Commit(r) \/ Conflict(r) \/ Lose(r)
    \/ Write \/ Remove \/ EvolveSpec \/ AlterRetention

Spec == Init /\ [][Next]_vars

-----------------------------------------------------------------------------
(* What a table is: every live file listed once, and nothing numbered above  *)
(* the table's last sequence number.                                         *)

Entry == [file : Nat, content : Contents, tuple : Tuples, seq : Nat, status : {"added", "existing", "deleted"}]
Manifest == [spec : Specs, kind : Contents, small : BOOLEAN, entries : SUBSET Entry]

SoundManifests(manifests, last) ==
    /\ manifests \subseteq Manifest /\ IsFiniteSet(manifests)
    /\ \A m \in manifests : IsFiniteSet(m.entries) /\ \A e \in LiveIn(m) : e.file <= last /\ e.seq <= last
    /\ \A m, n \in manifests : \A d \in LiveIn(m), e \in LiveIn(n) : d.file = e.file => m = n /\ d = e

ASSUME SeedAssumption == SeedSeq \in Nat /\ SoundManifests(SeedManifests, SeedSeq)

-----------------------------------------------------------------------------
(* Properties *)

(* Rewriting manifests leaves every live entry as it was, with its sequence  *)
(* number and its partition under its own spec, and rewriting files changes  *)
(* no entry but those it exchanges, whatever else commits, is lost or late.  *)
Live == INSTANCE LiveEntries WITH
    live <- LiveEntriesOf(table.manifests), edits <- counts.edits,
    InitialEntries <- LiveEntriesOf(SeedManifests)
EntriesUntouched == Live!Spec

Packs == table'.version # table.version /\ table'.by = "manifests"

(* A quiet table is left alone: once its manifests were packed, packing them *)
(* again never finds a reason to commit, so it does not add a snapshot every *)
(* cycle for ever.                                                           *)
PackingSettles == [][Packs => table.by # "manifests"]_vars

Ranks(m) == {Rank(e.tuple) : e \in m.entries}

(* Packing keeps manifest pruning: of two manifests it writes for one spec   *)
(* and kind, one covers partitions no later than the other's, so that at     *)
(* most the partition at the boundary needs both.                            *)
PruningKept ==
    [][Packs =>
        LET new == table'.manifests \ table.manifests
        IN  \A m, n \in new :
                (m.spec = n.spec /\ m.kind = n.kind /\ m # n) =>
                    Max(Ranks(m)) <= Min(Ranks(n)) \/ Max(Ranks(n)) <= Min(Ranks(m))]_vars

(* A live file is listed by one manifest only, and the totals a file rewrite *)
(* writes into the summary are those of the table its snapshot leaves, even  *)
(* when another replica packed the manifests meanwhile.                      *)
SummaryIsTrue ==
    LET of(kind) == Cardinality({e \in LiveEntriesOf(table.manifests) : e.content = kind})
    IN  /\ \A m, n \in table.manifests : m # n => Files(m) \cap Files(n) = {}
        /\ table.totals # NoTotals => table.totals = [dataFiles |-> of("data"), deleteFiles |-> of("deletes")]

(* What the producer documents, a retention that survives a commit that      *)
(* moves main: it changes only when the owner alters it, not by a later      *)
(* commit that had read it before, nor by one that could not read it.        *)
OnlyTheOwnerAltersRetention ==
    [][table'.retention # table.retention => counts'.edits # counts.edits]_vars
=============================================================================
