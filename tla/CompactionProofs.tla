-------------------------- MODULE CompactionProofs --------------------------
(***************************************************************************)
(* Compaction is type correct, installs nothing twice, restamps nothing    *)
(* and retires no delete file that still applies, for any number of        *)
(* replicas, files, rows, edits, spec changes, retries and re-sends.       *)
(*                                                                         *)
(* The argument: heads of main only grow, so a view or a request that was  *)
(* behind the head stays behind it.  One that is not behind was derived    *)
(* from the very files the table holds, and a request is only installed    *)
(* when it is not behind.                                                  *)
(*                                                                         *)
(* The last part proves that the whole of it is invisible to readers.      *)
(***************************************************************************)
EXTENDS Compaction, FiniteSetTheorems, WellFoundedInduction, TLAPS

-----------------------------------------------------------------------------
(* Facts about the files of a table, for every set of rows, keys, specs and *)
(* files: what "dead by sequence number" means, and which changes of the    *)
(* live files leave what a reader sees as it was.                           *)

(* A nonempty set of naturals has a minimum, and Min names it. *)
LEMMA MinOfNaturals ==
    ASSUME NEW S \in SUBSET Nat, S # {}
    PROVE  Min(S) \in S /\ \A n \in S : Min(S) <= n
<1>1. PICK m \in S : \A n \in S : ~ (<<n, m>> \in OpToRel(<, Nat))
  BY NatLessThanWellFounded, WFMin
<1>2. \A n \in S : ~ (n < m)
  BY <1>1 DEF OpToRel
<1>3. \A n \in S : m <= n
  BY <1>2
<1> QED
  BY <1>3 DEF Min

(* The least sequence number a delete can reach decides whether it applies  *)
(* to anything: the derivation from sequence numbers and the scan's agree   *)
(* on every delete file of every set of files.                              *)
LEMMA DeadIsUnapplied ==
    ASSUME NEW live \in SUBSET File, NEW d \in DeleteFiles(live)
    PROVE  d \notin StillApplied(live) <=> DeadBySequence(d, live)
<1> DEFINE reached == {g \in DataFiles(live) : Reaches(d, g)}
           seqs == {f.seq : f \in reached}
<1>1. d.seq \in Nat /\ \A f \in DataFiles(live) : f.seq \in Nat
  BY DEF DeleteFiles, DataFiles, File
<1>2. d \notin StillApplied(live) <=> \A f \in reached : ~Applies(d, f)
  BY DEF StillApplied, Applies
<1>3. DeadBySequence(d, live) <=>
        (seqs = {} \/ IF d.kind = "equality" THEN d.seq <= Min(seqs) ELSE d.seq < Min(seqs))
  BY DEF DeadBySequence
<1>4. CASE seqs = {}
  BY <1>2, <1>3, <1>4
<1>5. CASE seqs # {}
  <2>1. seqs \in SUBSET Nat
    BY <1>1
  <2>2. Min(seqs) \in seqs /\ \A n \in seqs : Min(seqs) <= n
    BY <1>5, <2>1, MinOfNaturals
  <2>3. PICK m \in reached : m.seq = Min(seqs)
    BY <2>2
  <2>4. \A f \in reached : f.seq \in Nat /\ m.seq <= f.seq
    BY <1>1, <2>2, <2>3
  <2>5. \A f \in reached : Applies(d, f) <=> IF d.kind = "equality" THEN d.seq > f.seq ELSE d.seq >= f.seq
    BY DEF Applies
  <2>6. d.seq \in Nat /\ m.seq \in Nat
    BY <1>1
  <2>7. CASE d.kind = "equality"
    BY <1>2, <1>3, <1>5, <2>3, <2>4, <2>5, <2>6, <2>7
  <2>8. CASE d.kind # "equality"
    BY <1>2, <1>3, <1>5, <2>3, <2>4, <2>5, <2>6, <2>8
  <2> QED BY <2>7, <2>8
<1> QED BY <1>4, <1>5

(* A row survives in a data file when no delete file at all hides it. *)
LEMMA SurvivingRows ==
    ASSUME NEW f, NEW live
    PROVE  Surviving(f, live) = {r \in f.rows : \A d \in DeleteFiles(live) : ~Hides(d, f, r)}
BY DEF Surviving, DeletesOf, Hides

(* A pair is visible when its row survives in a data file of its partition. *)
LEMMA VisibleRows ==
    ASSUME NEW live, NEW x
    PROVE  x \in Visible(live)
             <=> \E f \in DataFiles(live) : x \in Surviving(f, live) \X {f.path.part}
BY DEF Visible

(* A file newer than every delete file loses no row to them. *)
LEMMA NewerThanDeletes ==
    ASSUME NEW live \in SUBSET File, NEW seq \in Nat, \A d \in live : d.seq <= seq,
           NEW f \in File, f.seq > seq, NEW d \in DeleteFiles(live), NEW r
    PROVE  ~ Hides(d, f, r)
<1>1. d.seq \in Nat /\ f.seq \in Nat /\ d.seq <= seq
  BY DEF DeleteFiles, File
<1>2. ~ Applies(d, f)
  BY <1>1 DEF Applies
<1> QED BY <1>2 DEF Hides

(* Data files of one partition give way to newer files of that partition    *)
(* holding exactly their surviving rows; the delete files that are retired  *)
(* apply to no other data file.                                             *)
Rewrites(live, seq, files, part, retired, added) ==
    /\ \A f \in live : f.seq <= seq
    /\ files \subseteq DataFiles(live) /\ \A f \in files : f.path.part = part
    /\ retired \subseteq DeleteFiles(live)
    /\ \A d \in retired : \A f \in DataFiles(live) \ files : ~Applies(d, f)
    /\ added \subseteq File
    /\ \A f \in added : f.kind = "data" /\ f.seq > seq /\ f.path.part = part
    /\ \A r : (\E f \in added : r \in f.rows) <=> (\E f \in files : r \in Surviving(f, live))

(* Such a rewrite changes nothing a reader sees. *)
LEMMA RewriteKeepsVisible ==
    ASSUME NEW live \in SUBSET File, NEW seq \in Nat, NEW files, NEW part, NEW retired, NEW added,
           Rewrites(live, seq, files, part, retired, added)
    PROVE  Visible((live \ (files \cup retired)) \cup added) = Visible(live)
<1> DEFINE after == (live \ (files \cup retired)) \cup added
           kept == DataFiles(live) \ files
<1>1. DataFiles(after) = kept \cup added
  BY DEF Rewrites, DataFiles, DeleteFiles, DeleteKinds
<1>2. DeleteFiles(after) = DeleteFiles(live) \ retired
  BY DEF Rewrites, DataFiles, DeleteFiles, DeleteKinds
<1>3. ASSUME NEW f \in kept PROVE Surviving(f, after) = Surviving(f, live)
  <2>1. \A d \in retired : \A r : ~Hides(d, f, r)
    BY <1>3 DEF Rewrites, Hides
  <2> QED BY <1>2, <2>1, SurvivingRows
<1>4. ASSUME NEW f \in added PROVE Surviving(f, after) = f.rows
  <2>1. \A d \in DeleteFiles(live) : \A r : ~Hides(d, f, r)
    BY <1>4, NewerThanDeletes DEF Rewrites
  <2> QED BY <1>2, <2>1, SurvivingRows
<1>5. ASSUME NEW x \in Visible(live) PROVE x \in Visible(after)
  <2>1. PICK f \in DataFiles(live) : x \in Surviving(f, live) \X {f.path.part}
    BY <1>5, VisibleRows
  <2>2. CASE f \in kept
    BY <1>1, <1>3, <2>1, <2>2, VisibleRows
  <2>3. CASE f \in files
    <3>1. x[1] \in Surviving(f, live) /\ x = <<x[1], part>>
      BY <2>1, <2>3 DEF Rewrites
    <3>2. PICK g \in added : x[1] \in g.rows
      BY <2>3, <3>1 DEF Rewrites
    <3>3. g.path.part = part /\ x[1] \in Surviving(g, after)
      BY <1>4, <3>2 DEF Rewrites
    <3> QED BY <1>1, <3>1, <3>3, VisibleRows
  <2> QED BY <2>2, <2>3
<1>6. ASSUME NEW x \in Visible(after) PROVE x \in Visible(live)
  <2>1. PICK f \in DataFiles(after) : x \in Surviving(f, after) \X {f.path.part}
    BY <1>6, VisibleRows
  <2>2. CASE f \in kept
    BY <1>3, <2>1, <2>2, VisibleRows
  <2>3. CASE f \in added
    <3>1. x[1] \in f.rows /\ x = <<x[1], part>>
      <4>1. x[1] \in Surviving(f, after) /\ x = <<x[1], f.path.part>>
        BY <2>1
      <4>2. Surviving(f, after) = f.rows
        BY <1>4, <2>3
      <4>3. f.path.part = part
        BY <2>3 DEF Rewrites
      <4> QED BY <4>1, <4>2, <4>3
    <3>2. PICK g \in files : x[1] \in Surviving(g, live)
      BY <2>3, <3>1 DEF Rewrites
    <3>3. g \in DataFiles(live) /\ g.path.part = part
      BY DEF Rewrites
    <3> QED BY <3>1, <3>2, <3>3, VisibleRows
  <2> QED BY <1>1, <2>1, <2>2, <2>3
<1> QED BY <1>5, <1>6

(* Removing dangling delete files changes nothing readers see. *)
LEMMA DanglingKeepsVisible ==
    ASSUME NEW live \in SUBSET File, NEW seq \in Nat, \A f \in live : f.seq <= seq
    PROVE  Visible(RewriteFiles(live, DanglingDeleteFiles(live), {})) = Visible(live)
<1> DEFINE retired == DanglingDeleteFiles(live)
<1>1. Rewrites(live, seq, {}, SeedSpec, retired, {})
  BY DEF Rewrites, DanglingDeleteFiles, StillApplied
<1>2. RewriteFiles(live, retired, {}) = (live \ ({} \cup retired)) \cup {}
  BY DEF RewriteFiles, CarriedForward
<1>3. Visible((live \ ({} \cup retired)) \cup {}) = Visible(live)
  BY <1>1, RewriteKeepsVisible
<1> QED BY <1>2, <1>3

(* What is written holds the rows it was given. *)
LEMMA OutputRows ==
    ASSUME NEW name, NEW part, NEW view, NEW size, NEW rows
    PROVE  \A x : (\E f \in Output(name, part, view, size, rows) : x \in f.rows) <=> x \in rows
<1>1. DataFile(name, part, NextSequence(view), size, rows).rows = rows
  BY DEF DataFile
<1>2. CASE rows = {}
  BY <1>2 DEF Output
<1>3. CASE rows # {}
  <2>1. Output(name, part, view, size, rows) = {DataFile(name, part, NextSequence(view), size, rows)}
    BY <1>3 DEF Output
  <2> QED BY <1>1, <2>1
<1> QED BY <1>2, <1>3

(* Where no delete applies to the files that go, the rows that are seen are *)
(* the same.                                                                *)
KeepsRows(old, new) ==
    (\A f \in DataFiles(old) \ new : DeletesOf(f, old) = {}) => RowsSeen(old) = RowsSeen(new)

LEMMA SeenRows ==
    ASSUME NEW live, NEW r
    PROVE  r \in RowsSeen(live) <=> \E f \in DataFiles(live) : r \in Surviving(f, live)
<1>1. ASSUME r \in RowsSeen(live) PROVE \E f \in DataFiles(live) : r \in Surviving(f, live)
  <2>1. PICK x \in Visible(live) : r = x[1]
    BY <1>1 DEF RowsSeen
  <2>2. PICK f \in DataFiles(live) : x \in Surviving(f, live) \X {f.path.part}
    BY <2>1, VisibleRows
  <2> QED BY <2>1, <2>2
<1>2. ASSUME NEW f \in DataFiles(live), r \in Surviving(f, live) PROVE r \in RowsSeen(live)
  <2>1. <<r, f.path.part>> \in Visible(live) /\ <<r, f.path.part>>[1] = r
    BY <1>2, VisibleRows
  <2> QED BY <2>1 DEF RowsSeen
<1> QED BY <1>1, <1>2

(* Where the counts agree and no delete applies, every row that was to be   *)
(* read was read, and every row that was read is written.                   *)
LEMMA CountedRows ==
    ASSUME NEW files \in SUBSET File, NEW live, \A f \in files : DeletesOf(f, live) = {},
           NEW streamed \in SUBSET Survivors(files, live), NEW persisted \in SUBSET streamed,
           RowCountsAgree(files, live, streamed, persisted)
    PROVE  \A r : r \in persisted <=> \E f \in files : r \in f.rows
<1> DEFINE all == UNION {f.rows : f \in files}
<1>1. \A f \in files : Surviving(f, live) = f.rows
  BY DEF Surviving
<1>2. Survivors(files, live) = all
  BY <1>1 DEF Survivors
<1>3. all \in SUBSET Rows
  BY DEF File
<1>4. IsFiniteSet(all)
  BY <1>3, CompactionAssumption, FS_Subset
<1>5. Cardinality(streamed) = Cardinality(all) /\ Cardinality(persisted) = Cardinality(streamed)
  BY DEF RowCountsAgree
<1>6. streamed \in SUBSET all
  BY <1>2
<1> HIDE DEF all
<1>7. streamed = all /\ IsFiniteSet(streamed)
  BY <1>4, <1>5, <1>6, FS_Subset
<1>8. persisted = streamed
  BY <1>5, <1>7, FS_Subset
<1> QED BY <1>7, <1>8 DEF all

(* A rewrite of a group whose counts agree, whatever its partitions.        *)
LEMMA RewriteKeepsRows ==
    ASSUME NEW live \in SUBSET File, NEW seq \in Nat, \A f \in live : f.seq <= seq,
           NEW files \in SUBSET DataFiles(live), NEW added \in SUBSET File,
           \A f \in added : f.kind = "data" /\ f.seq = seq + 1,
           NEW streamed \in SUBSET Survivors(files, live), NEW persisted \in SUBSET streamed,
           RowCountsAgree(files, live, streamed, persisted),
           \A r : (\E f \in added : r \in f.rows) <=> r \in persisted
    PROVE  KeepsRows(live, RewriteFiles(live, files \cup Retirable(files, live), added))
<1> DEFINE retired == Retirable(files, live)
           new == RewriteFiles(live, files \cup retired, added)
<1> SUFFICES ASSUME \A f \in DataFiles(live) \ new : DeletesOf(f, live) = {}
             PROVE  RowsSeen(live) = RowsSeen(new)
  BY DEF KeepsRows
<1>1. new = (live \ (files \cup retired)) \cup added
  BY DEF RewriteFiles, CarriedForward
<1>2. \A f \in live : f.seq \in Nat /\ f \notin added
  BY DEF File
<1>3. \A f \in files : f \in DataFiles(live) \ new
  BY <1>1, <1>2 DEF DataFiles
<1>4. \A f \in files : DeletesOf(f, live) = {}
  BY <1>3
<1>5. retired = {}
  BY <1>4 DEF Retirable, DeletesOf
<1> HIDE DEF retired
<1>6. DataFiles(new) = (DataFiles(live) \ files) \cup added /\ DeleteFiles(new) = DeleteFiles(live)
  BY <1>1, <1>5 DEF DataFiles, DeleteFiles, DeleteKinds
<1> HIDE DEF new
<1>7. \A f : Surviving(f, new) = Surviving(f, live)
  BY <1>6, SurvivingRows
<1>8. \A f \in files : Surviving(f, live) = f.rows
  BY <1>4 DEF Surviving
<1>9. ASSUME NEW f \in added PROVE Surviving(f, live) = f.rows
  <2>1. f \in File /\ f.seq > seq
    BY <1>9
  <2>2. \A d \in DeleteFiles(live) : \A r : ~Hides(d, f, r)
    BY <2>1, NewerThanDeletes
  <2> QED BY <2>2, SurvivingRows
<1>10. \A r : (\E f \in added : r \in f.rows) <=> \E f \in files : r \in f.rows
  <2>1. files \in SUBSET File
    BY DEF DataFiles
  <2>2. \A r : r \in persisted <=> \E f \in files : r \in f.rows
    BY <1>4, <2>1, CountedRows
  <2> QED BY <2>2
<1>11. ASSUME NEW r
       PROVE  (\E f \in DataFiles(live) : r \in Surviving(f, live))
                <=> \E f \in DataFiles(new) : r \in Surviving(f, new)
  BY <1>6, <1>7, <1>8, <1>9, <1>10
<1>12. \A r : r \in RowsSeen(live) <=> r \in RowsSeen(new)
  BY <1>11, SeenRows
<1> QED BY <1>12

-----------------------------------------------------------------------------
(* The inductive invariant *)

(* Files no newer than a sequence number, with paths already issued, no two *)
(* of one path and no two of one row.                                       *)
Fits(live, seq, n) ==
    /\ \A f \in live : f.seq <= seq /\ f.path.name < n
    /\ \A f, g \in live : f.path = g.path => f = g
    /\ \A f, g \in DataFiles(live) : f # g => f.rows \cap g.rows = {}

(* A view of the table is behind its head, or shows what the table holds. *)
Current(v, t) ==
    /\ v.head <= t.head
    /\ v.head = t.head => v.live = t.live /\ v.seq = t.seq

(* What a request makes of the table it was derived from. *)
Follows(q, t, n) ==
    /\ q.seq = t.seq + 1
    /\ Fits(q.live, q.seq, n)
    /\ \A f \in t.live, g \in q.live : f.path = g.path => f = g
    /\ \A d \in DeleteFiles(t.live) \ q.live : \A f \in DataFiles(q.live) : ~Applies(d, f)
    /\ KeepsRows(t.live, q.live)

(* A request is behind the head and will be rejected, or it follows. *)
RequestOK(q, t, n) ==
    /\ q.base <= t.head /\ q.base < q.snap /\ q.snap < n
    /\ q.base = t.head => Follows(q, t, n)

(* The phases of a run, and what it counts. *)
Phased(r, rec) ==
    /\ rec.pc \in {"choose", "rewrite", "reload", "refresh"} => rec.phase = "group"
    /\ rec.pc = "dangling" => rec.phase = "dangling"
    /\ (rec.pc \in {"rewrite", "reload", "await"} /\ rec.phase = "group") => rec.fails < MaxGroupFailures
    /\ rec.pc = "await" => rec.request.owner = r /\ rec.request.turn = rec.turn
    /\ rec.rewrote \/ rec.dropped => rec.landed # {}
    /\ rec.result = "succeeded" => rec.landed # {}

RunOK(r, rec, t, n) ==
    /\ rec \in Run
    /\ Phased(r, rec)
    /\ Current(rec.state, t) /\ Current(rec.current, t)
    /\ rec.pc = "await" => RequestOK(rec.request, t, n)

IInv ==
    /\ table \in Table /\ table.head \in 1 .. nextName - 1
    /\ nextName \in Nat /\ edits \in 0 .. MaxEdits /\ evolutions \in 0 .. MaxEvolutions
    /\ Fits(table.live, table.seq, nextName)
    /\ run \in [Replicas -> Run]
    /\ \A r \in Replicas : RunOK(r, run[r], table, nextName)
    /\ inflight \subseteq Request
    /\ \A q \in inflight : RequestOK(q, table, nextName)

-----------------------------------------------------------------------------
(* What becomes of views and requests when the table moves *)

Advances(t, u) ==
    \/ t.head < u.head
    \/ u.head = t.head /\ u.live = t.live /\ u.seq = t.seq

LEMMA FitsMonotone ==
    ASSUME NEW live \in SUBSET File, NEW seq, NEW n \in Nat, NEW m \in Nat, n <= m,
           Fits(live, seq, n)
    PROVE  Fits(live, seq, m)
BY DEF Fits, File, Path

LEMMA RequestAges ==
    ASSUME NEW t \in Table, NEW u \in Table, Advances(t, u),
           NEW n \in Nat, NEW m \in Nat, n <= m,
           NEW q \in Request, RequestOK(q, t, n)
    PROVE  RequestOK(q, u, m)
<1>1. q.base \in Nat /\ q.snap \in Nat /\ q.live \in SUBSET File /\ t.head \in Nat /\ u.head \in Nat
  BY DEF Request, Table
<1>2. q.base <= u.head /\ q.base < q.snap /\ q.snap < m
  BY <1>1 DEF RequestOK, Advances
<1>3. ASSUME q.base = u.head PROVE Follows(q, u, m)
  <2>1. q.base = t.head /\ u.live = t.live /\ u.seq = t.seq
    BY <1>1, <1>3 DEF RequestOK, Advances
  <2>2. Follows(q, t, n)
    BY <2>1 DEF RequestOK
  <2> QED BY <1>1, <2>1, <2>2, FitsMonotone DEF Follows
<1> QED BY <1>2, <1>3 DEF RequestOK

LEMMA ViewAges ==
    ASSUME NEW t \in Table, NEW u \in Table, Advances(t, u), NEW v \in Table, Current(v, t)
    PROVE  Current(v, u)
BY DEF Current, Advances, Table

LEMMA RunAges ==
    ASSUME NEW t \in Table, NEW u \in Table, Advances(t, u),
           NEW n \in Nat, NEW m \in Nat, n <= m,
           NEW r, NEW rec, RunOK(r, rec, t, n)
    PROVE  RunOK(r, rec, u, m)
<1>1. rec.state \in Table /\ rec.current \in Table /\ rec.request \in Request
  BY DEF RunOK, Run
<1> QED BY <1>1, ViewAges, RequestAges DEF RunOK

-----------------------------------------------------------------------------
(* What becomes of a run that ends, or goes on to its next group *)

LEMMA NoViewIsCurrent ==
    ASSUME NEW t \in Table, t.head > 0
    PROVE  NoView \in Table /\ Current(NoView, t)
BY CompactionAssumption DEF NoView, Table, Current

LEMMA NoRequestType ==
    ASSUME NEW r \in Replicas
    PROVE  NoRequest(r) \in Request
BY DEF NoRequest, Request

LEMMA IdleRunOK ==
    ASSUME NEW t \in Table, t.head > 0, NEW n \in Nat, NEW r \in Replicas,
           NEW turn \in Nat, NEW result \in Results, NEW skipped \in SUBSET {"replan", "error"},
           NEW landed \in SUBSET Nat, result = "succeeded" => landed # {}
    PROVE  RunOK(r, IdleRun(r, turn, result, skipped, landed), t, n)
<1> DEFINE rec == IdleRun(r, turn, result, skipped, landed)
<1>1. NoView \in Table /\ Current(NoView, t) /\ NoRequest(r) \in Request
  BY NoViewIsCurrent, NoRequestType
<1>2. 0 \in 0 .. MaxCommitAttempts - 1 /\ 0 \in 0 .. MaxResends /\ 0 \in 0 .. MaxGroupFailures
  BY CompactionAssumption
<1>3. rec \in Run
  BY <1>1, <1>2 DEF IdleRun, Run
<1>4. Phased(r, rec)
  BY DEF Phased, IdleRun
<1> QED BY <1>1, <1>3, <1>4 DEF RunOK, IdleRun

(* A run that counted a group or a dropped delete file has installed one. *)
LEMMA ReportedOK ==
    ASSUME NEW t \in Table, t.head > 0, NEW n \in Nat, NEW r \in Replicas,
           NEW rec \in Run, rec.rewrote \/ rec.dropped => rec.landed # {}
    PROVE  RunOK(r, Reported(r, rec), t, n)
<1> DEFINE result == IF ~rec.rewrote /\ ~rec.dropped THEN "noop" ELSE "succeeded"
<1>1. /\ rec.turn \in Nat /\ rec.skipped \in SUBSET {"replan", "error"}
      /\ rec.landed \in SUBSET Nat /\ rec.rewrote \in BOOLEAN /\ rec.dropped \in BOOLEAN
  BY DEF Run
<1>2. result \in Results /\ (result = "succeeded" => rec.landed # {})
  BY <1>1 DEF Results
<1> HIDE DEF result
<1>3. RunOK(r, IdleRun(r, rec.turn, result, rec.skipped, rec.landed), t, n)
  BY <1>1, <1>2, IdleRunOK
<1> QED BY <1>3 DEF Reported, result

LEMMA NextGroupOK ==
    ASSUME NEW t \in Table, t.head > 0, NEW n \in Nat, NEW r \in Replicas,
           NEW rec, RunOK(r, rec, t, n), rec.pc # "idle", rec.phase = "group"
    PROVE  RunOK(r, NextGroup(r, rec), t, n)
<1> DEFINE next == NextGroup(r, rec)
<1>1. NoView \in Table /\ Current(NoView, t) /\ NoRequest(r) \in Request
  BY NoViewIsCurrent, NoRequestType
<1>2. 0 \in 0 .. MaxCommitAttempts - 1 /\ 0 \in 0 .. MaxResends
  BY CompactionAssumption
<1>3. next \in Run
  BY <1>1, <1>2 DEF RunOK, Run, NextGroup
<1>4. next.pc = "choose" /\ next.phase = "group" /\ next.state = rec.state /\ next.current = NoView
      /\ next.rewrote = rec.rewrote /\ next.dropped = rec.dropped
      /\ next.landed = rec.landed /\ next.result = rec.result
  BY DEF RunOK, Run, NextGroup
<1>5. Phased(r, next)
  BY <1>4 DEF RunOK, Phased
<1> QED BY <1>1, <1>3, <1>4, <1>5 DEF RunOK

LEMMA GroupFailedOK ==
    ASSUME NEW t \in Table, t.head > 0, NEW n \in Nat, NEW r \in Replicas,
           RunOK(r, run[r], t, n), run[r].pc \in {"rewrite", "reload", "await"},
           run[r].phase = "group", NEW why \in {"replan", "error"}
    PROVE  RunOK(r, GroupFailed(r, why), t, n)
<1> DEFINE next == NextGroup(r, run[r])
           failed == GroupFailed(r, why)
<1>1. RunOK(r, next, t, n)
  BY NextGroupOK
<1>2. next \in Run /\ next.fails = run[r].fails /\ next.pc = "choose" /\ next.phase = "group"
  BY <1>1 DEF NextGroup, RunOK, Run
<1>3. run[r].fails \in 0 .. MaxGroupFailures /\ run[r].fails < MaxGroupFailures
  BY DEF RunOK, Phased, Run
<1>4. next.fails + 1 \in 0 .. MaxGroupFailures
  BY <1>2, <1>3, CompactionAssumption
<1> HIDE DEF next
<1>5. failed = [next EXCEPT !.fails = @ + 1, !.skipped = @ \cup {why}]
  BY DEF GroupFailed, next
<1>6. failed \in Run
  <2>1. next.skipped \cup {why} \in SUBSET {"replan", "error"}
    BY <1>2 DEF Run
  <2> HIDE DEF failed
  <2> QED BY <1>2, <1>4, <1>5, <2>1 DEF Run
<1>7. /\ failed.pc = next.pc /\ failed.phase = next.phase
      /\ failed.state = next.state /\ failed.current = next.current
      /\ failed.rewrote = next.rewrote /\ failed.dropped = next.dropped
      /\ failed.landed = next.landed /\ failed.result = next.result
  BY <1>2, <1>5 DEF Run
<1> HIDE DEF failed
<1>8. Phased(r, failed)
  BY <1>1, <1>2, <1>7 DEF RunOK, Phased
<1> QED BY <1>1, <1>2, <1>6, <1>7, <1>8 DEF RunOK, failed

LEMMA LandedOK ==
    ASSUME NEW t \in Table, NEW n \in Nat, NEW r, NEW rec, RunOK(r, rec, t, n), NEW s \in Nat
    PROVE  LET more == [rec EXCEPT !.landed = @ \cup {s}]
           IN  /\ RunOK(r, more, t, n) /\ more.landed # {}
               /\ more.pc = rec.pc /\ more.phase = rec.phase /\ more.request = rec.request
<1> DEFINE more == [rec EXCEPT !.landed = @ \cup {s}]
<1>1. rec \in Run /\ rec.landed \in SUBSET Nat
  BY DEF RunOK, Run
<1>2. more \in Run
  BY <1>1 DEF Run
<1>3. /\ more.pc = rec.pc /\ more.phase = rec.phase /\ more.fails = rec.fails
      /\ more.state = rec.state /\ more.current = rec.current /\ more.request = rec.request
      /\ more.rewrote = rec.rewrote /\ more.dropped = rec.dropped /\ more.turn = rec.turn
      /\ more.landed = rec.landed \cup {s} /\ more.result = rec.result
  BY <1>1 DEF Run
<1> HIDE DEF more
<1>4. Phased(r, more)
  BY <1>3 DEF RunOK, Phased
<1>5. RunOK(r, more, t, n) /\ more.landed # {}
  BY <1>2, <1>3, <1>4 DEF RunOK
<1> QED BY <1>3, <1>5 DEF more

LEMMA AfterCommitOK ==
    ASSUME NEW t \in Table, t.head > 0, NEW n \in Nat, NEW r \in Replicas,
           NEW rec, RunOK(r, rec, t, n), rec.pc = "await", rec.landed # {}
    PROVE  RunOK(r, AfterCommit(r, rec), t, n)
<1>1. rec \in Run /\ rec.phase \in {"group", "dangling"}
  BY DEF RunOK, Run
<1>2. CASE rec.phase = "group"
  <2> DEFINE next == NextGroup(r, rec)
             done == AfterCommit(r, rec)
  <2>1. RunOK(r, next, t, n)
    BY <1>2, NextGroupOK
  <2>2. next \in Run /\ next.phase = "group" /\ next.landed = rec.landed
    BY <1>1, <1>2, <2>1 DEF NextGroup, RunOK, Run
  <2>3. 0 \in 0 .. MaxGroupFailures
    BY CompactionAssumption
  <2>4. done = [next EXCEPT !.pc = "refresh", !.fails = 0, !.rewrote = TRUE]
    BY <1>2 DEF AfterCommit
  <2> HIDE DEF next, done
  <2>5. done \in Run
    BY <2>2, <2>3, <2>4 DEF Run
  <2>6. /\ done.pc = "refresh" /\ done.phase = next.phase
        /\ done.state = next.state /\ done.current = next.current
        /\ done.landed = next.landed
    BY <2>2, <2>4 DEF Run
  <2>7. Phased(r, done)
    BY <2>2, <2>6 DEF Phased
  <2>8. RunOK(r, done, t, n)
    BY <2>1, <2>5, <2>6, <2>7 DEF RunOK
  <2> QED BY <2>8 DEF done
<1>3. CASE rec.phase = "dangling"
  <2> DEFINE counted == [rec EXCEPT !.dropped = TRUE]
  <2>1. counted \in Run /\ counted.landed = rec.landed
    BY <1>1 DEF Run
  <2> HIDE DEF counted
  <2>2. RunOK(r, Reported(r, counted), t, n)
    BY <2>1, ReportedOK
  <2>3. AfterCommit(r, rec) = Reported(r, counted)
    BY <1>3 DEF AfterCommit, counted
  <2> QED BY <2>2, <2>3
<1> QED BY <1>1, <1>2, <1>3

(* A run whose dangling-delete pass failed reports what it did before. *)
LEMMA PassFailedOK ==
    ASSUME NEW t \in Table, t.head > 0, NEW n \in Nat, NEW r \in Replicas,
           RunOK(r, run[r], t, n), NEW why \in {"replan", "error"}
    PROVE  RunOK(r, Reported(r, [run[r] EXCEPT !.skipped = @ \cup {why}]), t, n)
<1> DEFINE rec == [run[r] EXCEPT !.skipped = @ \cup {why}]
<1>1. run[r] \in Run /\ run[r].skipped \cup {why} \in SUBSET {"replan", "error"}
  BY DEF RunOK, Run
<1>2. rec \in Run
  BY <1>1 DEF Run
<1>3. rec.rewrote = run[r].rewrote /\ rec.dropped = run[r].dropped /\ rec.landed = run[r].landed
  BY <1>1 DEF Run
<1> HIDE DEF rec
<1>4. rec.rewrote \/ rec.dropped => rec.landed # {}
  BY <1>3 DEF RunOK, Phased
<1>5. RunOK(r, Reported(r, rec), t, n)
  BY <1>2, <1>4, ReportedOK
<1> QED BY <1>5 DEF rec

LEMMA AfterErrorOK ==
    ASSUME NEW t \in Table, t.head > 0, NEW n \in Nat, NEW r \in Replicas,
           RunOK(r, run[r], t, n), run[r].pc \in {"await", "dangling"}
    PROVE  RunOK(r, AfterError(r), t, n)
<1>1. CASE run[r].phase = "group"
  <2>1. run[r].pc = "await"
    BY <1>1 DEF RunOK, Phased
  <2> QED BY <1>1, <2>1, GroupFailedOK DEF AfterError
<1>2. CASE run[r].phase # "group"
  BY <1>2, PassFailedOK DEF AfterError
<1> QED BY <1>1, <1>2

LEMMA AfterConflictOK ==
    ASSUME NEW t \in Table, t.head > 0, NEW n \in Nat, NEW r \in Replicas,
           RunOK(r, run[r], t, n), run[r].pc = "await"
    PROVE  RunOK(r, AfterConflict(r), t, n)
<1>1. run[r] \in Run /\ run[r].phase \in {"group", "dangling"} /\ run[r].attempt \in Nat
  BY DEF RunOK, Run
<1>2. CASE run[r].phase = "dangling"
  BY <1>2, PassFailedOK DEF AfterConflict
<1>3. CASE run[r].phase = "group" /\ run[r].attempt + 1 < MaxCommitAttempts
  <2> DEFINE again == [run[r] EXCEPT !.pc = "reload", !.attempt = @ + 1, !.resends = 0,
                                     !.request = NoRequest(r), !.current = NoView]
  <2>1. AfterConflict(r) = again
    BY <1>3 DEF AfterConflict
  <2>2. NoView \in Table /\ Current(NoView, t) /\ NoRequest(r) \in Request
    BY NoViewIsCurrent, NoRequestType
  <2>3. run[r].attempt + 1 \in 0 .. MaxCommitAttempts - 1 /\ 0 \in 0 .. MaxResends
    BY <1>1, <1>3, CompactionAssumption
  <2>4. again \in Run
    BY <1>1, <2>2, <2>3 DEF Run
  <2>5. /\ again.pc = "reload" /\ again.phase = run[r].phase /\ again.fails = run[r].fails
        /\ again.state = run[r].state /\ again.current = NoView
        /\ again.rewrote = run[r].rewrote /\ again.dropped = run[r].dropped
        /\ again.landed = run[r].landed /\ again.result = run[r].result
    BY <1>1 DEF Run
  <2> HIDE DEF again
  <2>6. Phased(r, again)
    BY <1>3, <2>5 DEF RunOK, Phased
  <2>7. RunOK(r, again, t, n)
    BY <2>2, <2>4, <2>5, <2>6 DEF RunOK
  <2> QED BY <2>1, <2>7
<1>4. CASE run[r].phase = "group" /\ ~ (run[r].attempt + 1 < MaxCommitAttempts)
  <2>1. AfterConflict(r) = GroupFailed(r, "replan")
    BY <1>4 DEF AfterConflict
  <2> QED BY <1>4, <2>1, GroupFailedOK
<1> QED BY <1>1, <1>2, <1>3, <1>4

-----------------------------------------------------------------------------
(* What an offer makes of the table it was derived from *)

(* The outputs of an offer are newer than everything in the view, under     *)
(* fresh paths, and hold rows of the data files it removes.                 *)
Outputs(added, removed, seq, n, m) ==
    /\ added \in SUBSET File
    /\ \A f \in added : f.kind = "data" /\ f.seq = seq + 1
    /\ \A f \in added : n <= f.path.name /\ f.path.name < m
    /\ \A f, g \in added : f.path = g.path => f = g
    /\ \A f, g \in added : f # g => f.rows \cap g.rows = {}
    /\ \A f \in added : \A r \in f.rows : \E g \in DataFiles(removed) : r \in g.rows

LEMMA OfferFollows ==
    ASSUME NEW t \in Table, NEW n \in Nat, NEW m \in Nat, n <= m,
           Fits(t.live, t.seq, n),
           NEW removed \in SUBSET t.live, NEW added, Outputs(added, removed, t.seq, n, m),
           \A d \in DeleteFiles(removed) : \A f \in DataFiles(t.live) \ removed : ~Applies(d, f),
           KeepsRows(t.live, RewriteFiles(t.live, removed, added)),
           NEW q, q.seq = t.seq + 1, q.live = RewriteFiles(t.live, removed, added)
    PROVE  Follows(q, t, m)
<1> DEFINE kept == t.live \ removed
<1>1. q.live = kept \cup added
  BY DEF RewriteFiles, CarriedForward
<1>2. t.live \in SUBSET File /\ t.seq \in Nat /\ added \in SUBSET File
  BY DEF Table, Outputs
<1>3. \A f \in File : f.seq \in Nat /\ f.path.name \in Nat /\ f.path \in Path
  BY DEF File, Path
<1>4. \A f \in t.live : f.seq <= t.seq /\ f.path.name < n
  BY DEF Fits
<1>5. \A f \in added : f.kind = "data" /\ f.seq = t.seq + 1 /\ n <= f.path.name /\ f.path.name < m
  BY DEF Outputs
<1>6. \A f \in t.live, g \in added : f.path # g.path
  BY <1>2, <1>3, <1>4, <1>5
<1>7. \A f \in q.live : f.seq <= q.seq /\ f.path.name < m
  BY <1>1, <1>2, <1>3, <1>4, <1>5
<1>8. \A f, g \in q.live : f.path = g.path => f = g
  BY <1>1, <1>6 DEF Fits, Outputs
<1>9. \A f, g \in DataFiles(q.live) : f # g => f.rows \cap g.rows = {}
  <2>1. ASSUME NEW f \in DataFiles(kept), NEW g \in added PROVE f.rows \cap g.rows = {}
    <3>1. f \in DataFiles(t.live) /\ f \notin removed
      BY DEF DataFiles
    <3>2. \A h \in DataFiles(removed) : h \in DataFiles(t.live) /\ h # f
      BY <3>1 DEF DataFiles
    <3>3. \A h \in DataFiles(removed) : f.rows \cap h.rows = {}
      BY <3>1, <3>2 DEF Fits
    <3> QED BY <3>3 DEF Outputs
  <2>2. ASSUME NEW f \in DataFiles(kept), NEW g \in DataFiles(kept), f # g PROVE f.rows \cap g.rows = {}
    BY <2>2 DEF Fits, DataFiles
  <2>3. DataFiles(q.live) = DataFiles(kept) \cup added
    BY <1>1, <1>5 DEF DataFiles
  <2> QED BY <2>1, <2>2, <2>3 DEF Outputs
<1>10. Fits(q.live, q.seq, m)
  BY <1>7, <1>8, <1>9 DEF Fits
<1>11. \A f \in t.live, g \in q.live : f.path = g.path => f = g
  BY <1>1, <1>6 DEF Fits
<1>12. ASSUME NEW d \in DeleteFiles(t.live) \ q.live, NEW f \in DataFiles(q.live)
       PROVE  ~Applies(d, f)
  <2>1. d \in DeleteFiles(removed)
    BY <1>1, <1>12 DEF DeleteFiles
  <2>2. CASE f \in added
    <3>1. d.seq \in Nat /\ d.seq <= t.seq /\ f.seq = t.seq + 1
      BY <1>2, <1>3, <1>4, <1>5, <2>1, <2>2 DEF DeleteFiles
    <3> QED BY <1>2, <3>1 DEF Applies
  <2>3. CASE f \notin added
    BY <1>1, <1>12, <2>1, <2>3 DEF DataFiles
  <2> QED BY <2>2, <2>3
<1> QED BY <1>10, <1>11, <1>12 DEF Follows

(* Making an offer keeps the invariant of its run and of its request. *)
LEMMA OfferOK ==
    ASSUME IInv, NEW r \in Replicas, run[r].pc \in {"rewrite", "dangling"},
           NEW view \in Table, Current(view, table),
           NEW removed, NEW added, NEW names \in Nat,
           removed \in SUBSET view.live,
           Outputs(added, removed, view.seq, nextName, nextName + names),
           \A d \in DeleteFiles(removed) : \A f \in DataFiles(view.live) \ removed : ~Applies(d, f),
           (view.live = table.live /\ view.seq = table.seq)
             => KeepsRows(view.live, RewriteFiles(view.live, removed, added)),
           Offer(r, view, removed, added, names)
    PROVE  IInv'
<1> DEFINE q == [owner |-> r, turn |-> run[r].turn, snap |-> nextName + names, base |-> view.head,
                 seq |-> NextSequence(view), live |-> RewriteFiles(view.live, removed, added)]
           rec == [run[r] EXCEPT !.pc = "await", !.request = q, !.current = NoView]
           n == nextName + names + 1
<1>1. /\ run' = [run EXCEPT ![r] = rec] /\ inflight' = inflight \cup {q}
      /\ nextName' = n /\ UNCHANGED <<table, edits, evolutions>>
  BY DEF Offer, Become
<1>2. /\ table \in Table /\ table.head \in Nat /\ table.head > 0 /\ table.head < nextName
      /\ nextName \in Nat /\ n \in Nat /\ nextName <= n /\ table.head < n
      /\ view.head \in Nat /\ view.seq \in Nat /\ view.live \in SUBSET File /\ run[r] \in Run
  BY DEF IInv, Table
<1>3. q \in Request
  BY <1>2 DEF Request, NextSequence, RewriteFiles, CarriedForward, Outputs, Run
<1>4. RequestOK(q, table, n)
  <2>1. q.base = view.head /\ q.snap = nextName + names
    OBVIOUS
  <2>2. q.base <= table.head /\ q.base < q.snap /\ q.snap < n
    BY <1>2, <2>1 DEF Current
  <2>3. ASSUME q.base = table.head PROVE Follows(q, table, n)
    <3>1. view.live = table.live /\ view.seq = table.seq
      BY <2>1, <2>3 DEF Current
    <3>2. q.seq = table.seq + 1 /\ q.live = RewriteFiles(table.live, removed, added)
      BY <3>1 DEF NextSequence
    <3>3. Fits(table.live, table.seq, nextName)
          /\ KeepsRows(table.live, RewriteFiles(table.live, removed, added))
      BY <3>1 DEF IInv
    <3>4. Outputs(added, removed, table.seq, nextName, n)
      <4>1. \A f \in added : f.path.name \in Nat
        BY DEF Outputs, File, Path
      <4> QED BY <1>2, <3>1, <4>1 DEF Outputs
    <3> HIDE DEF q
    <3> QED BY <1>2, <3>1, <3>2, <3>3, <3>4, OfferFollows
  <2> QED BY <2>2, <2>3 DEF RequestOK
<1>5. RunOK(r, rec, table, n)
  <2>1. NoView \in Table /\ Current(NoView, table)
    BY <1>2, NoViewIsCurrent
  <2>2. q.owner = r /\ q.turn = run[r].turn
    OBVIOUS
  <2> HIDE DEF q
  <2>3. rec \in Run
    BY <1>2, <1>3, <2>1 DEF Run
  <2>4. /\ rec.pc = "await" /\ rec.phase = run[r].phase /\ rec.fails = run[r].fails
        /\ rec.state = run[r].state /\ rec.current = NoView /\ rec.request = q
        /\ rec.turn = run[r].turn /\ rec.landed = run[r].landed /\ rec.result = run[r].result
        /\ rec.rewrote = run[r].rewrote /\ rec.dropped = run[r].dropped
    BY <1>2 DEF Run
  <2> HIDE DEF rec
  <2>5. RunOK(r, run[r], table, nextName)
    BY DEF IInv
  <2>6. Phased(r, rec)
    BY <2>2, <2>4, <2>5 DEF RunOK, Phased
  <2> QED BY <1>4, <2>1, <2>3, <2>4, <2>5, <2>6 DEF RunOK
<1> HIDE DEF q, rec
<1>6. ASSUME NEW o \in Replicas PROVE RunOK(o, run'[o], table', nextName')
  <2>1. RunOK(o, run[o], table, n)
    BY <1>2, RunAges DEF IInv, Advances
  <2>2. CASE o = r
    BY <1>1, <1>5, <2>2 DEF IInv
  <2>3. CASE o # r
    BY <1>1, <2>1, <2>3 DEF IInv
  <2> QED BY <2>2, <2>3
<1>7. \A p \in inflight : RequestOK(p, table, n)
  BY <1>2, RequestAges DEF IInv, Advances
<1>8. Fits(table.live, table.seq, n)
  BY <1>2, FitsMonotone DEF IInv, Table
<1>9. run' \in [Replicas -> Run]
  BY <1>1, <1>5 DEF IInv, RunOK
<1>10. table' \in Table /\ table'.head \in 1 .. nextName' - 1
  BY <1>1, <1>2
<1>11. inflight' \subseteq Request /\ \A p \in inflight' : RequestOK(p, table', nextName')
  BY <1>1, <1>3, <1>4, <1>7 DEF IInv
<1> QED BY <1>1, <1>2, <1>6, <1>8, <1>9, <1>10, <1>11 DEF IInv

-----------------------------------------------------------------------------
(* The invariant is inductive *)

(* A step of one run that touches nothing else. *)
LEMMA RunMoves ==
    ASSUME IInv, NEW r \in Replicas, NEW rec, RunOK(r, rec, table, nextName),
           Become(r, rec), Elsewhere
    PROVE  IInv'
<1>1. run' \in [Replicas -> Run]
  BY DEF IInv, Become, RunOK
<1>2. \A o \in Replicas : RunOK(o, run'[o], table, nextName)
  BY DEF IInv, Become
<1> QED BY <1>1, <1>2 DEF IInv, Elsewhere

LEMMA IInvFacts ==
    ASSUME IInv, NEW r \in Replicas
    PROVE  /\ table \in Table /\ table.head \in Nat /\ table.head > 0 /\ nextName \in Nat
           /\ run[r] \in Run /\ RunOK(r, run[r], table, nextName)
BY DEF IInv, Table

(* The outputs of a rewritten group are fresh data files of rows it read. *)
LEMMA RewriteOutputs ==
    ASSUME NEW view \in Table, NEW files \in SUBSET DataFiles(view.live),
           NEW part \in Partition, NEW retired \in SUBSET DeleteFiles(view.live),
           NEW persisted \in SUBSET Survivors(files, view.live),
           NEW first \in SUBSET persisted, NEW size \in {"small", "target"},
           NEW n \in Nat,
           NEW added,
           added = Output(n, part, view, size, first)
                     \cup Output(n + 1, part, view, size, persisted \ first)
    PROVE  Outputs(added, files \cup retired, view.seq, n, n + 2)
<1> DEFINE one == DataFile(n, part, NextSequence(view), size, first)
           two == DataFile(n + 1, part, NextSequence(view), size, persisted \ first)
<1>1. view.seq \in Nat /\ view.live \in SUBSET File
  BY DEF Table
<1>2. \A r \in persisted : \E g \in files : r \in g.rows
  BY DEF Survivors, Surviving
<1>3. persisted \in SUBSET Rows
  BY <1>1, <1>2 DEF File, DataFiles
<1>4. one \in File /\ two \in File
  BY <1>1, <1>3 DEF DataFile, File, Path, Sizes, NextSequence
<1>5. added \in SUBSET {one, two}
  BY DEF Output
<1>6. /\ one.kind = "data" /\ one.seq = view.seq + 1 /\ one.path.name = n /\ one.rows = first
      /\ two.kind = "data" /\ two.seq = view.seq + 1 /\ two.path.name = n + 1
      /\ two.rows = persisted \ first
  BY DEF DataFile, NextSequence
<1> HIDE DEF one, two
<1>7. one.path # two.path
  BY <1>6
<1>8. files \subseteq DataFiles(files \cup retired)
  BY DEF DataFiles
<1>8a. \A f \in added : f = one \/ f = two
  BY <1>5
<1>9. \A f \in added : f.kind = "data" /\ f.seq = view.seq + 1 /\ n <= f.path.name /\ f.path.name < n + 2
  <2>1. n <= n /\ n < n + 2 /\ n <= n + 1 /\ n + 1 < n + 2
    OBVIOUS
  <2> SUFFICES ASSUME NEW f \in added
               PROVE  f.kind = "data" /\ f.seq = view.seq + 1 /\ n <= f.path.name /\ f.path.name < n + 2
    OBVIOUS
  <2>2. CASE f = one
    BY <1>6, <2>1, <2>2, Zenon
  <2>3. CASE f = two
    BY <1>6, <2>1, <2>3, Zenon
  <2> QED BY <1>8a, <2>2, <2>3, Zenon
<1>10. \A f, g \in added : f.path = g.path => f = g
  BY <1>7, <1>8a, Zenon
<1>11. \A f, g \in added : f # g => f.rows \cap g.rows = {}
  BY <1>5, <1>6
<1>12. \A f \in added : f.rows \subseteq persisted
  BY <1>5, <1>6
<1>13. \A f \in added : \A r \in f.rows : \E g \in DataFiles(files \cup retired) : r \in g.rows
  BY <1>2, <1>8, <1>12
<1> QED BY <1>4, <1>5, <1>9, <1>10, <1>11, <1>13 DEF Outputs

LEMMA RewriteOnceStep ==
    ASSUME IInv, NEW r \in Replicas, RewriteOnce(r)
    PROVE  IInv'
<1> DEFINE view == run[r].current
           files == Tasks(view, run[r].group)
           part == OutputPartition(files, view)
           retired == Retirable(files, view.live)
           added(first, persisted, size) ==
              Output(nextName, part, view, size, first)
                \cup Output(nextName + 1, part, view, size, persisted \ first)
<1>1. view \in Table /\ Current(view, table) /\ nextName \in Nat /\ view.live \in SUBSET File
  BY IInvFacts DEF RunOK, Run, Table
<1>2. files \in SUBSET DataFiles(view.live) /\ retired \in SUBSET DeleteFiles(view.live)
  BY DEF Tasks, Retirable
<1>3. part \in Partition
  <2>1. \E f \in files : TRUE
    BY DEF RewriteOnce, WorthRewriting
  <2>2. (CHOOSE f \in files : TRUE) \in files
    BY <2>1
  <2>3. \A f \in files : f.path.part.tuple \in Tuples
    BY <1>1, <1>2 DEF DataFiles, File, Path, Partition
  <2>4. view.spec \in Specs
    BY <1>1 DEF Table
  <2> HIDE DEF files, view
  <2>5. (CHOOSE f \in files : TRUE).path.part.tuple \in Tuples
    BY <2>2, <2>3
  <2> QED BY <2>4, <2>5, FilesAssumption DEF OutputPartition, Partition
<1>4. PICK streamed \in SUBSET Survivors(files, view.live) :
        \E persisted \in SUBSET streamed : \E first \in SUBSET persisted, size \in {"small", "target"} :
           RowCountsAgree(files, view.live, streamed, persisted)
             /\ Offer(r, view, files \cup retired, added(first, persisted, size), 2)
  BY Zenon DEF RewriteOnce
<1>5. PICK persisted \in SUBSET streamed :
        \E first \in SUBSET persisted, size \in {"small", "target"} :
           RowCountsAgree(files, view.live, streamed, persisted)
             /\ Offer(r, view, files \cup retired, added(first, persisted, size), 2)
  BY <1>4, Zenon
<1>6. PICK first \in SUBSET persisted, size \in {"small", "target"} :
         RowCountsAgree(files, view.live, streamed, persisted)
           /\ Offer(r, view, files \cup retired, added(first, persisted, size), 2)
  BY <1>5, Zenon
<1>7. run[r].pc = "rewrite" /\ persisted \in SUBSET Survivors(files, view.live)
  BY DEF RewriteOnce
<1> HIDE DEF view, files, part, retired
<1>8. Outputs(added(first, persisted, size), files \cup retired, view.seq, nextName, nextName + 2)
  BY <1>1, <1>2, <1>3, <1>7, RewriteOutputs
<1>9. files \cup retired \in SUBSET view.live
  BY <1>2 DEF DataFiles, DeleteFiles
<1>10. \A d \in DeleteFiles(files \cup retired) : \A f \in DataFiles(view.live) \ (files \cup retired) :
         ~Applies(d, f)
  BY <1>2 DEF DataFiles, DeleteFiles, DeleteKinds, Retirable, retired
<1>11. Offer(r, view, files \cup retired, added(first, persisted, size), 2)
       /\ RowCountsAgree(files, view.live, streamed, persisted)
  BY <1>6
<1>12. \A x : (\E f \in added(first, persisted, size) : x \in f.rows) <=> x \in persisted
  <2>1. \A x : (\E f \in Output(nextName, part, view, size, first) : x \in f.rows) <=> x \in first
    BY OutputRows
  <2> DEFINE rest == persisted \ first
  <2>2. \A x : x \in rest <=> x \in persisted /\ x \notin first
    OBVIOUS
  <2>3. added(first, persisted, size)
          = Output(nextName, part, view, size, first) \cup Output(nextName + 1, part, view, size, rest)
    OBVIOUS
  <2> HIDE DEF rest, added
  <2>4. \A x : (\E f \in Output(nextName + 1, part, view, size, rest) : x \in f.rows) <=> x \in rest
    BY OutputRows
  <2> QED BY <2>1, <2>2, <2>3, <2>4
<1> HIDE DEF added
<1>13. ASSUME view.live = table.live, view.seq = table.seq
       PROVE  KeepsRows(view.live, RewriteFiles(view.live, files \cup retired, added(first, persisted, size)))
  <2>1. view.seq \in Nat /\ \A f \in view.live : f.seq <= view.seq
    BY <1>1, <1>13 DEF IInv, Fits, Table
  <2>2. added(first, persisted, size) \in SUBSET File
        /\ \A f \in added(first, persisted, size) : f.kind = "data" /\ f.seq = view.seq + 1
    BY <1>8 DEF Outputs
  <2> QED BY <1>1, <1>2, <1>11, <1>12, <2>1, <2>2, RewriteKeepsRows DEF retired
<1> QED BY <1>1, <1>7, <1>8, <1>9, <1>10, <1>11, <1>13, OfferOK

LEMMA DropDanglingStep ==
    ASSUME IInv, NEW r \in Replicas, DropDangling(r)
    PROVE  IInv'
<1> DEFINE dangling == DanglingDeleteFiles(table.live)
<1>1. table \in Table /\ table.head > 0 /\ nextName \in Nat /\ run[r] \in Run
      /\ RunOK(r, run[r], table, nextName) /\ run[r].pc = "dangling"
  BY IInvFacts DEF DropDangling
<1>2. CASE Become(r, Reported(r, run[r])) /\ Elsewhere
  <2>1. RunOK(r, Reported(r, run[r]), table, nextName)
    BY <1>1, ReportedOK DEF RunOK, Phased
  <2> QED BY <1>2, <2>1, RunMoves
<1>3. CASE Offer(r, table, dangling, {}, 0)
  <2>1. dangling \in SUBSET table.live
    BY DEF DanglingDeleteFiles, DeleteFiles
  <2>2. Outputs({}, dangling, table.seq, nextName, nextName + 0)
    BY DEF Outputs
  <2>3. \A d \in DeleteFiles(dangling) : \A f \in DataFiles(table.live) \ dangling : ~Applies(d, f)
    BY DEF DanglingDeleteFiles, StillApplied, DeleteFiles
  <2>4. Current(table, table)
    BY <1>1 DEF Current, Table
  <2>5. KeepsRows(table.live, RewriteFiles(table.live, dangling, {}))
    <3>1. table.live \in SUBSET File /\ table.seq \in Nat /\ \A f \in table.live : f.seq <= table.seq
      BY DEF IInv, Fits, Table
    <3>2. Visible(RewriteFiles(table.live, dangling, {})) = Visible(table.live)
      BY <3>1, DanglingKeepsVisible
    <3> QED BY <3>2 DEF KeepsRows, RowsSeen
  <2> HIDE DEF dangling
  <2> QED BY <1>1, <1>3, <2>1, <2>2, <2>3, <2>4, <2>5, OfferOK
<1>4. CASE Become(r, AfterError(r)) /\ Elsewhere
  BY <1>1, <1>4, AfterErrorOK, RunMoves
<1> QED BY <1>2, <1>3, <1>4 DEF DropDangling

(* A commit of somebody else leaves every run and request as behind as it was. *)
LEMMA CommitOK ==
    ASSUME IInv, edits < MaxEdits, NEW live \in SUBSET File, NEW names \in Nat,
           Fits(live, table.seq + 1, nextName + names + 1), ForegroundCommit(live, names)
    PROVE  IInv'
<1> DEFINE n == nextName + names + 1
<1>1. /\ table' = [table EXCEPT !.head = nextName, !.seq = @ + 1, !.live = live]
      /\ nextName' = n /\ edits' = edits + 1 /\ UNCHANGED <<inflight, run, evolutions>>
  BY DEF ForegroundCommit
<1>2. /\ table \in Table /\ table.head \in Nat /\ table.head < nextName /\ table.seq \in Nat
      /\ nextName \in Nat /\ n \in Nat /\ nextName < n /\ nextName > 0
  BY DEF IInv, Table
<1>3. table' \in Table /\ table'.head = nextName /\ table'.seq = table.seq + 1 /\ table'.live = live
  <2>1. table.seq + 1 \in Nat /\ table' = [table EXCEPT !.head = nextName, !.seq = table.seq + 1, !.live = live]
    BY <1>1, <1>2
  <2> DEFINE next == table.seq + 1
  <2> HIDE DEF next
  <2>2. next \in Nat /\ table' = [table EXCEPT !.head = nextName, !.seq = next, !.live = live]
    BY <2>1 DEF next
  <2>3. table' \in Table /\ table'.head = nextName /\ table'.seq = next /\ table'.live = live
    BY <1>2, <2>2 DEF Table
  <2> QED BY <2>3 DEF next
<1>4. Advances(table, table')
  BY <1>2, <1>3 DEF Advances
<1>5. \A r \in Replicas : RunOK(r, run[r], table', n)
  BY <1>2, <1>3, <1>4, RunAges DEF IInv
<1>6. \A q \in inflight : RequestOK(q, table', n)
  BY <1>2, <1>3, <1>4, RequestAges DEF IInv
<1>7. edits' \in 0 .. MaxEdits
  BY <1>1, CompactionAssumption DEF IInv
<1> QED BY <1>1, <1>2, <1>3, <1>5, <1>6, <1>7 DEF IInv

LEMMA WriteStep ==
    ASSUME IInv, edits < MaxEdits, NEW tuple \in Tuples, NEW keys \in SUBSET Keys,
           NEW rows \in SUBSET Rows, Write(tuple, keys, rows)
    PROVE  IInv'
<1> DEFINE part == [spec |-> table.spec, tuple |-> tuple]
           seq == table.seq + 1
           eq == EqualityDelete(nextName + 1, part, seq, keys)
           data == DataFile(nextName + 2, part, seq, "small", rows)
           live == table.live
                     \cup (IF keys = {} THEN {} ELSE {eq}) \cup (IF rows = {} THEN {} ELSE {data})
<1>1. table \in Table /\ table.seq \in Nat /\ nextName \in Nat /\ Fits(table.live, table.seq, nextName)
  BY DEF IInv, Table
<1>2. part \in Partition
  BY <1>1 DEF Table, Partition
<1>3. eq \in File /\ data \in File
  BY <1>1, <1>2 DEF EqualityDelete, DataFile, File, Path, Sizes, DeleteKinds
<1>4. /\ eq.seq = seq /\ eq.path.name = nextName + 1 /\ eq.kind = "equality"
      /\ data.seq = seq /\ data.path.name = nextName + 2 /\ data.rows = rows
  BY DEF EqualityDelete, DataFile
<1>5. \A f \in DataFiles(table.live) : f.rows \cap rows = {}
  BY DEF Write, FreshRows
<1>6. ForegroundCommit(live, 2)
  BY DEF Write, NextSequence
<1> HIDE DEF eq, data, part
<1>7. \A f \in table.live : f.seq \in Nat /\ f.path.name \in Nat /\ f.seq <= seq /\ f.path.name < nextName
  BY <1>1 DEF Table, File, Path, Fits
<1>8. \A f \in live : f \in table.live \/ f = eq \/ f = data
  OBVIOUS
<1>9. live \in SUBSET File
  BY <1>1, <1>3 DEF Table
<1>10. DataFiles(live) \subseteq DataFiles(table.live) \cup {data}
  BY <1>4, <1>8 DEF DataFiles
<1> HIDE DEF live
<1>11. Fits(live, seq, nextName + 2 + 1)
  <2>1. \A f \in live : f.seq <= seq /\ f.path.name < nextName + 2 + 1
    BY <1>1, <1>4, <1>7, <1>8
  <2>2. \A f, g \in live : f.path = g.path => f = g
    BY <1>1, <1>4, <1>7, <1>8 DEF Fits
  <2>3. \A f, g \in DataFiles(live) : f # g => f.rows \cap g.rows = {}
    BY <1>1, <1>4, <1>5, <1>10 DEF Fits
  <2> QED BY <2>1, <2>2, <2>3 DEF Fits
<1> QED BY <1>6, <1>9, <1>11, CommitOK

LEMMA MarkRowsStep ==
    ASSUME IInv, edits < MaxEdits, NEW part \in Partition, NEW rows \in SUBSET Rows,
           MarkRows(part, rows)
    PROVE  IInv'
<1> DEFINE seq == table.seq + 1
           at == {f.path : f \in {g \in DataFiles(table.live) : g.path.part = part /\ g.rows \cap rows # {}}}
           pos == PositionDelete(nextName + 1, part, seq, at, rows)
           live == table.live \cup {pos}
<1>1. table \in Table /\ table.seq \in Nat /\ nextName \in Nat /\ Fits(table.live, table.seq, nextName)
  BY DEF IInv, Table
<1>2. pos \in File
  <2>1. at \in SUBSET Path
    BY <1>1 DEF Table, DataFiles, File
  <2> HIDE DEF at
  <2> QED BY <1>1, <2>1 DEF PositionDelete, File, Path, Sizes, DeleteKinds
<1>3. pos.seq = seq /\ pos.path.name = nextName + 1 /\ pos.kind = "position"
  BY DEF PositionDelete
<1>4. ForegroundCommit(live, 1)
  BY DEF MarkRows, NextSequence
<1> HIDE DEF pos
<1>5. \A f \in table.live : f.seq \in Nat /\ f.path.name \in Nat /\ f.seq <= seq /\ f.path.name < nextName
  BY <1>1 DEF Table, File, Path, Fits
<1>6. DataFiles(live) = DataFiles(table.live)
  BY <1>3 DEF DataFiles
<1>7. Fits(live, seq, nextName + 1 + 1)
  <2>1. \A f \in live : f.seq <= seq /\ f.path.name < nextName + 1 + 1
    BY <1>1, <1>3, <1>5
  <2>2. \A f, g \in live : f.path = g.path => f = g
    BY <1>1, <1>3, <1>5 DEF Fits
  <2> QED BY <1>1, <1>6, <2>1, <2>2 DEF Fits
<1> QED BY <1>1, <1>2, <1>4, <1>7, CommitOK DEF Table

LEMMA DropFileStep ==
    ASSUME IInv, edits < MaxEdits, NEW f, DropFile(f)
    PROVE  IInv'
<1> DEFINE live == table.live \ {f}
<1>1. table \in Table /\ table.seq \in Nat /\ nextName \in Nat /\ Fits(table.live, table.seq, nextName)
  BY DEF IInv, Table
<1>2. \A g \in live : g.seq \in Nat /\ g.path.name \in Nat
  BY <1>1 DEF Table, File, Path
<1>3. Fits(live, table.seq + 1, nextName + 0 + 1)
  BY <1>1, <1>2 DEF Fits, DataFiles
<1>4. ForegroundCommit(live, 0)
  BY DEF DropFile
<1> QED BY <1>1, <1>3, <1>4, CommitOK DEF Table

LEMMA EvolveSpecStep ==
    ASSUME IInv, NEW s \in Specs, EvolveSpec(s)
    PROVE  IInv'
<1>1. /\ table' = [table EXCEPT !.spec = s] /\ evolutions' = evolutions + 1
      /\ UNCHANGED <<inflight, run, nextName, edits>>
  BY DEF EvolveSpec
<1>2. table \in Table /\ nextName \in Nat
  BY DEF IInv
<1>3. table' \in Table /\ table'.head = table.head /\ table'.seq = table.seq /\ table'.live = table.live
  BY <1>1, <1>2 DEF Table
<1>4. Advances(table, table')
  BY <1>3 DEF Advances
<1>5. \A r \in Replicas : RunOK(r, run[r], table', nextName)
  BY <1>2, <1>3, <1>4, RunAges DEF IInv, Table
<1>6. \A q \in inflight : RequestOK(q, table', nextName)
  BY <1>2, <1>3, <1>4, RequestAges DEF IInv
<1>7. evolutions' \in 0 .. MaxEvolutions
  BY <1>1, CompactionAssumption DEF IInv, EvolveSpec
<1> QED BY <1>1, <1>3, <1>5, <1>6, <1>7 DEF IInv

LEMMA InstallStep ==
    ASSUME IInv, NEW q \in inflight, Install(q)
    PROVE  IInv'
<1> DEFINE o == q.owner
           rec == IF run[o].pc # "idle" /\ run[o].turn = q.turn
                    THEN [run[o] EXCEPT !.landed = @ \cup {q.snap}] ELSE run[o]
<1>1. q \in Request /\ o \in Replicas /\ RequestOK(q, table, nextName) /\ q.base = table.head
  BY DEF IInv, Install, Request
<1>2. /\ table \in Table /\ table.head \in Nat /\ table.head > 0 /\ table.seq \in Nat
      /\ nextName \in Nat /\ run[o] \in Run /\ RunOK(o, run[o], table, nextName)
  BY <1>1, IInvFacts DEF Table
<1>3. Follows(q, table, nextName) /\ q.snap \in Nat /\ q.snap > table.head /\ q.snap < nextName
      /\ q.seq \in Nat /\ q.live \in SUBSET File
  BY <1>1, <1>2 DEF RequestOK, Request
<1>4. /\ table' = [table EXCEPT !.head = q.snap, !.seq = q.seq, !.live = q.live]
      /\ inflight' = inflight \ {q} /\ UNCHANGED <<nextName, edits, evolutions>>
  BY DEF Install
<1>5. table' \in Table /\ table'.head = q.snap /\ table'.seq = q.seq /\ table'.live = q.live
  BY <1>2, <1>3, <1>4 DEF Table
<1>6. Advances(table, table') /\ table'.head > 0
  BY <1>2, <1>3, <1>5 DEF Advances
<1>7. Fits(table'.live, table'.seq, nextName)
  BY <1>3, <1>5 DEF Follows
<1>8. \A r \in Replicas : RunOK(r, run[r], table', nextName)
  BY <1>2, <1>5, <1>6, RunAges DEF IInv
<1>9. RunOK(o, rec, table', nextName)
  BY <1>1, <1>2, <1>3, <1>8, LandedOK, <1>5
<1>10. ASSUME Awaits(q) PROVE RunOK(o, AfterCommit(o, rec), table', nextName)
  <2>1. run[o].pc = "await" /\ run[o].turn = q.turn
    BY <1>1, <1>2, <1>10 DEF Awaits, RunOK, Phased
  <2>2. rec.pc = "await" /\ rec.landed # {}
    BY <1>2, <1>3, <2>1, LandedOK
  <2> HIDE DEF rec
  <2> QED BY <1>1, <1>2, <1>5, <1>6, <1>9, <2>2, AfterCommitOK
<1>11. PICK new : run' = [run EXCEPT ![o] = new] /\ RunOK(o, new, table', nextName)
  <2>1. CASE Become(o, rec)
    BY <1>9, <2>1 DEF Become
  <2>2. CASE Awaits(q) /\ Become(o, AfterCommit(o, rec))
    BY <1>10, <2>2 DEF Become
  <2> HIDE DEF rec
  <2> QED BY <2>1, <2>2 DEF Install, rec
<1>12. run' \in [Replicas -> Run] /\ \A r \in Replicas : RunOK(r, run'[r], table', nextName)
  BY <1>8, <1>11 DEF IInv, RunOK
<1>13. \A p \in inflight : RequestOK(p, table', nextName)
  BY <1>2, <1>5, <1>6, RequestAges DEF IInv
<1> QED BY <1>3, <1>4, <1>5, <1>6, <1>7, <1>12, <1>13 DEF IInv

LEMMA RejectStep ==
    ASSUME IInv, NEW q \in inflight, Reject(q)
    PROVE  IInv'
<1>1. q.owner \in Replicas /\ RunOK(q.owner, run[q.owner], table, nextName)
      /\ table \in Table /\ table.head > 0 /\ nextName \in Nat
  BY IInvFacts DEF IInv, Request
<1>2. inflight' \subseteq inflight /\ UNCHANGED <<table, nextName, edits, evolutions>>
  BY DEF Reject
<1>3. ASSUME Awaits(q), Become(q.owner, AfterConflict(q.owner))
      PROVE  run' \in [Replicas -> Run] /\ \A r \in Replicas : RunOK(r, run'[r], table, nextName)
  <2>1. RunOK(q.owner, AfterConflict(q.owner), table, nextName)
    BY <1>1, <1>3, AfterConflictOK DEF Awaits
  <2> QED BY <1>1, <1>3, <2>1 DEF Become, IInv, RunOK
<1>4. run' \in [Replicas -> Run] /\ \A r \in Replicas : RunOK(r, run'[r], table, nextName)
  BY <1>3 DEF Reject, IInv
<1> QED BY <1>2, <1>4 DEF IInv

LEMMA PackInside ==
    ASSUME NEW files
    PROVE  Pack(files) \subseteq SUBSET files
BY DEF Pack

LEMMA BuildGroupsType ==
    ASSUME NEW view \in Table, NEW partitions
    PROVE  BuildGroups(view, partitions) \in SUBSET SUBSET Path
<1> DEFINE eligible(p) == {f \in DataFiles(view.live) : f.path.part = p /\ IsEligible(f, view.live)}
           groups(p) == {{f.path : f \in c} :
                           c \in {k \in Pack(eligible(p)) : WorthRewriting(k, view.live)}}
<1>1. \A f \in DataFiles(view.live) : f.path \in Path
  BY DEF Table, DataFiles, File
<1>2. ASSUME NEW p PROVE groups(p) \subseteq SUBSET Path
  <2>1. \A c \in Pack(eligible(p)) : c \subseteq DataFiles(view.live)
    BY PackInside
  <2>2. groups(p) = {{f.path : f \in c} :
                       c \in {k \in Pack(eligible(p)) : WorthRewriting(k, view.live)}}
    OBVIOUS
  <2> HIDE DEF groups, eligible
  <2>3. ASSUME NEW g \in groups(p) PROVE g \in SUBSET Path
    <3>1. PICK c \in Pack(eligible(p)) : g = {f.path : f \in c}
      BY <2>2
    <3> QED BY <1>1, <2>1, <3>1
  <2> QED BY <2>3
<1>3. BuildGroups(view, partitions) = UNION {groups(p) : p \in {q \in partitions : q.spec = view.spec}}
  BY DEF BuildGroups
<1> HIDE DEF groups
<1> QED BY <1>2, <1>3

LEMMA BeginStep ==
    ASSUME IInv, NEW r \in Replicas, Begin(r)
    PROVE  IInv'
<1> DEFINE idle == IdleRun(r, run[r].turn + 1, "none", {}, {})
<1>1. /\ table \in Table /\ table.head > 0 /\ nextName \in Nat /\ run[r].turn + 1 \in Nat
  BY IInvFacts DEF Run
<1>2. PICK partitions : Become(r, [idle EXCEPT !.pc = "choose", !.state = table,
                                               !.groups = BuildGroups(table, partitions)])
  BY DEF Begin
<1> DEFINE groups == BuildGroups(table, partitions)
           rec == [idle EXCEPT !.pc = "choose", !.state = table, !.groups = groups]
<1>3. groups \in SUBSET SUBSET Path
  BY <1>1, BuildGroupsType
<1>4. RunOK(r, idle, table, nextName) /\ idle.phase = "group"
  BY <1>1, IdleRunOK DEF IdleRun, Results
<1> HIDE DEF idle, groups
<1>5. rec \in Run
  BY <1>1, <1>3, <1>4 DEF RunOK, Run
<1>6. /\ rec.pc = "choose" /\ rec.phase = "group" /\ rec.state = table /\ rec.current = idle.current
      /\ rec.rewrote = idle.rewrote /\ rec.dropped = idle.dropped
      /\ rec.landed = idle.landed /\ rec.result = idle.result
  BY <1>4 DEF RunOK, Run
<1> HIDE DEF rec
<1>7. RunOK(r, rec, table, nextName)
  BY <1>1, <1>4, <1>5, <1>6 DEF RunOK, Phased, Current, Table
<1> QED BY <1>2, <1>7, RunMoves DEF Begin, rec, groups

(* A step that moves a run between groups, and the views it may take. *)
LEMMA Turns ==
    ASSUME IInv, NEW r \in Replicas, NEW rec \in Run,
           rec.pc \in {"choose", "rewrite", "dangling"},
           rec.phase = (IF rec.pc = "dangling" THEN "dangling" ELSE "group"),
           rec.pc = "rewrite" => rec.fails < MaxGroupFailures,
           rec.state \in {run[r].state, table, NoView},
           rec.current \in {run[r].current, run[r].state, table},
           rec.rewrote = run[r].rewrote, rec.dropped = run[r].dropped,
           rec.landed = run[r].landed, rec.result = run[r].result,
           Become(r, rec), Elsewhere
    PROVE  IInv'
<1>1. /\ table \in Table /\ table.head > 0 /\ RunOK(r, run[r], table, nextName)
  BY IInvFacts
<1>2. Current(table, table) /\ Current(NoView, table)
  BY <1>1, NoViewIsCurrent DEF Current, Table
<1>3. Current(rec.state, table) /\ Current(rec.current, table)
  BY <1>1, <1>2 DEF RunOK
<1>4. Phased(r, rec)
  BY <1>1 DEF RunOK, Phased
<1>5. RunOK(r, rec, table, nextName)
  BY <1>3, <1>4 DEF RunOK
<1> QED BY <1>5, RunMoves

LEMMA ChooseGroupStep ==
    ASSUME IInv, NEW r \in Replicas, ChooseGroup(r)
    PROVE  IInv'
<1>1. run[r] \in Run /\ RunOK(r, run[r], table, nextName) /\ run[r].pc = "choose"
  BY IInvFacts DEF ChooseGroup
<1>2. PICK g \in run[r].groups :
        Become(r, [run[r] EXCEPT !.pc = "rewrite", !.group = g, !.groups = @ \ {g},
                                 !.current = run[r].state])
  BY DEF ChooseGroup
<1> DEFINE rec == [run[r] EXCEPT !.pc = "rewrite", !.group = g, !.groups = @ \ {g},
                                 !.current = run[r].state]
<1>3. g \in SUBSET Path /\ run[r].groups \ {g} \in SUBSET SUBSET Path
  BY <1>1 DEF Run
<1>4. rec \in Run
  BY <1>1, <1>3 DEF Run
<1>5. /\ rec.pc = "rewrite" /\ rec.phase = run[r].phase /\ rec.fails = run[r].fails
      /\ rec.state = run[r].state /\ rec.current = run[r].state
      /\ rec.rewrote = run[r].rewrote /\ rec.dropped = run[r].dropped
      /\ rec.landed = run[r].landed /\ rec.result = run[r].result
  BY <1>1 DEF Run
<1>6. rec.phase = "group" /\ rec.fails < MaxGroupFailures
  BY <1>1, <1>5 DEF ChooseGroup, RunOK, Phased
<1>7. Become(r, rec) /\ Elsewhere
  BY <1>2 DEF ChooseGroup
<1> HIDE DEF rec
<1> QED BY <1>4, <1>5, <1>6, <1>7, Turns

LEMMA GroupsDoneStep ==
    ASSUME IInv, NEW r \in Replicas, GroupsDone(r)
    PROVE  IInv'
<1> DEFINE rec == [run[r] EXCEPT !.pc = "dangling", !.phase = "dangling", !.groups = {},
                                 !.state = NoView]
<1>1. run[r] \in Run /\ NoView \in Table
  BY IInvFacts, NoViewIsCurrent
<1>2. rec \in Run
  BY <1>1 DEF Run
<1>3. /\ rec.pc = "dangling" /\ rec.phase = "dangling"
      /\ rec.state = NoView /\ rec.current = run[r].current
      /\ rec.rewrote = run[r].rewrote /\ rec.dropped = run[r].dropped
      /\ rec.landed = run[r].landed /\ rec.result = run[r].result
  BY <1>1 DEF Run
<1>4. Become(r, rec) /\ Elsewhere
  BY DEF GroupsDone
<1> HIDE DEF rec
<1> QED BY <1>2, <1>3, <1>4, Turns

LEMMA ReloadStep ==
    ASSUME IInv, NEW r \in Replicas, Reload(r)
    PROVE  IInv'
<1>1. /\ run[r] \in Run /\ RunOK(r, run[r], table, nextName) /\ table \in Table /\ table.head > 0
      /\ nextName \in Nat /\ run[r].pc = "reload" /\ run[r].phase = "group"
  BY IInvFacts DEF Reload, RunOK, Phased
<1>2. CASE Become(r, [run[r] EXCEPT !.pc = "rewrite", !.current = table])
  <2> DEFINE rec == [run[r] EXCEPT !.pc = "rewrite", !.current = table]
  <2>1. rec \in Run
    BY <1>1 DEF Run
  <2>2. /\ rec.pc = "rewrite" /\ rec.phase = run[r].phase /\ rec.fails = run[r].fails
        /\ rec.state = run[r].state /\ rec.current = table
        /\ rec.rewrote = run[r].rewrote /\ rec.dropped = run[r].dropped
        /\ rec.landed = run[r].landed /\ rec.result = run[r].result
    BY <1>1 DEF Run
  <2>3. rec.phase = "group" /\ rec.fails < MaxGroupFailures
    BY <1>1, <2>2 DEF RunOK, Phased
  <2>4. Become(r, rec) /\ Elsewhere
    BY <1>2 DEF Reload
  <2> HIDE DEF rec
  <2> QED BY <2>1, <2>2, <2>3, <2>4, Turns
<1>3. CASE Become(r, GroupFailed(r, "error"))
  <2>1. RunOK(r, GroupFailed(r, "error"), table, nextName)
    BY <1>1, GroupFailedOK
  <2> QED BY <1>3, <2>1, RunMoves DEF Reload
<1> QED BY <1>2, <1>3 DEF Reload

LEMMA RefreshStep ==
    ASSUME IInv, NEW r \in Replicas, Refresh(r)
    PROVE  IInv'
<1>1. /\ run[r] \in Run /\ table \in Table /\ table.head > 0
      /\ run[r].pc = "refresh" /\ run[r].phase = "group" /\ NoView \in Table
  BY IInvFacts, NoViewIsCurrent DEF Refresh, RunOK, Phased
<1>2. CASE Become(r, [run[r] EXCEPT !.pc = "choose", !.state = table])
  <2> DEFINE rec == [run[r] EXCEPT !.pc = "choose", !.state = table]
  <2>1. rec \in Run
    BY <1>1 DEF Run
  <2>2. /\ rec.pc = "choose" /\ rec.phase = "group"
        /\ rec.state = table /\ rec.current = run[r].current
        /\ rec.rewrote = run[r].rewrote /\ rec.dropped = run[r].dropped
        /\ rec.landed = run[r].landed /\ rec.result = run[r].result
    BY <1>1 DEF Run
  <2>3. Become(r, rec) /\ Elsewhere
    BY <1>2 DEF Refresh
  <2> HIDE DEF rec
  <2> QED BY <2>1, <2>2, <2>3, Turns
<1>3. CASE Become(r, [run[r] EXCEPT !.pc = "dangling", !.phase = "dangling", !.groups = {},
                                    !.state = NoView, !.skipped = @ \cup {"error"}])
  <2> DEFINE rec == [run[r] EXCEPT !.pc = "dangling", !.phase = "dangling", !.groups = {},
                                   !.state = NoView, !.skipped = @ \cup {"error"}]
  <2>1. run[r].skipped \cup {"error"} \in SUBSET {"replan", "error"}
    BY <1>1 DEF Run
  <2>2. rec \in Run
    BY <1>1, <2>1 DEF Run
  <2>3. /\ rec.pc = "dangling" /\ rec.phase = "dangling"
        /\ rec.state = NoView /\ rec.current = run[r].current
        /\ rec.rewrote = run[r].rewrote /\ rec.dropped = run[r].dropped
        /\ rec.landed = run[r].landed /\ rec.result = run[r].result
    BY <1>1 DEF Run
  <2>4. Become(r, rec) /\ Elsewhere
    BY <1>3 DEF Refresh
  <2> HIDE DEF rec
  <2> QED BY <2>2, <2>3, <2>4, Turns
<1> QED BY <1>2, <1>3 DEF Refresh

(* Sending the same request again adds nothing the catalog did not have. *)
LEMMA ResendStep ==
    ASSUME IInv, NEW r \in Replicas, Resend(r)
    PROVE  IInv'
<1> DEFINE rec == [run[r] EXCEPT !.resends = @ + 1]
<1>1. run[r] \in Run /\ RunOK(r, run[r], table, nextName) /\ run[r].pc = "await"
      /\ run[r].resends < MaxResends
  BY IInvFacts DEF Resend
<1>2. run[r].request \in Request /\ RequestOK(run[r].request, table, nextName)
  BY <1>1 DEF RunOK, Run
<1>3. run[r].resends + 1 \in 0 .. MaxResends
  BY <1>1, CompactionAssumption DEF Run
<1>4. rec \in Run
  BY <1>1, <1>3 DEF Run
<1>5. /\ rec.pc = run[r].pc /\ rec.phase = run[r].phase /\ rec.fails = run[r].fails
      /\ rec.state = run[r].state /\ rec.current = run[r].current /\ rec.request = run[r].request
      /\ rec.rewrote = run[r].rewrote /\ rec.dropped = run[r].dropped /\ rec.turn = run[r].turn
      /\ rec.landed = run[r].landed /\ rec.result = run[r].result
  BY <1>1 DEF Run
<1>6. Become(r, rec) /\ inflight' = inflight \cup {run[r].request}
      /\ UNCHANGED <<table, nextName, edits, evolutions>>
  BY DEF Resend
<1> HIDE DEF rec
<1>7. RunOK(r, rec, table, nextName)
  BY <1>1, <1>4, <1>5 DEF RunOK, Phased
<1>8. run' \in [Replicas -> Run] /\ \A o \in Replicas : RunOK(o, run'[o], table, nextName)
  BY <1>4, <1>6, <1>7 DEF IInv, Become
<1>9. inflight' \subseteq Request /\ \A q \in inflight' : RequestOK(q, table, nextName)
  BY <1>2, <1>6 DEF IInv
<1> QED BY <1>6, <1>8, <1>9 DEF IInv

LEMMA GiveUpStep ==
    ASSUME IInv, NEW r \in Replicas, GiveUp(r)
    PROVE  IInv'
<1>1. RunOK(r, AfterError(r), table, nextName)
  BY IInvFacts, AfterErrorOK DEF GiveUp
<1>2. run' \in [Replicas -> Run] /\ \A o \in Replicas : RunOK(o, run'[o], table, nextName)
  BY <1>1 DEF IInv, Become, GiveUp, RunOK
<1>3. inflight' \subseteq inflight /\ UNCHANGED <<table, nextName, edits, evolutions>>
  BY DEF GiveUp
<1> QED BY <1>2, <1>3 DEF IInv

(* Whatever a run declines, abandons or loses with its process is idle again. *)
LEMMA StopsStep ==
    ASSUME IInv, NEW r \in Replicas, Decline(r) \/ Crash(r)
    PROVE  IInv'
<1>1. /\ table \in Table /\ table.head > 0 /\ nextName \in Nat
      /\ run[r].turn \in Nat /\ run[r].turn + 1 \in Nat
  BY IInvFacts DEF Run
<1>2. CASE Decline(r)
  <2>1. PICK result \in {"refused", "failed"} :
          Become(r, IdleRun(r, run[r].turn + 1, result, {}, {})) /\ Elsewhere
    BY <1>2 DEF Decline
  <2>2. RunOK(r, IdleRun(r, run[r].turn + 1, result, {}, {}), table, nextName)
    BY <1>1, IdleRunOK DEF Results
  <2> QED BY <2>1, <2>2, RunMoves
<1>3. CASE Crash(r)
  <2>1. RunOK(r, IdleRun(r, run[r].turn, "crashed", {}, {}), table, nextName)
    BY <1>1, IdleRunOK DEF Results
  <2> QED BY <1>3, <2>1, RunMoves DEF Crash
<1> QED BY <1>2, <1>3

LEMMA RunStepOK ==
    ASSUME IInv, NEW r \in Replicas, RunStep(r)
    PROVE  IInv'
<1>1. table \in Table /\ table.head > 0 /\ nextName \in Nat /\ RunOK(r, run[r], table, nextName)
  BY IInvFacts
<1>2. CASE NothingLeft(r)
  <2>1. RunOK(r, NextGroup(r, run[r]), table, nextName)
    BY <1>1, <1>2, NextGroupOK DEF NothingLeft, RunOK, Phased
  <2> QED BY <1>2, <2>1, RunMoves DEF NothingLeft
<1>3. CASE RewriteFails(r)
  <2>1. RunOK(r, GroupFailed(r, "error"), table, nextName)
    BY <1>1, <1>3, GroupFailedOK DEF RewriteFails, RunOK, Phased
  <2> QED BY <1>3, <2>1, RunMoves DEF RewriteFails
<1> QED BY <1>2, <1>3, ChooseGroupStep, GroupsDoneStep, RewriteOnceStep, ReloadStep, RefreshStep,
           DropDanglingStep, ResendStep, GiveUpStep DEF RunStep

LEMMA InitOK == Init => IInv
<1> SUFFICES ASSUME Init PROVE IInv
  OBVIOUS
<1>1. Cardinality(Seed) \in Nat
  BY CompactionAssumption, FS_CardinalityType
<1>2. table \in Table /\ table.head \in 1 .. nextName - 1 /\ nextName \in Nat /\ table.head > 0
  BY <1>1, CompactionAssumption DEF Init, Table, WellFormed
<1>3. Fits(table.live, table.seq, nextName)
  BY <1>1, CompactionAssumption DEF Init, Fits, WellFormed
<1>4. \A r \in Replicas : RunOK(r, run[r], table, nextName)
  <2> TAKE r \in Replicas
  <2>1. run[r] = IdleRun(r, 0, "none", {}, {})
    BY DEF Init
  <2> QED BY <1>2, <2>1, IdleRunOK DEF Results
<1>5. run \in [Replicas -> Run]
  BY <1>4 DEF Init, RunOK
<1>6. inflight = {} /\ edits \in 0 .. MaxEdits /\ evolutions \in 0 .. MaxEvolutions
  BY CompactionAssumption DEF Init
<1> QED BY <1>2, <1>3, <1>4, <1>5, <1>6 DEF IInv

LEMMA NextOK == IInv /\ [Next]_vars => IInv'
<1> SUFFICES ASSUME IInv, [Next]_vars PROVE IInv'
  OBVIOUS
<1>1. CASE UNCHANGED vars
  BY <1>1 DEF vars, IInv
<1>2. ASSUME NEW r \in Replicas, Decline(r) \/ Begin(r) \/ RunStep(r) \/ Crash(r) PROVE IInv'
  BY <1>2, StopsStep, BeginStep, RunStepOK
<1>3. ASSUME NEW q \in inflight, Install(q) \/ Reject(q) PROVE IInv'
  BY <1>3, InstallStep, RejectStep
<1>4. CASE Foreground
  BY <1>4, WriteStep, MarkRowsStep, DropFileStep, EvolveSpecStep DEF Foreground
<1> QED BY <1>1, <1>2, <1>3, <1>4 DEF Next

LEMMA InvariantHolds == Spec => []IInv
BY InitOK, NextOK, PTL DEF Spec

-----------------------------------------------------------------------------
(* Theorems *)

(* Every variable holds a value of its kind: counters and indices of a run  *)
(* stay within the limits its loops are written for.                        *)
THEOREM TypeCorrect == Spec => []TypeOK
<1>1. IInv => TypeOK
  BY DEF IInv, TypeOK
<1> QED BY <1>1, InvariantHolds, PTL

(* No two live data files ever hold the same row, however many replicas     *)
(* compact the table and however late or often their requests are served.   *)
THEOREM NothingInstalledTwice == Spec => []NoRowTwice
<1>1. IInv => NoRowTwice
  BY DEF IInv, NoRowTwice, Fits
<1> QED BY <1>1, InvariantHolds, PTL

(* A run that reports success has changed the table. *)
THEOREM SuccessesAreReal == Spec => []SuccessIsReal
<1>1. IInv => SuccessIsReal
  BY DEF IInv, SuccessIsReal, RunOK, Phased
<1> QED BY <1>1, InvariantHolds, PTL

(* The scan's and the sequence numbers' idea of a dangling delete file      *)
(* agree in every state the table can be in.                                *)
THEOREM DerivationsAlwaysAgree == Spec => []DerivationsAgree
<1>1. IInv => DerivationsAgree
  <2> SUFFICES ASSUME IInv, NEW d \in DeleteFiles(table.live)
               PROVE  d \notin StillApplied(table.live) <=> DeadBySequence(d, table.live)
    BY DEF DerivationsAgree
  <2>1. table.live \in SUBSET File
    BY DEF IInv, Table
  <2> QED BY <2>1, DeadIsUnapplied
<1> QED BY <1>1, InvariantHolds, PTL

(* What a step makes of the live files: nothing, what a request that follows *)
(* the table asked for, or an edit that keeps every file it does not drop.   *)
LEMMA TableSteps ==
    ASSUME IInv, [Next]_vars
    PROVE  \/ table'.live = table.live
           \/ \E q \in Request : Follows(q, table, nextName) /\ table'.live = q.live
           \/ edits' # edits /\ \A f \in table.live, g \in table'.live : f.path = g.path => f = g
<1>1. ASSUME NEW q \in inflight, Install(q)
      PROVE  Follows(q, table, nextName) /\ table'.live = q.live /\ q \in Request
  BY <1>1 DEF Install, IInv, RequestOK, Table
<1>2. ASSUME NEW live, NEW names \in Nat, ForegroundCommit(live, names),
             \A f \in table.live, g \in live : f.path = g.path => f = g
      PROVE  edits' # edits /\ \A f \in table.live, g \in table'.live : f.path = g.path => f = g
  BY <1>2 DEF ForegroundCommit, IInv, Table
<1>3. \A f, g \in table.live : f.path = g.path => f = g
  BY DEF IInv, Fits
<1>4. \A f \in table.live : f.path.name \in Nat /\ nextName \in Nat /\ f.path.name < nextName
  BY DEF IInv, Fits, Table, File, Path
<1>5. ASSUME NEW tuple \in Tuples, NEW keys \in SUBSET Keys, NEW rows \in SUBSET Rows, Write(tuple, keys, rows)
      PROVE  edits' # edits /\ \A f \in table.live, g \in table'.live : f.path = g.path => f = g
  <2> DEFINE part == [spec |-> table.spec, tuple |-> tuple]
             eq == EqualityDelete(nextName + 1, part, NextSequence(table), keys)
             data == DataFile(nextName + 2, part, NextSequence(table), "small", rows)
             live == table.live
                       \cup (IF keys = {} THEN {} ELSE {eq}) \cup (IF rows = {} THEN {} ELSE {data})
  <2>1. ForegroundCommit(live, 2)
    BY <1>5 DEF Write
  <2>2. eq.path.name = nextName + 1 /\ data.path.name = nextName + 2
    BY DEF EqualityDelete, DataFile
  <2> HIDE DEF eq, data
  <2>3. \A f \in table.live, g \in live : f.path = g.path => f = g
    BY <1>3, <1>4, <2>2
  <2> HIDE DEF live
  <2> QED BY <1>2, <2>1, <2>3
<1>6. ASSUME NEW part \in Partition, NEW rows \in SUBSET Rows, MarkRows(part, rows)
      PROVE  edits' # edits /\ \A f \in table.live, g \in table'.live : f.path = g.path => f = g
  <2>1. PICK at : ForegroundCommit(table.live \cup {PositionDelete(nextName + 1, part, NextSequence(table), at, rows)}, 1)
    BY <1>6 DEF MarkRows
  <2> DEFINE pos == PositionDelete(nextName + 1, part, NextSequence(table), at, rows)
             live == table.live \cup {pos}
  <2>2. pos.path.name = nextName + 1
    BY DEF PositionDelete
  <2> HIDE DEF pos
  <2>3. \A f \in table.live, g \in live : f.path = g.path => f = g
    BY <1>3, <1>4, <2>2
  <2> QED BY <1>2, <2>1, <2>3 DEF pos
<1>7. ASSUME NEW f, DropFile(f)
      PROVE  edits' # edits /\ \A e \in table.live, g \in table'.live : e.path = g.path => e = g
  BY <1>2, <1>3, <1>7 DEF DropFile
<1>8. ASSUME NEW s, EvolveSpec(s) PROVE table'.live = table.live
  BY <1>8 DEF EvolveSpec, IInv, Table
<1>9. ASSUME NEW r \in Replicas, Decline(r) \/ Begin(r) \/ RunStep(r) \/ Crash(r)
      PROVE  table' = table
  BY <1>9 DEF Decline, Begin, RunStep, Crash, Elsewhere, ChooseGroup, GroupsDone, NothingLeft,
              RewriteOnce, RewriteFails, Reload, Refresh, DropDangling, Resend, GiveUp, Offer
<1>10. ASSUME NEW q \in inflight, Reject(q) PROVE table' = table
  BY <1>10 DEF Reject
<1> QED BY <1>1, <1>5, <1>6, <1>7, <1>8, <1>9, <1>10 DEF Next, Foreground, vars

(* No commit of a run drops a delete file that still applies to a data file *)
(* of the snapshot it produces.                                             *)
THEOREM RetirementIsSafe == Spec => RetiredDeletesApplyNowhere
<1> DEFINE Retires == edits' = edits =>
                        \A d \in DeleteFiles(table.live) \ table.live' :
                           \A f \in DataFiles(table.live') : ~Applies(d, f)
<1>1. IInv /\ [Next]_vars => [Retires]_vars
  <2> SUFFICES ASSUME IInv, [Next]_vars, edits' = edits
               PROVE  \A d \in DeleteFiles(table.live) \ table.live' :
                         \A f \in DataFiles(table.live') : ~Applies(d, f)
    OBVIOUS
  <2>1. CASE table'.live = table.live
    BY <2>1 DEF DeleteFiles
  <2>2. ASSUME NEW q \in Request, Follows(q, table, nextName), table'.live = q.live
        PROVE  \A d \in DeleteFiles(table.live) \ table.live' :
                  \A f \in DataFiles(table.live') : ~Applies(d, f)
    BY <2>2 DEF Follows
  <2> QED BY <2>1, <2>2, TableSteps
<1> QED BY <1>1, InvariantHolds, PTL DEF Spec, RetiredDeletesApplyNowhere

(* Whatever the pipeline between reading and writing loses, and whatever    *)
(* happens to specs and other commits meanwhile: rows never leave the table *)
(* unseen, because the counts are compared on both sides                    *)
(* (compact/mod.rs:801-854).                                                *)
THEOREM LossIsCaught == Spec => LostRowsAreCaught
<1> DEFINE Caught == (edits' = edits /\ \A f \in DataFiles(table.live) \ table.live' : DeletesOf(f, table.live) = {})
                        => RowsSeen(table.live) = RowsSeen(table.live')
<1>1. IInv /\ [Next]_vars => [Caught]_vars
  <2> SUFFICES ASSUME IInv, [Next]_vars, edits' = edits,
                      \A f \in DataFiles(table.live) \ table.live' : DeletesOf(f, table.live) = {}
               PROVE  RowsSeen(table.live) = RowsSeen(table.live')
    OBVIOUS
  <2>1. CASE table'.live = table.live
    BY <2>1
  <2>2. ASSUME NEW q \in Request, Follows(q, table, nextName), table'.live = q.live
        PROVE  RowsSeen(table.live) = RowsSeen(table.live')
    BY <2>2 DEF Follows, KeepsRows
  <2> QED BY <2>1, <2>2, TableSteps
<1> QED BY <1>1, InvariantHolds, PTL DEF Spec, LostRowsAreCaught

(* No commit makes a file it keeps look newer than the deletes on it, or    *)
(* changes anything else about it.                                          *)
THEOREM NothingRestamped == Spec => CarriedFilesUnchanged
<1> DEFINE Keeps == \A f \in table.live, g \in table.live' : f.path = g.path => f = g
<1>1. IInv /\ [Next]_vars => [Keeps]_vars
  <2> SUFFICES ASSUME IInv, [Next]_vars
               PROVE  \A f \in table.live, g \in table.live' : f.path = g.path => f = g
    OBVIOUS
  <2>1. CASE table'.live = table.live
    BY <2>1 DEF IInv, Fits
  <2>2. ASSUME NEW q \in Request, Follows(q, table, nextName), table'.live = q.live
        PROVE  \A f \in table.live, g \in table.live' : f.path = g.path => f = g
    BY <2>2 DEF Follows
  <2> QED BY <2>1, <2>2, TableSteps
<1> QED BY <1>1, InvariantHolds, PTL DEF Spec, CarriedFilesUnchanged

-----------------------------------------------------------------------------
(* Compaction is invisible to readers: where the default partition spec     *)
(* does not change and no row is lost between reading and writing, every    *)
(* behaviour of any number of runs, replicas, re-sends and crashes is one   *)
(* the table's readers were promised (RowTable).  The argument adds to the  *)
(* invariant above that a request which can still be installed shows        *)
(* readers exactly what the table does, and that every group of a run lies  *)
(* in one partition.                                                        *)

Filed(p) == Unpartitioned(p.spec) => p.tuple = NoTuple

(* A request that is not behind the head changes nothing readers see. *)
Harmless(q, t) ==
    q.base = t.head => /\ Visible(q.live) = Visible(t.live)
                       /\ \A f \in q.live : Filed(f.path.part)

InOnePartition(g) ==
    \E p \in Partition : /\ p.spec = SeedSpec /\ Filed(p)
                         /\ \A path \in g : path.part = p

(* A run's views are under the one default spec, its groups in one partition. *)
RunFiled(rec, t) ==
    /\ rec.state.spec = SeedSpec /\ rec.current.spec = SeedSpec
    /\ \A g \in rec.groups \cup {rec.group} : InOnePartition(g)
    /\ rec.pc = "await" => Harmless(rec.request, t)

VInv ==
    /\ table.spec = SeedSpec
    /\ \A f \in table.live : Filed(f.path.part)
    /\ \A r \in Replicas : RunFiled(run[r], table)
    /\ \A q \in inflight : Harmless(q, table)

-----------------------------------------------------------------------------
(* What a run carries from step to step *)

(* The views and groups of "new" are of "rec", or of the table. *)
Carries(new, rec, t) ==
    /\ new.state \in {rec.state, t, NoView}
    /\ new.current \in {rec.current, rec.state, t, NoView}
    /\ new.groups \subseteq rec.groups
    /\ new.group \in rec.groups \cup {rec.group, {}}
    /\ new.pc = "await" => rec.pc = "await" /\ new.request = rec.request

LEMMA NothingIsFiled == InOnePartition({})
<1> DEFINE p == [spec |-> SeedSpec, tuple |-> NoTuple]
<1>1. p \in Partition /\ p.spec = SeedSpec /\ Filed(p)
  BY FilesAssumption, CompactionAssumption DEF Partition, Filed
<1> QED BY <1>1 DEF InOnePartition

LEMMA CarriesFiled ==
    ASSUME NEW t, t.spec = SeedSpec, NEW rec, RunFiled(rec, t), NEW new, Carries(new, rec, t)
    PROVE  RunFiled(new, t)
<1>1. NoView.spec = SeedSpec
  BY DEF NoView
<1>2. new.state.spec = SeedSpec /\ new.current.spec = SeedSpec
  BY <1>1 DEF Carries, RunFiled
<1>3. \A g \in new.groups \cup {new.group} : InOnePartition(g)
  BY NothingIsFiled DEF Carries, RunFiled
<1> QED BY <1>2, <1>3 DEF Carries, RunFiled

LEMMA IdleCarries ==
    ASSUME NEW r, NEW turn, NEW result, NEW skipped, NEW landed, NEW rec, NEW t
    PROVE  Carries(IdleRun(r, turn, result, skipped, landed), rec, t)
BY DEF Carries, IdleRun

LEMMA ReportedCarries ==
    ASSUME NEW r, NEW x, NEW rec, NEW t
    PROVE  Carries(Reported(r, x), rec, t)
BY IdleCarries DEF Reported

LEMMA NextGroupCarries ==
    ASSUME NEW r \in Replicas, NEW rec \in Run, NEW t
    PROVE  Carries(NextGroup(r, rec), rec, t)
<1> DEFINE new == NextGroup(r, rec)
<1>1. /\ new.state = rec.state /\ new.current = NoView /\ new.groups = rec.groups
      /\ new.group = {} /\ new.pc = "choose"
  BY DEF NextGroup, Run
<1> QED BY <1>1 DEF Carries

LEMMA GroupFailedCarries ==
    ASSUME NEW r \in Replicas, run[r] \in Run, NEW why, NEW t
    PROVE  Carries(GroupFailed(r, why), run[r], t)
<1> DEFINE new == GroupFailed(r, why)
<1>1. /\ new.state = run[r].state /\ new.current = NoView /\ new.groups = run[r].groups
      /\ new.group = {} /\ new.pc = "choose"
  BY DEF GroupFailed, NextGroup, Run
<1> QED BY <1>1 DEF Carries

LEMMA AfterCommitCarries ==
    ASSUME NEW r \in Replicas, NEW rec \in Run, NEW t
    PROVE  Carries(AfterCommit(r, rec), rec, t)
<1> DEFINE new == AfterCommit(r, rec)
<1>1. CASE rec.phase = "group"
  <2>1. /\ new.state = rec.state /\ new.current = NoView /\ new.groups = rec.groups
        /\ new.group = {} /\ new.pc = "refresh"
    BY <1>1 DEF AfterCommit, NextGroup, Run
  <2> QED BY <2>1 DEF Carries
<1>2. CASE rec.phase # "group"
  BY <1>2, ReportedCarries DEF AfterCommit
<1> QED BY <1>1, <1>2

LEMMA AfterErrorCarries ==
    ASSUME NEW r \in Replicas, run[r] \in Run, NEW t
    PROVE  Carries(AfterError(r), run[r], t)
BY GroupFailedCarries, ReportedCarries DEF AfterError

LEMMA AfterConflictCarries ==
    ASSUME NEW r \in Replicas, run[r] \in Run, NEW t
    PROVE  Carries(AfterConflict(r), run[r], t)
<1>1. CASE run[r].phase = "dangling"
  BY <1>1, ReportedCarries DEF AfterConflict
<1>2. CASE run[r].phase = "group" /\ run[r].attempt + 1 < MaxCommitAttempts
  <2> DEFINE new == AfterConflict(r)
  <2>1. new = [run[r] EXCEPT !.pc = "reload", !.attempt = @ + 1, !.resends = 0,
                             !.request = NoRequest(r), !.current = NoView]
    BY <1>2 DEF AfterConflict
  <2>2. /\ new.state = run[r].state /\ new.current = NoView /\ new.groups = run[r].groups
        /\ new.group = run[r].group /\ new.pc = "reload"
    BY <2>1 DEF Run
  <2> QED BY <2>2 DEF Carries
<1>3. CASE run[r].phase = "group" /\ ~ (run[r].attempt + 1 < MaxCommitAttempts)
  <2>1. AfterConflict(r) = GroupFailed(r, "replan")
    BY <1>3 DEF AfterConflict
  <2> QED BY <2>1, GroupFailedCarries
<1>4. run[r].phase \in {"group", "dangling"}
  BY DEF Run
<1> QED BY <1>1, <1>2, <1>3, <1>4

-----------------------------------------------------------------------------
(* Steps that keep the invariant *)

LEMMA HarmlessAges ==
    ASSUME NEW t \in Table, NEW u \in Table, Advances(t, u),
           NEW n \in Nat, NEW q \in Request, RequestOK(q, t, n), Harmless(q, t)
    PROVE  Harmless(q, u)
<1>1. q.base \in Nat /\ t.head \in Nat /\ u.head \in Nat
  BY DEF Request, Table
<1> QED BY <1>1 DEF Harmless, Advances, RequestOK

LEMMA FiledAges ==
    ASSUME NEW t \in Table, NEW u \in Table, Advances(t, u), NEW n \in Nat,
           NEW r, NEW rec, RunOK(r, rec, t, n), RunFiled(rec, t)
    PROVE  RunFiled(rec, u)
<1>1. rec.request \in Request
  BY DEF RunOK, Run
<1> QED BY <1>1, HarmlessAges DEF RunFiled, RunOK

(* A step of one run that carries its views and groups over. *)
LEMMA RunCarries ==
    ASSUME IInv, VInv, NEW r \in Replicas, NEW rec, Carries(rec, run[r], table),
           Become(r, rec), UNCHANGED table, \A q \in inflight' : Harmless(q, table)
    PROVE  VInv'
<1>1. RunFiled(rec, table)
  BY CarriesFiled DEF VInv
<1>2. \A o \in Replicas : RunFiled(run'[o], table)
  BY <1>1 DEF VInv, IInv, Become
<1> QED BY <1>2 DEF VInv

(* An offer that changes nothing readers see, where it can be installed. *)
LEMMA OfferFiled ==
    ASSUME IInv, VInv, NEW r \in Replicas,
           NEW view \in Table, Current(view, table), NEW removed, NEW added, NEW names \in Nat,
           Offer(r, view, removed, added, names),
           (view.live = table.live /\ view.seq = table.seq)
             => /\ Visible(RewriteFiles(view.live, removed, added)) = Visible(table.live)
                /\ \A f \in RewriteFiles(view.live, removed, added) : Filed(f.path.part)
    PROVE  VInv'
<1> DEFINE q == [owner |-> r, turn |-> run[r].turn, snap |-> nextName + names, base |-> view.head,
                 seq |-> NextSequence(view), live |-> RewriteFiles(view.live, removed, added)]
           rec == [run[r] EXCEPT !.pc = "await", !.request = q, !.current = NoView]
<1>1. run' = [run EXCEPT ![r] = rec] /\ inflight' = inflight \cup {q} /\ UNCHANGED table
  BY DEF Offer, Become
<1>2. Harmless(q, table)
  BY DEF Harmless, Current
<1>3. run[r] \in Run
  BY DEF IInv
<1> HIDE DEF q
<1>4. /\ rec.state = run[r].state /\ rec.current = NoView /\ rec.groups = run[r].groups
      /\ rec.group = run[r].group /\ rec.request = q
  BY <1>3 DEF Run
<1> HIDE DEF rec
<1>5. RunFiled(rec, table)
  BY <1>2, <1>4 DEF RunFiled, VInv, NoView
<1>6. \A o \in Replicas : RunFiled(run'[o], table)
  BY <1>1, <1>5 DEF VInv, IInv
<1> QED BY <1>1, <1>2, <1>6 DEF VInv

LEMMA DropDanglingFiled ==
    ASSUME IInv, VInv, NEW r \in Replicas, Offer(r, table, DanglingDeleteFiles(table.live), {}, 0)
    PROVE  VInv'
<1> DEFINE dangling == DanglingDeleteFiles(table.live)
<1>1. /\ table \in Table /\ table.live \in SUBSET File /\ table.seq \in Nat
      /\ \A f \in table.live : f.seq <= table.seq
  BY DEF IInv, Table, Fits
<1>2. Visible(RewriteFiles(table.live, dangling, {})) = Visible(table.live)
  BY <1>1, DanglingKeepsVisible
<1>3. \A f \in RewriteFiles(table.live, dangling, {}) : Filed(f.path.part)
  BY DEF VInv, RewriteFiles, CarriedForward
<1>4. Current(table, table)
  BY <1>1 DEF Current, Table
<1>5. Offer(r, table, dangling, {}, 0)
  OBVIOUS
<1> HIDE DEF dangling
<1> QED BY <1>1, <1>2, <1>3, <1>4, <1>5, OfferFiled

(* The partition a group's outputs are written under is the group's own.    *)
LEMMA OutputPartitionIsShared ==
    ASSUME NEW view \in Table, view.spec = SeedSpec, NEW files, files # {},
           NEW p \in Partition, p.spec = SeedSpec, Filed(p), \A f \in files : f.path.part = p
    PROVE  OutputPartition(files, view) = p
<1>1. p = [spec |-> p.spec, tuple |-> p.tuple]
  BY DEF Partition
<1>2. (CHOOSE f \in files : TRUE) \in files
  OBVIOUS
<1>3. (CHOOSE f \in files : TRUE).path.part = p
  BY <1>2
<1>4. OutputPartition(files, view)
        = [spec |-> SeedSpec,
           tuple |-> IF Unpartitioned(SeedSpec) THEN NoTuple
                     ELSE (CHOOSE f \in files : TRUE).path.part.tuple]
  BY DEF OutputPartition
<1>5. CASE Unpartitioned(SeedSpec)
  BY <1>1, <1>4, <1>5 DEF Filed
<1>6. CASE ~Unpartitioned(SeedSpec)
  BY <1>1, <1>3, <1>4, <1>6
<1> QED BY <1>5, <1>6

LEMMA RewriteOnceFiled ==
    ASSUME ~LossyPipeline, IInv, VInv, NEW r \in Replicas, RewriteOnce(r)
    PROVE  VInv'
<1> DEFINE view == run[r].current
           files == Tasks(view, run[r].group)
           part == OutputPartition(files, view)
           retired == Retirable(files, view.live)
           survivors == Survivors(files, view.live)
           added(first, persisted, size) ==
              Output(nextName, part, view, size, first)
                \cup Output(nextName + 1, part, view, size, persisted \ first)
<1>1. view \in Table /\ Current(view, table) /\ nextName \in Nat /\ view.live \in SUBSET File
      /\ view.seq \in Nat /\ view.spec = SeedSpec
  BY IInvFacts DEF RunOK, Run, Table, VInv, RunFiled
<1>2. files \in SUBSET DataFiles(view.live) /\ retired \in SUBSET DeleteFiles(view.live)
      /\ files # {} /\ \A f \in files : f.path \in run[r].group
  BY DEF Tasks, Retirable, RewriteOnce, WorthRewriting
<1>3. PICK p \in Partition : p.spec = SeedSpec /\ Filed(p) /\ \A f \in files : f.path.part = p
  BY <1>2 DEF VInv, RunFiled, InOnePartition
<1>4. part = p
  BY <1>1, <1>2, <1>3, OutputPartitionIsShared
<1>5. PICK streamed \in SUBSET survivors :
        \E persisted \in SUBSET streamed : \E first \in SUBSET persisted, size \in {"small", "target"} :
           Streams(survivors, streamed, persisted)
           /\ Offer(r, view, files \cup retired, added(first, persisted, size), 2)
  BY Zenon DEF RewriteOnce
<1>6. PICK persisted \in SUBSET streamed :
        \E first \in SUBSET persisted, size \in {"small", "target"} :
           Streams(survivors, streamed, persisted)
           /\ Offer(r, view, files \cup retired, added(first, persisted, size), 2)
  BY <1>5, Zenon
<1>7. PICK first \in SUBSET persisted, size \in {"small", "target"} :
         Streams(survivors, streamed, persisted)
         /\ Offer(r, view, files \cup retired, added(first, persisted, size), 2)
  BY <1>6, Zenon
<1> DEFINE new == added(first, persisted, size)
<1>8. persisted = survivors
  BY <1>7 DEF Streams
<1> HIDE DEF view, files, part, retired
<1>9. Outputs(new, files \cup retired, view.seq, nextName, nextName + 2)
  BY <1>1, <1>2, <1>4, <1>8, RewriteOutputs
<1>10. \A f \in new : f.path.part = p
  BY <1>4 DEF Output, DataFile
<1>11. \A x : (\E f \in new : x \in f.rows) <=> x \in persisted
  <2> DEFINE one == Output(nextName, part, view, size, first)
             two == Output(nextName + 1, part, view, size, persisted \ first)
  <2>1. \A x : (\E f \in one : x \in f.rows) <=> x \in first
    BY OutputRows
  <2>2. \A x : (\E f \in two : x \in f.rows) <=> x \in persisted \ first
    <3> DEFINE rest == persisted \ first
               name == nextName + 1
    <3> HIDE DEF rest, name
    <3>1. \A x : (\E f \in Output(name, part, view, size, rest) : x \in f.rows) <=> x \in rest
      BY OutputRows
    <3> QED BY <3>1 DEF rest, name
  <2>3. new = one \cup two /\ first \subseteq persisted
    OBVIOUS
  <2> HIDE DEF one, two, new
  <2> QED BY <2>1, <2>2, <2>3
<1> HIDE DEF new
<1>12. ASSUME view.live = table.live, view.seq = table.seq
       PROVE  /\ Visible(RewriteFiles(view.live, files \cup retired, new)) = Visible(table.live)
              /\ \A f \in RewriteFiles(view.live, files \cup retired, new) : Filed(f.path.part)
  <2>1. \A f \in view.live : f.seq <= view.seq
    BY <1>12 DEF IInv, Fits
  <2>2. \A d \in retired : \A f \in DataFiles(view.live) \ files : ~Applies(d, f)
    BY DEF retired, Retirable
  <2>3. new \subseteq File /\ \A f \in new : f.kind = "data" /\ f.seq > view.seq /\ f.path.part = p
    BY <1>1, <1>9, <1>10 DEF Outputs
  <2>4. \A x : (\E f \in new : x \in f.rows) <=> (\E f \in files : x \in Surviving(f, view.live))
    BY <1>8, <1>11 DEF Survivors
  <2>5. Rewrites(view.live, view.seq, files, p, retired, new)
    BY <1>2, <1>3, <2>1, <2>2, <2>3, <2>4 DEF Rewrites
  <2>6. Visible((view.live \ (files \cup retired)) \cup new) = Visible(view.live)
    BY <1>1, <2>5, RewriteKeepsVisible
  <2>7. RewriteFiles(view.live, files \cup retired, new) = (view.live \ (files \cup retired)) \cup new
    BY DEF RewriteFiles, CarriedForward
  <2>8. \A f \in view.live \cup new : Filed(f.path.part)
    BY <1>3, <1>10, <1>12 DEF VInv
  <2> QED BY <1>12, <2>6, <2>7, <2>8
<1>13. Offer(r, view, files \cup retired, new, 2)
  BY <1>7 DEF new
<1> QED BY <1>1, <1>12, <1>13, OfferFiled

LEMMA PackedTogether ==
    ASSUME NEW view \in Table, view.spec = SeedSpec, \A f \in view.live : Filed(f.path.part),
           NEW partitions \in SUBSET {f.path.part : f \in DataFiles(view.live)},
           NEW g \in BuildGroups(view, partitions)
    PROVE  InOnePartition(g)
<1> DEFINE eligible(p) == {f \in DataFiles(view.live) : f.path.part = p /\ IsEligible(f, view.live)}
           chosen(p) == {k \in Pack(eligible(p)) : WorthRewriting(k, view.live)}
           groups(p) == {{f.path : f \in c} : c \in chosen(p)}
<1>1. BuildGroups(view, partitions) = UNION {groups(p) : p \in {q \in partitions : q.spec = view.spec}}
  BY DEF BuildGroups
<1>2. \A p : \A c \in chosen(p) : \A f \in c : f.path.part = p
  BY PackInside
<1> HIDE DEF chosen
<1>3. PICK p \in partitions : p.spec = SeedSpec /\ g \in groups(p)
  BY <1>1
<1>4. PICK c \in chosen(p) : g = {f.path : f \in c}
  BY <1>3
<1>5. p \in Partition /\ Filed(p)
  BY DEF Table, DataFiles, File, Path
<1>6. \A path \in g : path.part = p
  BY <1>2, <1>4
<1> QED BY <1>3, <1>5, <1>6 DEF InOnePartition

LEMMA BeginFiled ==
    ASSUME IInv, VInv, NEW r \in Replicas, Begin(r)
    PROVE  VInv'
<1> DEFINE idle == IdleRun(r, run[r].turn + 1, "none", {}, {})
<1>1. PICK partitions \in SUBSET {f.path.part : f \in DataFiles(table.live)} :
        Become(r, [idle EXCEPT !.pc = "choose", !.state = table,
                               !.groups = BuildGroups(table, partitions)])
  BY DEF Begin
<1> DEFINE groups == BuildGroups(table, partitions)
           rec == [idle EXCEPT !.pc = "choose", !.state = table, !.groups = groups]
<1>2. \A g \in groups : InOnePartition(g)
  BY PackedTogether DEF IInv, VInv
<1> HIDE DEF groups
<1>3. rec.pc = "choose" /\ rec.state = table /\ rec.current = NoView /\ rec.groups = groups /\ rec.group = {}
  BY DEF IdleRun
<1> HIDE DEF rec
<1>7. table.spec = SeedSpec /\ NoView.spec = SeedSpec
  BY DEF VInv, NoView
<1>4. RunFiled(rec, table)
  BY <1>2, <1>3, <1>7, NothingIsFiled DEF RunFiled
<1>5. UNCHANGED <<table, inflight>> /\ Become(r, rec)
  BY <1>1 DEF Begin, Elsewhere, rec, groups
<1>6. \A o \in Replicas : RunFiled(run'[o], table)
  BY <1>4, <1>5 DEF VInv, IInv, Become
<1> QED BY <1>5, <1>6 DEF VInv

(* A step of a run that carries its views and groups over; only a request   *)
(* of its own is under way that was not.                                    *)
CarriesOver(r) ==
    \E rec : /\ Become(r, rec) /\ Carries(rec, run[r], table) /\ UNCHANGED table
             /\ \/ inflight' \subseteq inflight
                \/ run[r].pc = "await" /\ inflight' \subseteq inflight \cup {run[r].request}

LEMMA RunStepCarries ==
    ASSUME IInv, NEW r \in Replicas, RunStep(r)
    PROVE  \/ CarriesOver(r)
           \/ RewriteOnce(r)
           \/ Offer(r, table, DanglingDeleteFiles(table.live), {}, 0)
<1>1. run[r] \in Run
  BY DEF IInv
<1>2. CASE ChooseGroup(r)
  <2>1. PICK g \in run[r].groups :
          Become(r, [run[r] EXCEPT !.pc = "rewrite", !.group = g, !.groups = @ \ {g},
                                   !.current = run[r].state])
    BY <1>2 DEF ChooseGroup
  <2> DEFINE rec == [run[r] EXCEPT !.pc = "rewrite", !.group = g, !.groups = @ \ {g},
                                   !.current = run[r].state]
  <2>2. /\ rec.pc = "rewrite" /\ rec.group = g /\ rec.groups = run[r].groups \ {g}
        /\ rec.current = run[r].state /\ rec.state = run[r].state
    BY <1>1 DEF Run
  <2>3. Carries(rec, run[r], table)
    BY <2>2 DEF Carries
  <2> QED BY <1>1, <1>2, <2>1, <2>3, Zenon DEF CarriesOver, ChooseGroup, Elsewhere
<1>3. CASE GroupsDone(r)
  <2> DEFINE rec == [run[r] EXCEPT !.pc = "dangling", !.phase = "dangling", !.groups = {},
                                   !.state = NoView]
  <2>1. /\ rec.pc = "dangling" /\ rec.group = run[r].group /\ rec.groups = {}
        /\ rec.current = run[r].current /\ rec.state = NoView
    BY <1>1 DEF Run
  <2>2. Carries(rec, run[r], table)
    BY <2>1 DEF Carries
  <2> QED BY <1>1, <1>3, <2>2, Zenon DEF CarriesOver, GroupsDone, Elsewhere
<1>4. CASE NothingLeft(r)
  BY <1>1, <1>4, NextGroupCarries, Zenon DEF CarriesOver, NothingLeft, Elsewhere
<1>5. CASE RewriteFails(r)
  BY <1>1, <1>5, GroupFailedCarries, Zenon DEF CarriesOver, RewriteFails, Elsewhere
<1>6. CASE Reload(r)
  <2> DEFINE rec == [run[r] EXCEPT !.pc = "rewrite", !.current = table]
  <2>1. /\ rec.pc = "rewrite" /\ rec.group = run[r].group /\ rec.groups = run[r].groups
        /\ rec.current = table /\ rec.state = run[r].state
    BY <1>1 DEF Run
  <2>2. Carries(rec, run[r], table)
    BY <2>1 DEF Carries
  <2> QED BY <1>1, <1>6, <2>2, GroupFailedCarries, Zenon DEF CarriesOver, Reload, Elsewhere
<1>7. CASE Refresh(r)
  <2> DEFINE one == [run[r] EXCEPT !.pc = "choose", !.state = table]
             two == [run[r] EXCEPT !.pc = "dangling", !.phase = "dangling", !.groups = {},
                                   !.state = NoView, !.skipped = @ \cup {"error"}]
  <2>1. /\ one.pc = "choose" /\ one.group = run[r].group /\ one.groups = run[r].groups
        /\ one.current = run[r].current /\ one.state = table
    BY <1>1 DEF Run
  <2>2. /\ two.pc = "dangling" /\ two.group = run[r].group /\ two.groups = {}
        /\ two.current = run[r].current /\ two.state = NoView
    BY <1>1 DEF Run
  <2>3. Carries(one, run[r], table) /\ Carries(two, run[r], table)
    BY <2>1, <2>2 DEF Carries
  <2> QED BY <1>1, <1>7, <2>3, Zenon DEF CarriesOver, Refresh, Elsewhere
<1>8. CASE Resend(r)
  <2> DEFINE rec == [run[r] EXCEPT !.resends = @ + 1]
  <2>1. /\ rec.pc = run[r].pc /\ rec.group = run[r].group /\ rec.groups = run[r].groups
        /\ rec.current = run[r].current /\ rec.state = run[r].state /\ rec.request = run[r].request
    BY <1>1 DEF Run
  <2>2. Carries(rec, run[r], table)
    BY <2>1 DEF Carries
  <2>3. Become(r, rec) /\ UNCHANGED table /\ run[r].pc = "await" /\ inflight' \subseteq inflight \cup {run[r].request}
    BY <1>8 DEF Resend
  <2> QED BY <2>2, <2>3, Zenon DEF CarriesOver
<1>9. CASE GiveUp(r)
  BY <1>1, <1>9, AfterErrorCarries, Zenon DEF CarriesOver, GiveUp
<1>10. CASE DropDangling(r)
  BY <1>1, <1>10, ReportedCarries, AfterErrorCarries, Zenon DEF CarriesOver, DropDangling, Elsewhere
<1> QED BY <1>2, <1>3, <1>4, <1>5, <1>6, <1>7, <1>8, <1>9, <1>10 DEF RunStep

LEMMA RunStepFiled ==
    ASSUME ~LossyPipeline, IInv, VInv, NEW r \in Replicas, RunStep(r)
    PROVE  VInv'
<1>1. ASSUME NEW rec, Become(r, rec), Carries(rec, run[r], table), UNCHANGED table,
             \/ inflight' \subseteq inflight
             \/ run[r].pc = "await" /\ inflight' \subseteq inflight \cup {run[r].request}
      PROVE  VInv'
  <2>1. \A q \in inflight' : Harmless(q, table)
    BY <1>1 DEF VInv, RunFiled
  <2> QED BY <1>1, <2>1, RunCarries
<1> QED BY <1>1, RunStepCarries, RewriteOnceFiled, DropDanglingFiled DEF CarriesOver

LEMMA StopsFiled ==
    ASSUME IInv, VInv, NEW r \in Replicas, Decline(r) \/ Crash(r)
    PROVE  VInv'
<1>1. PICK turn, result : Become(r, IdleRun(r, turn, result, {}, {})) /\ Elsewhere
  BY DEF Decline, Crash
<1> QED BY <1>1, IdleCarries, RunCarries DEF Elsewhere, VInv

LEMMA RejectFiled ==
    ASSUME IInv, VInv, NEW q \in inflight, Reject(q)
    PROVE  VInv'
<1>1. q.owner \in Replicas /\ run[q.owner] \in Run
  BY DEF IInv, Request
<1>2. UNCHANGED table /\ inflight' \subseteq inflight
  BY DEF Reject
<1>3. CASE UNCHANGED run
  BY <1>2, <1>3 DEF VInv
<1>4. CASE Become(q.owner, AfterConflict(q.owner))
  BY <1>1, <1>2, <1>4, AfterConflictCarries, RunCarries DEF VInv
<1> QED BY <1>3, <1>4 DEF Reject

(* When the table moves, nothing that was derived from it before can be     *)
(* installed any more.                                                      *)
LEMMA TableMoves ==
    ASSUME IInv, VInv, table' \in Table, table.head < table'.head, table'.spec = SeedSpec,
           \A f \in table'.live : Filed(f.path.part),
           inflight' \subseteq inflight,
           \A r \in Replicas : run'[r] = run[r] \/ Carries(run'[r], run[r], table)
    PROVE  VInv'
<1>1. Advances(table, table') /\ table \in Table /\ nextName \in Nat
  BY DEF Advances, IInv
<1>2. \A q \in inflight : Harmless(q, table')
  BY <1>1, HarmlessAges DEF IInv, VInv
<1>3. ASSUME NEW r \in Replicas PROVE RunFiled(run'[r], table')
  <2>1. RunFiled(run[r], table')
    BY <1>1, FiledAges DEF IInv, VInv
  <2>2. CASE Carries(run'[r], run[r], table)
    <3>1. RunFiled(run'[r], table)
      BY <2>2, CarriesFiled DEF VInv
    <3>2. run'[r].pc = "await" => Harmless(run'[r].request, table')
      BY <2>1, <2>2 DEF Carries, RunFiled
    <3> QED BY <3>1, <3>2 DEF RunFiled
  <2> QED BY <2>1, <2>2
<1> QED BY <1>2, <1>3 DEF VInv

(* An installation changes of the run that asked for it only what it is at. *)
LEMMA InstallCarries ==
    ASSUME IInv, NEW q \in inflight, Install(q)
    PROVE  \E rec : run' = [run EXCEPT ![q.owner] = rec] /\ Carries(rec, run[q.owner], table)
<1> DEFINE o == q.owner
           rec == IF run[o].pc # "idle" /\ run[o].turn = q.turn
                    THEN [run[o] EXCEPT !.landed = @ \cup {q.snap}] ELSE run[o]
<1>1. q.snap \in Nat /\ o \in Replicas /\ run[o] \in Run
  BY DEF IInv, Request
<1>2. rec \in Run
  BY <1>1, LandedOK DEF IInv, RunOK
<1>3. /\ rec.state = run[o].state /\ rec.current = run[o].current /\ rec.groups = run[o].groups
      /\ rec.group = run[o].group /\ rec.pc = run[o].pc /\ rec.request = run[o].request
  BY <1>1 DEF Run
<1>4. run' = [run EXCEPT ![o] = rec] \/ run' = [run EXCEPT ![o] = AfterCommit(o, rec)]
  BY DEF Install, Become
<1> HIDE DEF rec
<1>5. Carries(rec, run[o], table)
  BY <1>3 DEF Carries
<1>6. Carries(AfterCommit(o, rec), run[o], table)
  <2>1. Carries(AfterCommit(o, rec), rec, table)
    BY <1>1, <1>2, AfterCommitCarries
  <2> QED BY <1>3, <2>1 DEF Carries
<1> QED BY <1>4, <1>5, <1>6

LEMMA InstallFiled ==
    ASSUME IInv, VInv, NEW q \in inflight, Install(q)
    PROVE  VInv' /\ Visible(table'.live) = Visible(table.live)
<1>1. /\ q \in Request /\ table \in Table /\ RequestOK(q, table, nextName)
      /\ q.base = table.head /\ Harmless(q, table)
  BY DEF IInv, VInv, Install
<1>2. table' \in Table /\ table'.head = q.snap /\ table'.live = q.live /\ table'.spec = table.spec
  BY <1>1 DEF Install, Table, Request
<1>3. table.head < table'.head
  BY <1>1, <1>2 DEF RequestOK
<1>4. Visible(table'.live) = Visible(table.live) /\ \A f \in table'.live : Filed(f.path.part)
  BY <1>1, <1>2 DEF Harmless
<1>5. \A r \in Replicas : run'[r] = run[r] \/ Carries(run'[r], run[r], table)
  BY InstallCarries DEF IInv
<1>6. inflight' \subseteq inflight /\ table'.spec = SeedSpec
  BY <1>2 DEF Install, VInv
<1> QED BY <1>2, <1>3, <1>4, <1>5, <1>6, TableMoves

-----------------------------------------------------------------------------
(* Foreground writers do what readers were promised *)

LEMMA CommitFiled ==
    ASSUME IInv, VInv, NEW live \in SUBSET File, NEW names \in Nat,
           \A f \in live : Filed(f.path.part), ForegroundCommit(live, names)
    PROVE  VInv' /\ table'.live = live /\ edits' = edits + 1
<1>1. table \in Table /\ nextName \in Nat /\ table.head \in Nat /\ table.head < nextName /\ table.seq + 1 \in Nat
  BY DEF IInv, Table
<1> DEFINE next == table.seq + 1
<1>2. table' = [table EXCEPT !.head = nextName, !.seq = next, !.live = live]
      /\ UNCHANGED <<inflight, run>> /\ edits' = edits + 1
  BY DEF ForegroundCommit
<1>3. next \in Nat
  BY <1>1
<1> HIDE DEF next
<1>4. table' \in Table /\ table'.head = nextName /\ table'.live = live /\ table'.spec = table.spec
  BY <1>1, <1>2, <1>3 DEF Table
<1>5. VInv'
  BY <1>1, <1>2, <1>4, TableMoves DEF VInv
<1> QED BY <1>2, <1>4, <1>5

(* Adding a delete file only hides rows. *)
LEMMA DeletesOnlyHide ==
    ASSUME NEW live, NEW more, DataFiles(more) = DataFiles(live), DeleteFiles(live) \subseteq DeleteFiles(more)
    PROVE  Visible(more) \subseteq Visible(live)
<1>1. \A f \in DataFiles(live) : Surviving(f, more) \subseteq Surviving(f, live)
  BY SurvivingRows
<1> SUFFICES ASSUME NEW x \in Visible(more) PROVE x \in Visible(live)
  OBVIOUS
<1>2. PICK f \in DataFiles(more) : x \in Surviving(f, more) \X {f.path.part}
  BY VisibleRows
<1>3. x \in Surviving(f, live) \X {f.path.part}
  BY <1>1, <1>2
<1> QED BY <1>2, <1>3, VisibleRows

(* Dropping a data file only removes rows. *)
LEMMA DropsOnlyRemove ==
    ASSUME NEW live, NEW f \in DataFiles(live)
    PROVE  Visible(live \ {f}) \subseteq Visible(live)
<1>1. DataFiles(live \ {f}) \subseteq DataFiles(live) /\ DeleteFiles(live \ {f}) = DeleteFiles(live)
  BY DEF DataFiles, DeleteFiles, DeleteKinds
<1>2. \A g : Surviving(g, live \ {f}) = Surviving(g, live)
  BY <1>1, SurvivingRows
<1> SUFFICES ASSUME NEW x \in Visible(live \ {f}) PROVE x \in Visible(live)
  OBVIOUS
<1>3. PICK g \in DataFiles(live \ {f}) : x \in Surviving(g, live \ {f}) \X {g.path.part}
  BY VisibleRows
<1>4. x \in Surviving(g, live) \X {g.path.part}
  BY <1>2, <1>3
<1> QED BY <1>1, <1>3, <1>4, VisibleRows

LEMMA MarkRowsRemoves ==
    ASSUME IInv, VInv, NEW part \in Partition, NEW rows \in SUBSET Rows, MarkRows(part, rows)
    PROVE  VInv' /\ edits' = edits + 1 /\ Visible(table'.live) \subseteq Visible(table.live)
<1> DEFINE at == {f.path : f \in {g \in DataFiles(table.live) : g.path.part = part /\ g.rows \cap rows # {}}}
           pos == PositionDelete(nextName + 1, part, NextSequence(table), at, rows)
           live == table.live \cup {pos}
<1>1. table \in Table /\ table.live \in SUBSET File /\ table.seq \in Nat /\ nextName \in Nat
  BY DEF IInv, Table
<1>2. pos \in File
  <2>1. at \in SUBSET Path
    BY <1>1 DEF DataFiles, File
  <2> HIDE DEF at
  <2> QED BY <1>1, <2>1 DEF PositionDelete, File, Path, Sizes, DeleteKinds, NextSequence
<1>3. pos.kind = "position" /\ pos.path.part = part
  BY DEF PositionDelete
<1>4. ForegroundCommit(live, 1)
  BY DEF MarkRows
<1>5. Filed(part)
  <2>1. PICK r \in rows : <<r, part>> \in Visible(table.live)
    BY DEF MarkRows
  <2>2. PICK f \in DataFiles(table.live) : <<r, part>> \in Surviving(f, table.live) \X {f.path.part}
    BY <2>1, VisibleRows
  <2> QED BY <2>2 DEF VInv, DataFiles
<1> HIDE DEF pos
<1>6. DataFiles(live) = DataFiles(table.live) /\ DeleteFiles(table.live) \subseteq DeleteFiles(live)
  BY <1>3 DEF DataFiles, DeleteFiles, DeleteKinds
<1>7. live \in SUBSET File /\ \A f \in live : Filed(f.path.part)
  BY <1>1, <1>2, <1>3, <1>5 DEF VInv
<1> HIDE DEF live
<1> QED BY <1>4, <1>6, <1>7, CommitFiled, DeletesOnlyHide

LEMMA DropFileRemoves ==
    ASSUME IInv, VInv, NEW f \in DataFiles(table.live), DropFile(f)
    PROVE  VInv' /\ edits' = edits + 1 /\ Visible(table'.live) \subseteq Visible(table.live)
<1>1. table.live \ {f} \in SUBSET File /\ \A g \in table.live \ {f} : Filed(g.path.part)
  BY DEF IInv, Table, VInv
<1> QED BY <1>1, CommitFiled, DropsOnlyRemove DEF DropFile

(* A write of keys and rows has the effect of the upsert it stands for.     *)
LEMMA WriteUpserts ==
    ASSUME IInv, VInv, NEW tuple \in Tuples, NEW keys \in SUBSET Keys, NEW rows \in SUBSET Rows,
           Write(tuple, keys, rows)
    PROVE  /\ VInv' /\ edits' = edits + 1
           /\ [spec |-> table.spec, tuple |-> tuple] \in Partition
           /\ Promise!Upsert([spec |-> table.spec, tuple |-> tuple], keys, rows)
<1> DEFINE part == [spec |-> table.spec, tuple |-> tuple]
           seq == NextSequence(table)
           eq == EqualityDelete(nextName + 1, part, seq, keys)
           data == DataFile(nextName + 2, part, seq, "small", rows)
           eqs == IF keys = {} THEN {} ELSE {eq}
           datas == IF rows = {} THEN {} ELSE {data}
           live == table.live \cup eqs \cup datas
           Gone(x) == KeyOf[x[1]] \in keys /\ (tuple = NoTuple \/ x[2] = part)
<1>1. table \in Table /\ table.live \in SUBSET File /\ table.seq \in Nat /\ nextName \in Nat
      /\ seq = table.seq + 1 /\ seq \in Nat
  BY DEF IInv, Table, NextSequence
<1>2. part \in Partition /\ part.tuple = tuple
  BY <1>1 DEF Table, Partition
<1>3. eq \in File /\ data \in File
  BY <1>1, <1>2 DEF EqualityDelete, DataFile, File, Path, Sizes, DeleteKinds
<1>4. /\ eq.kind = "equality" /\ eq.seq = seq /\ eq.path.part = part /\ eq.keys = keys
      /\ data.kind = "data" /\ data.seq = seq /\ data.path.part = part /\ data.rows = rows
  BY DEF EqualityDelete, DataFile
<1>5. Filed(part)
  <2>1. PICK r \in Rows : TupleOf[table.spec][r] = tuple
    BY DEF Write
  <2> QED BY <2>1 DEF Filed, Unpartitioned
<1>6. ForegroundCommit(live, 2)
  BY DEF Write
<1>7. \A f \in DataFiles(table.live) : f.rows \cap rows = {}
  BY DEF Write, FreshRows
<1> HIDE DEF eq, data, part, seq
<1>8. live \in SUBSET File /\ \A f \in live : Filed(f.path.part)
  BY <1>1, <1>3, <1>4, <1>5 DEF VInv
<1>9. DataFiles(live) = DataFiles(table.live) \cup datas
  BY <1>4 DEF DataFiles
<1>10. DeleteFiles(live) = DeleteFiles(table.live) \cup eqs
  BY <1>4 DEF DeleteFiles, DeleteKinds
<1>11. \A f \in table.live : f.seq \in Nat /\ f.seq <= table.seq
  BY <1>1 DEF IInv, Fits, File
<1>12. ASSUME NEW f \in DataFiles(table.live), NEW r
       PROVE  (\E d \in eqs : Hides(d, f, r)) <=> Gone(<<r, f.path.part>>)
  <2>1. f.seq < seq /\ f.seq \in Nat
    BY <1>1, <1>11 DEF DataFiles
  <2>2. Hides(eq, f, r) <=> (KeyOf[r] \in keys /\ (tuple = NoTuple \/ f.path.part = part))
    BY <1>1, <1>2, <1>4, <2>1 DEF Hides, Applies, Reaches, IsGlobal
  <2> QED BY <2>2
<1>13. ASSUME NEW f \in DataFiles(table.live), NEW r
       PROVE  r \in Surviving(f, live) <=> (r \in Surviving(f, table.live) /\ ~Gone(<<r, f.path.part>>))
  BY <1>10, <1>12, SurvivingRows
<1>14. rows # {} => Surviving(data, live) = rows
  <2>1. \A d \in DeleteFiles(table.live) : \A r : ~Hides(d, data, r)
    <3>1. data.seq > table.seq
      BY <1>1, <1>4
    <3> QED BY <1>1, <1>3, <1>11, <3>1, NewerThanDeletes
  <2>2. \A r : ~Hides(eq, data, r)
    BY <1>1, <1>4 DEF Hides, Applies
  <2> QED BY <1>4, <1>10, <2>1, <2>2, SurvivingRows
<1> HIDE DEF live, datas, eqs, Gone
<1>15. ASSUME NEW x PROVE x \in Visible(live) <=> ((x \in Visible(table.live) /\ ~Gone(x)) \/ x \in rows \X {part})
  <2>1. ASSUME NEW f \in DataFiles(table.live)
        PROVE  x \in Surviving(f, live) \X {f.path.part}
                 <=> (x \in Surviving(f, table.live) \X {f.path.part} /\ ~Gone(x))
    <3>1. CASE x = <<x[1], f.path.part>>
      BY <1>13, <3>1
    <3>2. CASE x # <<x[1], f.path.part>>
      BY <3>2
    <3> QED BY <3>1, <3>2
  <2>2. (\E f \in datas : x \in Surviving(f, live) \X {f.path.part}) <=> x \in rows \X {part}
    <3>1. CASE rows = {}
      BY <3>1 DEF datas
    <3>2. CASE rows # {}
      BY <1>4, <1>14, <3>2 DEF datas
    <3> QED BY <3>1, <3>2
  <2> QED BY <1>9, <2>1, <2>2, VisibleRows
<1>16. \A x \in Visible(table.live) : x[1] \notin rows
  <2> TAKE x \in Visible(table.live)
  <2>1. PICK f \in DataFiles(table.live) : x \in Surviving(f, table.live) \X {f.path.part}
    BY VisibleRows
  <2>2. x[1] \in f.rows
    BY <2>1 DEF Surviving
  <2> QED BY <1>7, <2>2
<1>17. VInv' /\ table'.live = live /\ edits' = edits + 1
  BY <1>6, <1>8, CommitFiled
<1>18. Promise!Upsert(part, keys, rows)
  <2> DEFINE gone == {x \in Visible(table.live) :
                        KeyOf[x[1]] \in keys
                        /\ (part \in {p \in Partition : p.tuple = NoTuple} \/ x[2] = part)}
  <2>1. \A x \in Visible(table.live) : x \in gone <=> Gone(x)
    BY <1>2 DEF Gone
  <2>2. Visible(table'.live) = (Visible(table.live) \ gone) \cup (rows \X {part})
    BY <1>15, <1>17, <2>1
  <2> QED BY <1>16, <2>2 DEF Promise!Upsert
<1> QED BY <1>2, <1>17, <1>18 DEF part

-----------------------------------------------------------------------------
(* The refinement *)

LEMMA InitFiled == Init => VInv /\ Promise!Init
<1> SUFFICES ASSUME Init PROVE VInv /\ Promise!Init
  OBVIOUS
<1>1. table.live = Seed /\ table.spec = SeedSpec /\ inflight = {} /\ edits = 0
  BY DEF Init
<1>2. \A f \in table.live : Filed(f.path.part)
  BY <1>1, CompactionAssumption DEF WellFormed, Filed
<1>3. ASSUME NEW r \in Replicas PROVE RunFiled(run[r], table)
  <2>1. /\ run[r].pc = "idle" /\ run[r].state = NoView /\ run[r].current = NoView
        /\ run[r].groups = {} /\ run[r].group = {}
    BY DEF Init, IdleRun
  <2> QED BY <2>1, NothingIsFiled DEF RunFiled, NoView
<1> QED BY <1>1, <1>2, <1>3 DEF VInv, Promise!Init

LEMMA NextFiled ==
    ASSUME MaxEvolutions = 0, ~LossyPipeline, IInv, VInv, [Next]_vars
    PROVE  VInv' /\ [Promise!Next]_<<Visible(table.live), edits>>
<1>1. CASE UNCHANGED vars
  BY <1>1 DEF vars, VInv
<1>2. ASSUME NEW r \in Replicas, Decline(r) \/ Begin(r) \/ RunStep(r) \/ Crash(r)
      PROVE  VInv' /\ UNCHANGED <<table, edits>>
  <2>1. VInv'
    BY <1>2, StopsFiled, BeginFiled, RunStepFiled
  <2>2. UNCHANGED <<table, edits>>
    <3>1. RunStep(r) => UNCHANGED <<table, edits>>
      BY DEF RunStep, Elsewhere, ChooseGroup, GroupsDone, NothingLeft, RewriteOnce, RewriteFails,
             Reload, Refresh, DropDangling, Resend, GiveUp, Offer
    <3>2. Decline(r) \/ Begin(r) \/ Crash(r) => UNCHANGED <<table, edits>>
      BY DEF Decline, Begin, Crash, Elsewhere
    <3> QED BY <1>2, <3>1, <3>2, Zenon
  <2> QED BY <2>1, <2>2
<1>3. ASSUME NEW q \in inflight, Install(q)
      PROVE  VInv' /\ UNCHANGED <<Visible(table.live), edits>>
  BY <1>3, InstallFiled DEF Install
<1>4. ASSUME NEW q \in inflight, Reject(q)
      PROVE  VInv' /\ UNCHANGED <<table, edits>>
  BY <1>4, RejectFiled DEF Reject
<1>5. ASSUME NEW tuple \in Tuples, NEW keys \in SUBSET Keys, NEW rows \in SUBSET Rows,
             Write(tuple, keys, rows)
      PROVE  VInv' /\ Promise!Next
  BY <1>5, WriteUpserts DEF Promise!Next
<1>6. ASSUME VInv', edits' = edits + 1, Visible(table'.live) \subseteq Visible(table.live)
      PROVE  VInv' /\ Promise!Next
  <2> DEFINE gone == Visible(table.live) \ Visible(table'.live)
  <2>1. Promise!Remove(gone) /\ gone \in SUBSET Visible(table.live)
    BY <1>6 DEF Promise!Remove
  <2> QED BY <1>6, <2>1 DEF Promise!Next
<1>7. ASSUME NEW part \in Partition, NEW rows \in SUBSET Rows, MarkRows(part, rows)
      PROVE  VInv' /\ Promise!Next
  BY <1>6, <1>7, MarkRowsRemoves
<1>8. ASSUME NEW f \in DataFiles(table.live), DropFile(f)
      PROVE  VInv' /\ Promise!Next
  BY <1>6, <1>8, DropFileRemoves
<1>9. ASSUME NEW s \in Specs, EvolveSpec(s) PROVE FALSE
  BY <1>9, CompactionAssumption DEF EvolveSpec, IInv
<1> QED BY <1>1, <1>2, <1>3, <1>4, <1>5, <1>7, <1>8, <1>9 DEF Next, Foreground, vars

(* Maintenance is invisible: readers see rows change, or move between       *)
(* partitions, only through the edits of foreground writers, and every edit *)
(* takes full effect, for a table whose default spec is not changed and a   *)
(* pipeline that persists the rows it reads.                                *)
THEOREM CompactionIsInvisible ==
    ASSUME MaxEvolutions = 0, ~LossyPipeline
    PROVE  Spec => MaintenanceIsInvisible
<1>1. IInv /\ VInv /\ [Next]_vars => VInv' /\ [Promise!Next]_<<Visible(table.live), edits>>
  BY NextFiled
<1>2. Init => VInv /\ Promise!Init
  BY InitFiled
<1> QED BY <1>1, <1>2, InvariantHolds, PTL DEF Spec, MaintenanceIsInvisible, Promise!Spec

-----------------------------------------------------------------------------
(* Runs wind down: what a run has left to do can be counted, because what   *)
(* it loaded is finite, and every step of it leaves less.                   *)

RunFinite(rec) ==
    /\ IsFiniteSet(rec.state.live) /\ IsFiniteSet(rec.current.live) /\ IsFiniteSet(rec.groups)
    /\ rec.pc = "await" => IsFiniteSet(rec.request.live)

FInv ==
    /\ IsFiniteSet(table.live)
    /\ \A r \in Replicas : RunFinite(run[r])
    /\ \A q \in inflight : IsFiniteSet(q.live)

LEMMA CarriesFinite ==
    ASSUME NEW t, IsFiniteSet(t.live), NEW rec, RunFinite(rec), NEW new, Carries(new, rec, t)
    PROVE  RunFinite(new)
<1>1. IsFiniteSet(NoView.live)
  BY FS_EmptySet DEF NoView
<1>2. IsFiniteSet(new.state.live) /\ IsFiniteSet(new.current.live)
  BY <1>1 DEF Carries, RunFinite
<1>3. IsFiniteSet(new.groups)
  BY FS_Subset DEF Carries, RunFinite
<1> QED BY <1>2, <1>3 DEF Carries, RunFinite

LEMMA FiniteImage ==
    ASSUME NEW S, IsFiniteSet(S), NEW f
    PROVE  IsFiniteSet({f[x] : x \in S})
<1> DEFINE g == [x \in S |-> f[x]]
           T == {f[x] : x \in S}
<1>1. g \in Surjection(S, T)
  BY DEF Surjection
<1> HIDE DEF g, T
<1>2. IsFiniteSet(T)
  BY <1>1, FS_Surjection
<1> QED BY <1>2 DEF T

(* A finite table has finitely many partitions, and each finitely many      *)
(* groups.                                                                  *)
LEMMA GroupsFinite ==
    ASSUME NEW view, IsFiniteSet(view.live),
           NEW partitions \in SUBSET {f.path.part : f \in DataFiles(view.live)}
    PROVE  IsFiniteSet(BuildGroups(view, partitions))
<1> DEFINE eligible(p) == {f \in DataFiles(view.live) : f.path.part = p /\ IsEligible(f, view.live)}
           chosen(p) == {k \in Pack(eligible(p)) : WorthRewriting(k, view.live)}
           groups(p) == {{f.path : f \in c} : c \in chosen(p)}
           wanted == {q \in partitions : q.spec = view.spec}
<1>1. IsFiniteSet(DataFiles(view.live))
  BY FS_Subset DEF DataFiles
<1>2. ASSUME NEW p PROVE IsFiniteSet(groups(p))
  <2>1. eligible(p) \subseteq DataFiles(view.live)
    OBVIOUS
  <2>2. IsFiniteSet(SUBSET eligible(p))
    BY <1>1, <2>1, FS_Subset, FS_SUBSET
  <2>3. chosen(p) \subseteq SUBSET eligible(p)
    BY PackInside
  <2> HIDE DEF eligible, chosen
  <2>4. IsFiniteSet(chosen(p))
    BY <2>2, <2>3, FS_Subset
  <2> DEFINE f == [c \in chosen(p) |-> {g.path : g \in c}]
  <2>5. {f[c] : c \in chosen(p)} = groups(p)
    OBVIOUS
  <2> HIDE DEF f, groups
  <2>6. IsFiniteSet({f[c] : c \in chosen(p)})
    BY <2>4, FiniteImage
  <2> QED BY <2>5, <2>6
<1>3. IsFiniteSet(wanted)
  <2> DEFINE part == [f \in DataFiles(view.live) |-> f.path.part]
  <2>1. wanted \subseteq {part[f] : f \in DataFiles(view.live)}
    OBVIOUS
  <2> HIDE DEF part, wanted
  <2>2. IsFiniteSet({part[f] : f \in DataFiles(view.live)})
    BY <1>1, FiniteImage
  <2> QED BY <2>1, <2>2, FS_Subset
<1>4. BuildGroups(view, partitions) = UNION {groups(p) : p \in wanted}
  BY DEF BuildGroups
<1> HIDE DEF groups, wanted
<1>5. IsFiniteSet({groups(p) : p \in wanted})
  <2> DEFINE f == [p \in wanted |-> groups(p)]
  <2>1. {f[p] : p \in wanted} = {groups(p) : p \in wanted}
    OBVIOUS
  <2> HIDE DEF f
  <2>2. IsFiniteSet({f[p] : p \in wanted})
    BY <1>3, FiniteImage
  <2> QED BY <2>1, <2>2
<1>6. \A g \in {groups(p) : p \in wanted} : IsFiniteSet(g)
  BY <1>2
<1> QED BY <1>4, <1>5, <1>6, FS_UNION

(* A step that changes one run only, and what is under way for it. *)
LEMMA RunKeepsFinite ==
    ASSUME IInv, FInv, NEW r \in Replicas, NEW rec, RunFinite(rec), run' = [run EXCEPT ![r] = rec],
           IsFiniteSet(table'.live), \A q \in inflight' : IsFiniteSet(q.live)
    PROVE  FInv'
<1>1. \A o \in Replicas : RunFinite(run'[o])
  BY DEF IInv, FInv
<1> QED BY <1>1 DEF FInv

LEMMA OfferFinite ==
    ASSUME IInv, FInv, NEW r \in Replicas, NEW view, IsFiniteSet(view.live), NEW removed,
           NEW added, IsFiniteSet(added), NEW names, Offer(r, view, removed, added, names)
    PROVE  FInv'
<1> DEFINE q == [owner |-> r, turn |-> run[r].turn, snap |-> nextName + names, base |-> view.head,
                 seq |-> NextSequence(view), live |-> RewriteFiles(view.live, removed, added)]
           rec == [run[r] EXCEPT !.pc = "await", !.request = q, !.current = NoView]
<1>1. run' = [run EXCEPT ![r] = rec] /\ inflight' = inflight \cup {q} /\ UNCHANGED table
  BY DEF Offer, Become
<1>2. IsFiniteSet(q.live)
  <2>1. IsFiniteSet(CarriedForward(view.live, removed))
    BY FS_Subset DEF CarriedForward
  <2> QED BY <2>1, FS_Union DEF RewriteFiles
<1>3. run[r] \in Run
  BY DEF IInv
<1> HIDE DEF q
<1>4. /\ rec.state = run[r].state /\ rec.current = NoView /\ rec.groups = run[r].groups
      /\ rec.request = q
  BY <1>3 DEF Run
<1> HIDE DEF rec
<1>5. RunFinite(rec)
  BY <1>2, <1>4, FS_EmptySet DEF RunFinite, FInv, NoView
<1>6. IsFiniteSet(table'.live) /\ \A p \in inflight' : IsFiniteSet(p.live)
  BY <1>1, <1>2 DEF FInv
<1> QED BY <1>1, <1>5, <1>6, RunKeepsFinite

LEMMA RewriteOnceFinite ==
    ASSUME IInv, FInv, NEW r \in Replicas, RewriteOnce(r)
    PROVE  FInv'
<1> DEFINE view == run[r].current
           files == Tasks(view, run[r].group)
           part == OutputPartition(files, view)
           removed == files \cup Retirable(files, view.live)
           added(first, persisted, size) ==
              Output(nextName, part, view, size, first)
                \cup Output(nextName + 1, part, view, size, persisted \ first)
<1>1. PICK streamed \in SUBSET Survivors(files, view.live) :
        \E persisted \in SUBSET streamed : \E first \in SUBSET persisted, size \in {"small", "target"} :
           Offer(r, view, removed, added(first, persisted, size), 2)
  BY Zenon DEF RewriteOnce
<1>2. PICK persisted \in SUBSET streamed :
        \E first \in SUBSET persisted, size \in {"small", "target"} :
           Offer(r, view, removed, added(first, persisted, size), 2)
  BY <1>1, Zenon
<1>3. PICK first \in SUBSET persisted, size \in {"small", "target"} :
         Offer(r, view, removed, added(first, persisted, size), 2)
  BY <1>2, Zenon
<1>4. \A n, rows : IsFiniteSet(Output(n, part, view, size, rows))
  BY FS_EmptySet, FS_Singleton DEF Output
<1>5. IsFiniteSet(added(first, persisted, size))
  BY <1>4, FS_Union
<1>6. IsFiniteSet(view.live)
  BY DEF FInv, RunFinite
<1> HIDE DEF view, removed, added
<1> QED BY <1>3, <1>5, <1>6, OfferFinite

LEMMA ForegroundFinite ==
    ASSUME IInv, FInv, NEW live, IsFiniteSet(live), NEW names, ForegroundCommit(live, names)
    PROVE  FInv'
<1>1. table' = [table EXCEPT !.head = nextName, !.seq = @ + 1, !.live = live] /\ UNCHANGED <<inflight, run>>
  BY DEF ForegroundCommit
<1>2. table'.live = live
  BY <1>1 DEF IInv, Table
<1> QED BY <1>1, <1>2 DEF FInv

LEMMA InitFinite == Init => FInv
<1> SUFFICES ASSUME Init PROVE FInv
  OBVIOUS
<1>1. IsFiniteSet(table.live) /\ inflight = {}
  BY CompactionAssumption DEF Init
<1>2. ASSUME NEW r \in Replicas PROVE RunFinite(run[r])
  <2>1. run[r].pc = "idle" /\ run[r].state = NoView /\ run[r].current = NoView /\ run[r].groups = {}
    BY DEF Init, IdleRun
  <2> QED BY <2>1, FS_EmptySet DEF RunFinite, NoView
<1> QED BY <1>1, <1>2 DEF FInv

LEMMA NextFinite == IInv /\ FInv /\ [Next]_vars => FInv'
<1> SUFFICES ASSUME IInv, FInv, [Next]_vars PROVE FInv'
  OBVIOUS
<1>1. CASE UNCHANGED vars
  BY <1>1 DEF vars, FInv
<1>2. ASSUME NEW r \in Replicas, NEW rec, Become(r, rec), Carries(rec, run[r], table), UNCHANGED table,
             \A q \in inflight' : IsFiniteSet(q.live)
      PROVE  FInv'
  BY <1>2, CarriesFinite, RunKeepsFinite DEF FInv, Become
<1>3. ASSUME NEW r \in Replicas, RunStep(r) PROVE FInv'
  <2>1. CASE CarriesOver(r)
    BY <1>2, <2>1 DEF CarriesOver, FInv, RunFinite
  <2>2. CASE Offer(r, table, DanglingDeleteFiles(table.live), {}, 0)
    BY <2>2, OfferFinite, FS_EmptySet DEF FInv
  <2> QED BY <1>3, <2>1, <2>2, RunStepCarries, RewriteOnceFinite
<1>4. ASSUME NEW r \in Replicas, Decline(r) \/ Crash(r) PROVE FInv'
  <2>1. PICK turn, result : Become(r, IdleRun(r, turn, result, {}, {})) /\ Elsewhere
    BY <1>4 DEF Decline, Crash
  <2> QED BY <1>2, <2>1, IdleCarries DEF Elsewhere, FInv
<1>5. ASSUME NEW r \in Replicas, Begin(r) PROVE FInv'
  <2> DEFINE idle == IdleRun(r, run[r].turn + 1, "none", {}, {})
  <2>1. PICK partitions \in SUBSET {f.path.part : f \in DataFiles(table.live)} :
          Become(r, [idle EXCEPT !.pc = "choose", !.state = table,
                                 !.groups = BuildGroups(table, partitions)])
    BY <1>5 DEF Begin
  <2> DEFINE groups == BuildGroups(table, partitions)
             rec == [idle EXCEPT !.pc = "choose", !.state = table, !.groups = groups]
  <2>2. IsFiniteSet(groups)
    BY GroupsFinite DEF FInv
  <2> HIDE DEF groups
  <2>3. rec.pc = "choose" /\ rec.state = table /\ rec.current = NoView /\ rec.groups = groups
    BY DEF IdleRun
  <2> HIDE DEF rec
  <2>4. RunFinite(rec)
    BY <2>2, <2>3, FS_EmptySet DEF RunFinite, FInv, NoView
  <2>5. UNCHANGED <<table, inflight>> /\ run' = [run EXCEPT ![r] = rec]
    BY <1>5, <2>1 DEF Begin, Elsewhere, Become, rec, groups
  <2> QED BY <2>4, <2>5, RunKeepsFinite DEF FInv
<1>6. ASSUME NEW q \in inflight, Install(q) PROVE FInv'
  <2>1. q.owner \in Replicas /\ inflight' \subseteq inflight /\ table'.live = q.live
    BY <1>6 DEF IInv, Request, Table, Install
  <2>2. PICK rec : run' = [run EXCEPT ![q.owner] = rec] /\ Carries(rec, run[q.owner], table)
    BY <1>6, InstallCarries
  <2>3. RunFinite(rec)
    BY <2>1, <2>2, CarriesFinite DEF FInv
  <2> QED BY <2>1, <2>2, <2>3, RunKeepsFinite DEF FInv
<1>7. ASSUME NEW q \in inflight, Reject(q) PROVE FInv'
  <2>1. q.owner \in Replicas /\ run[q.owner] \in Run /\ inflight' \subseteq inflight /\ UNCHANGED table
    BY <1>7 DEF IInv, Request, Reject
  <2>2. CASE UNCHANGED run
    BY <2>1, <2>2 DEF FInv
  <2>3. CASE Become(q.owner, AfterConflict(q.owner))
    BY <1>2, <2>1, <2>3, AfterConflictCarries DEF FInv
  <2> QED BY <1>7, <2>2, <2>3 DEF Reject
<1>8. ASSUME NEW tuple, NEW keys, NEW rows, Write(tuple, keys, rows) PROVE FInv'
  <2> DEFINE part == [spec |-> table.spec, tuple |-> tuple]
             eq == EqualityDelete(nextName + 1, part, NextSequence(table), keys)
             data == DataFile(nextName + 2, part, NextSequence(table), "small", rows)
             eqs == IF keys = {} THEN {} ELSE {eq}
             datas == IF rows = {} THEN {} ELSE {data}
             live == table.live \cup eqs \cup datas
  <2>1. ForegroundCommit(live, 2)
    BY <1>8 DEF Write
  <2> HIDE DEF eq, data
  <2>2. IsFiniteSet(eqs) /\ IsFiniteSet(datas)
    BY FS_EmptySet, FS_Singleton
  <2> HIDE DEF eqs, datas
  <2>3. IsFiniteSet(live)
    BY <2>2, FS_Union DEF FInv
  <2> HIDE DEF live
  <2> QED BY <2>1, <2>3, ForegroundFinite
<1>9. ASSUME NEW part, NEW rows, MarkRows(part, rows) PROVE FInv'
  <2>1. PICK pos : ForegroundCommit(table.live \cup {pos}, 1)
    BY <1>9 DEF MarkRows
  <2>2. IsFiniteSet(table.live \cup {pos})
    BY FS_Singleton, FS_Union DEF FInv
  <2> QED BY <2>1, <2>2, ForegroundFinite
<1>10. ASSUME NEW f, DropFile(f) PROVE FInv'
  <2>1. IsFiniteSet(table.live \ {f})
    BY FS_Subset DEF FInv
  <2> QED BY <1>10, <2>1, ForegroundFinite DEF DropFile
<1>11. ASSUME NEW s, EvolveSpec(s) PROVE FInv'
  <2>1. table'.live = table.live /\ UNCHANGED <<inflight, run>>
    BY <1>11 DEF EvolveSpec, IInv, Table
  <2> QED BY <2>1 DEF FInv
<1>12. CASE Foreground
  BY <1>8, <1>9, <1>10, <1>11, <1>12, Zenon DEF Foreground
<1> QED BY <1>1, <1>3, <1>4, <1>5, <1>6, <1>7, <1>12, Zenon DEF Next

-----------------------------------------------------------------------------
(* The count *)

(* The most steps of one attempt at a group, from reading the table again   *)
(* to the answer, and of one group, from its choice on.                     *)
AttemptSteps == MaxResends + 3
GroupSteps == MaxCommitAttempts * AttemptSteps + 1

(* Of the groups to come and the pass that ends the run; of the attempts    *)
(* left for this group; of sending the request that is waited for.          *)
Later(rec) == Cardinality(rec.groups) * GroupSteps + AttemptSteps + 1
Retries(rec) == (MaxCommitAttempts - 1 - rec.attempt) * AttemptSteps
Sends(rec) == MaxResends - rec.resends + 1

(* The most steps a run has left. *)
ToDo(rec) ==
    CASE rec.pc = "idle"     -> 0
      [] rec.pc = "dangling" -> AttemptSteps
      [] rec.pc = "choose"   -> Later(rec)
      [] rec.pc = "refresh"  -> Later(rec) + 1
      [] rec.pc = "rewrite"  -> Later(rec) + Retries(rec) + AttemptSteps
      [] rec.pc = "reload"   -> Later(rec) + Retries(rec) + AttemptSteps + 1
      [] rec.pc = "await"    -> IF rec.phase = "dangling" THEN Sends(rec)
                                ELSE Later(rec) + Retries(rec) + Sends(rec) + 1

LEMMA StepCounts ==
    /\ MaxResends \in Nat /\ MaxCommitAttempts \in Nat /\ AttemptSteps \in Nat /\ GroupSteps \in Nat
    /\ AttemptSteps = MaxResends + 3
<1>1. MaxResends \in Nat /\ MaxCommitAttempts \in Nat
  BY CompactionAssumption
<1>2. AttemptSteps \in Nat /\ AttemptSteps = MaxResends + 3
  BY <1>1 DEF AttemptSteps
<1>3. \A m, n \in Nat : m * n + 1 \in Nat
  OBVIOUS
<1> QED BY <1>1, <1>2, <1>3 DEF GroupSteps

LEMMA LaterIs ==
    ASSUME NEW rec, IsFiniteSet(rec.groups)
    PROVE  Later(rec) \in Nat /\ Later(rec) > AttemptSteps
<1>1. Cardinality(rec.groups) \in Nat
  BY FS_CardinalityType
<1>2. \A m, n, k \in Nat : m * n + k + 1 \in Nat /\ m * n + k + 1 > k
  <2>1. \A m, n \in Nat : m * n \in Nat
    OBVIOUS
  <2> QED BY <2>1
<1> QED BY <1>1, <1>2, StepCounts DEF Later

LEMMA LaterLess ==
    ASSUME NEW rec, IsFiniteSet(rec.groups), NEW g \in rec.groups, NEW new, new.groups = rec.groups \ {g}
    PROVE  Later(new) \in Nat /\ Later(rec) = Later(new) + GroupSteps
<1>1. IsFiniteSet(new.groups) /\ Cardinality(new.groups) = Cardinality(rec.groups) - 1
  BY FS_RemoveElement, FS_Subset
<1>2. Cardinality(new.groups) \in Nat /\ Cardinality(rec.groups) = Cardinality(new.groups) + 1
  BY <1>1, FS_CardinalityType
<1>3. \A m, n, k \in Nat : (m + 1) * n + k + 1 = m * n + k + 1 + n
  <2>1. \A m, n \in Nat : (m + 1) * n = m * n + n /\ m * n \in Nat
    OBVIOUS
  <2> QED BY <2>1
<1> QED BY <1>1, <1>2, <1>3, LaterIs, StepCounts DEF Later

LEMMA RetriesIs ==
    ASSUME NEW rec \in Run
    PROVE  Retries(rec) \in Nat /\ Retries(rec) + AttemptSteps < GroupSteps
<1> DEFINE left == MaxCommitAttempts - 1 - rec.attempt
<1>1. left \in Nat /\ left + 1 <= MaxCommitAttempts /\ MaxCommitAttempts \in Nat
  BY CompactionAssumption DEF Run
<1>2. \A m, n, k \in Nat : m + 1 <= k => m * n \in Nat /\ m * n + n < k * n + 1
  <2>1. \A m, n, k \in Nat : m * n \in Nat /\ m * n + n = (m + 1) * n /\ (m <= k => m * n <= k * n)
    <3>1. \A m, n, d \in Nat : m * n \in Nat /\ m * n + n = (m + 1) * n /\ m * n <= (m + d) * n
      <4>1. \A m, n, d \in Nat : m * n \in Nat /\ d * n \in Nat /\ (m + d) * n = m * n + d * n
        OBVIOUS
      <4> QED BY <4>1
    <3>2. \A m, k \in Nat : m <= k => k - m \in Nat /\ m + (k - m) = k
      OBVIOUS
    <3> QED BY <3>1, <3>2
  <2> QED BY <2>1
<1> HIDE DEF left
<1>3. left * AttemptSteps \in Nat /\ left * AttemptSteps + AttemptSteps < MaxCommitAttempts * AttemptSteps + 1
  BY <1>1, <1>2, StepCounts
<1> QED BY <1>3 DEF Retries, GroupSteps, left

LEMMA RetryLess ==
    ASSUME NEW rec \in Run, NEW new, new.attempt = rec.attempt + 1, rec.attempt + 1 < MaxCommitAttempts
    PROVE  Retries(new) \in Nat /\ Retries(rec) = Retries(new) + AttemptSteps
<1> DEFINE left == MaxCommitAttempts - 1 - new.attempt
<1>1. left \in Nat /\ MaxCommitAttempts - 1 - rec.attempt = left + 1
  BY CompactionAssumption DEF Run
<1>2. \A m, n \in Nat : m * n \in Nat /\ (m + 1) * n = m * n + n
  OBVIOUS
<1> HIDE DEF left
<1>3. left * AttemptSteps \in Nat /\ (left + 1) * AttemptSteps = left * AttemptSteps + AttemptSteps
  BY <1>1, <1>2, StepCounts
<1>4. Retries(rec) = (left + 1) * AttemptSteps
  BY <1>1 DEF Retries
<1> QED BY <1>3, <1>4 DEF Retries, left

LEMMA SendsIs ==
    ASSUME NEW rec \in Run
    PROVE  Sends(rec) \in Nat /\ 0 < Sends(rec) /\ Sends(rec) + 1 < AttemptSteps
BY StepCounts DEF Sends, Run

(* Before the answer, a run has more to do than the groups to come.         *)
LEMMA ToDoIs ==
    ASSUME NEW rec \in Run, IsFiniteSet(rec.groups)
    PROVE  /\ ToDo(rec) \in Nat
           /\ rec.pc # "idle" => ToDo(rec) > 0
           /\ rec.pc \in {"rewrite", "reload"} => ToDo(rec) > Later(rec)
           /\ rec.pc = "await" /\ rec.phase = "group" => ToDo(rec) > Later(rec) + 1
<1>1. /\ Later(rec) \in Nat /\ Later(rec) > AttemptSteps /\ Retries(rec) \in Nat
      /\ Sends(rec) \in Nat /\ 0 < Sends(rec) /\ AttemptSteps \in Nat /\ AttemptSteps > 2
  BY LaterIs, RetriesIs, SendsIs, StepCounts
<1>2. rec.phase \in {"group", "dangling"}
  BY DEF Run
<1>3. CASE rec.pc = "idle"
  BY <1>1, <1>3 DEF ToDo
<1>4. CASE rec.pc = "dangling"
  BY <1>1, <1>4 DEF ToDo
<1>5. CASE rec.pc = "choose"
  BY <1>1, <1>5 DEF ToDo
<1>6. CASE rec.pc = "refresh"
  BY <1>1, <1>6 DEF ToDo
<1>7. CASE rec.pc = "rewrite"
  BY <1>1, <1>7 DEF ToDo
<1>8. CASE rec.pc = "reload"
  BY <1>1, <1>8 DEF ToDo
<1>9. CASE rec.pc = "await"
  BY <1>1, <1>2, <1>9 DEF ToDo
<1> QED BY <1>3, <1>4, <1>5, <1>6, <1>7, <1>8, <1>9 DEF Run

Less(new, rec) == ToDo(new) \in Nat /\ ToDo(new) < ToDo(rec)

LEMMA IdleLess ==
    ASSUME NEW rec \in Run, IsFiniteSet(rec.groups), rec.pc # "idle", NEW new, new.pc = "idle"
    PROVE  Less(new, rec)
BY ToDoIs DEF Less, ToDo

(* A group that is done with, however it went. *)
LEMMA DoneLess ==
    ASSUME NEW rec \in Run, IsFiniteSet(rec.groups), rec.phase = "group",
           rec.pc \in {"rewrite", "reload", "await"}, NEW new, new.pc = "choose", new.groups = rec.groups
    PROVE  Less(new, rec)
<1>1. ToDo(new) = Later(rec) /\ Later(rec) \in Nat
  BY LaterIs DEF ToDo, Later
<1> QED BY <1>1, ToDoIs DEF Less

(* Errors, conflicts and commits end a run or bring it on. *)
LEMMA GroupFailedLess ==
    ASSUME NEW r \in Replicas, run[r] \in Run, IsFiniteSet(run[r].groups), run[r].phase = "group",
           run[r].pc \in {"rewrite", "reload", "await"}, NEW why
    PROVE  Less(GroupFailed(r, why), run[r])
<1>1. GroupFailed(r, why).pc = "choose" /\ GroupFailed(r, why).groups = run[r].groups
  BY DEF GroupFailed, NextGroup, Run
<1> QED BY <1>1, DoneLess

LEMMA ReportedLess ==
    ASSUME NEW rec \in Run, IsFiniteSet(rec.groups), rec.pc # "idle", NEW r, NEW x
    PROVE  Less(Reported(r, x), rec)
<1>1. Reported(r, x).pc = "idle"
  BY DEF Reported, IdleRun
<1> QED BY <1>1, IdleLess

LEMMA AfterErrorLess ==
    ASSUME NEW r \in Replicas, run[r] \in Run, IsFiniteSet(run[r].groups),
           \/ run[r].pc = "await"
           \/ run[r].pc = "dangling" /\ run[r].phase = "dangling"
    PROVE  Less(AfterError(r), run[r])
<1>1. CASE run[r].phase = "group"
  BY <1>1, GroupFailedLess DEF AfterError
<1>2. CASE run[r].phase # "group"
  BY <1>2, ReportedLess DEF AfterError
<1> QED BY <1>1, <1>2

LEMMA AfterConflictLess ==
    ASSUME NEW r \in Replicas, run[r] \in Run, IsFiniteSet(run[r].groups), run[r].pc = "await"
    PROVE  Less(AfterConflict(r), run[r])
<1>1. CASE run[r].phase = "dangling"
  BY <1>1, ReportedLess DEF AfterConflict
<1>2. CASE run[r].phase = "group" /\ run[r].attempt + 1 < MaxCommitAttempts
  <2> DEFINE new == AfterConflict(r)
  <2>1. new = [run[r] EXCEPT !.pc = "reload", !.attempt = @ + 1, !.resends = 0,
                             !.request = NoRequest(r), !.current = NoView]
    BY <1>2 DEF AfterConflict
  <2>2. new.pc = "reload" /\ new.attempt = run[r].attempt + 1 /\ new.groups = run[r].groups
    BY <2>1 DEF Run
  <2> HIDE DEF new
  <2>3. Retries(new) \in Nat /\ Retries(run[r]) = Retries(new) + AttemptSteps
    BY <1>2, <2>2, RetryLess
  <2>4. Later(new) = Later(run[r]) /\ Later(run[r]) \in Nat
    BY <2>2, LaterIs DEF Later
  <2>5. ToDo(new) = Later(new) + Retries(new) + AttemptSteps + 1
    BY <2>2 DEF ToDo
  <2>6. ToDo(run[r]) = Later(run[r]) + Retries(run[r]) + Sends(run[r]) + 1
    BY <1>2 DEF ToDo
  <2>7. Less(new, run[r])
    BY <2>3, <2>4, <2>5, <2>6, SendsIs, StepCounts DEF Less
  <2> QED BY <2>7 DEF new
<1>3. CASE run[r].phase = "group" /\ ~ (run[r].attempt + 1 < MaxCommitAttempts)
  <2>1. AfterConflict(r) = GroupFailed(r, "replan")
    BY <1>3 DEF AfterConflict
  <2> QED BY <1>3, <2>1, GroupFailedLess
<1>4. run[r].phase \in {"group", "dangling"}
  BY DEF Run
<1> QED BY <1>1, <1>2, <1>3, <1>4

LEMMA AfterCommitLess ==
    ASSUME NEW r \in Replicas, NEW rec \in Run, IsFiniteSet(rec.groups), rec.pc = "await"
    PROVE  Less(AfterCommit(r, rec), rec)
<1>1. CASE rec.phase = "group"
  <2> DEFINE new == AfterCommit(r, rec)
  <2>1. new.groups = rec.groups /\ new.pc = "refresh"
    BY <1>1 DEF AfterCommit, NextGroup, Run
  <2> HIDE DEF new
  <2>2. ToDo(new) = Later(rec) + 1 /\ Later(rec) \in Nat
    BY <2>1, LaterIs DEF ToDo, Later
  <2>3. Less(new, rec)
    BY <1>1, <2>2, ToDoIs DEF Less
  <2> QED BY <2>3 DEF new
<1>2. CASE rec.phase # "group"
  BY <1>2, ReportedLess DEF AfterCommit
<1> QED BY <1>1, <1>2

(* An offer follows a rewrite, or ends the pass over dangling deletes. *)
LEMMA OfferLess ==
    ASSUME NEW r \in Replicas, run[r] \in Run, IsFiniteSet(run[r].groups),
           \/ run[r].pc = "rewrite" /\ run[r].phase = "group"
           \/ run[r].pc = "dangling" /\ run[r].phase = "dangling",
           NEW q, NEW new, new = [run[r] EXCEPT !.pc = "await", !.request = q, !.current = NoView]
    PROVE  Less(new, run[r])
<1>1. /\ new.pc = "await" /\ new.phase = run[r].phase /\ new.groups = run[r].groups
      /\ new.attempt = run[r].attempt /\ new.resends = run[r].resends
  BY DEF Run
<1>2. Later(new) = Later(run[r]) /\ Retries(new) = Retries(run[r]) /\ Sends(new) = Sends(run[r])
  BY <1>1 DEF Later, Retries, Sends
<1>3. /\ Later(run[r]) \in Nat /\ Retries(run[r]) \in Nat /\ AttemptSteps \in Nat
      /\ Sends(run[r]) \in Nat /\ Sends(run[r]) + 1 < AttemptSteps
  BY LaterIs, RetriesIs, SendsIs, StepCounts
<1>4. CASE run[r].pc = "rewrite" /\ run[r].phase = "group"
  <2>1. ToDo(run[r]) = Later(run[r]) + Retries(run[r]) + AttemptSteps
    BY <1>4 DEF ToDo
  <2>2. ToDo(new) = Later(run[r]) + Retries(run[r]) + Sends(run[r]) + 1
    BY <1>1, <1>2, <1>4 DEF ToDo
  <2> QED BY <1>3, <2>1, <2>2 DEF Less
<1>5. CASE run[r].pc = "dangling" /\ run[r].phase = "dangling"
  <2>1. ToDo(run[r]) = AttemptSteps /\ ToDo(new) = Sends(run[r])
    BY <1>1, <1>2, <1>5 DEF ToDo
  <2> QED BY <1>3, <2>1 DEF Less
<1> QED BY <1>4, <1>5

(* Each step of a run leaves it less to do. *)
LEMMA RunStepLess ==
    ASSUME IInv, FInv, NEW r \in Replicas, RunStep(r)
    PROVE  Less(run'[r], run[r])
<1>1. run[r] \in Run /\ IsFiniteSet(run[r].groups) /\ run \in [Replicas -> Run] /\ Phased(r, run[r])
  BY DEF IInv, FInv, RunFinite, RunOK
<1>2. \A rec : Become(r, rec) => run'[r] = rec
  BY <1>1 DEF Become
<1>3. /\ Later(run[r]) \in Nat /\ Later(run[r]) > AttemptSteps /\ AttemptSteps \in Nat
      /\ Retries(run[r]) \in Nat /\ Retries(run[r]) + AttemptSteps < GroupSteps /\ GroupSteps \in Nat
  BY <1>1, LaterIs, RetriesIs, StepCounts
<1>4. CASE ChooseGroup(r)
  <2>1. PICK g \in run[r].groups :
          Become(r, [run[r] EXCEPT !.pc = "rewrite", !.group = g, !.groups = @ \ {g},
                                   !.current = run[r].state])
    BY <1>4 DEF ChooseGroup
  <2> DEFINE new == [run[r] EXCEPT !.pc = "rewrite", !.group = g, !.groups = @ \ {g},
                                   !.current = run[r].state]
  <2>2. new.pc = "rewrite" /\ new.groups = run[r].groups \ {g} /\ new.attempt = run[r].attempt
    BY <1>1 DEF Run
  <2>3. run'[r] = new /\ run[r].pc = "choose"
    BY <1>2, <1>4, <2>1 DEF ChooseGroup
  <2> HIDE DEF new
  <2>4. Later(new) \in Nat /\ Later(run[r]) = Later(new) + GroupSteps
    BY <1>1, <2>2, LaterLess
  <2>5. Retries(new) = Retries(run[r])
    BY <2>2 DEF Retries
  <2>6. ToDo(new) = Later(new) + Retries(run[r]) + AttemptSteps /\ ToDo(run[r]) = Later(run[r])
    BY <2>2, <2>3, <2>5 DEF ToDo
  <2> QED BY <1>3, <2>3, <2>4, <2>6 DEF Less
<1>5. ASSUME NEW new, run[r].pc \in {"choose", "refresh"}, run'[r] = new, new.pc = "dangling"
      PROVE  Less(run'[r], run[r])
  <2>1. ToDo(new) = AttemptSteps /\ ToDo(run[r]) \in {Later(run[r]), Later(run[r]) + 1}
    BY <1>5 DEF ToDo
  <2> QED BY <1>3, <1>5, <2>1 DEF Less
<1>6. CASE GroupsDone(r)
  <2> DEFINE new == [run[r] EXCEPT !.pc = "dangling", !.phase = "dangling", !.groups = {},
                                   !.state = NoView]
  <2>1. new.pc = "dangling" /\ run'[r] = new /\ run[r].pc = "choose"
    BY <1>1, <1>2, <1>6 DEF GroupsDone, Run
  <2> HIDE DEF new
  <2> QED BY <1>5, <2>1
<1>7. CASE NothingLeft(r)
  <2>1. NextGroup(r, run[r]).pc = "choose" /\ NextGroup(r, run[r]).groups = run[r].groups
    BY <1>1 DEF NextGroup, Run
  <2>2. run'[r] = NextGroup(r, run[r]) /\ run[r].pc = "rewrite" /\ run[r].phase = "group"
    BY <1>1, <1>2, <1>7 DEF NothingLeft, Phased
  <2> QED BY <1>1, <2>1, <2>2, DoneLess
<1>8. CASE RewriteOnce(r)
  <2>1. PICK q : run'[r] = [run[r] EXCEPT !.pc = "await", !.request = q, !.current = NoView]
    BY <1>2, <1>8 DEF RewriteOnce, Offer
  <2>2. run[r].pc = "rewrite" /\ run[r].phase = "group"
    BY <1>1, <1>8 DEF RewriteOnce, Phased
  <2> QED BY <1>1, <2>1, <2>2, OfferLess
<1>9. CASE RewriteFails(r)
  BY <1>1, <1>2, <1>9, GroupFailedLess DEF RewriteFails, Phased
<1>10. CASE Reload(r)
  <2>1. run[r].pc = "reload" /\ run[r].phase = "group"
    BY <1>1, <1>10 DEF Reload, Phased
  <2>2. CASE Become(r, GroupFailed(r, "error"))
    BY <1>1, <1>2, <2>1, <2>2, GroupFailedLess
  <2>3. CASE Become(r, [run[r] EXCEPT !.pc = "rewrite", !.current = table])
    <3> DEFINE new == [run[r] EXCEPT !.pc = "rewrite", !.current = table]
    <3>1. new.pc = "rewrite" /\ new.groups = run[r].groups /\ new.attempt = run[r].attempt
      BY <1>1 DEF Run
    <3>2. run'[r] = new
      BY <1>2, <2>3
    <3> HIDE DEF new
    <3>3. ToDo(new) = Later(run[r]) + Retries(run[r]) + AttemptSteps
      BY <3>1 DEF ToDo, Later, Retries
    <3>4. ToDo(run[r]) = Later(run[r]) + Retries(run[r]) + AttemptSteps + 1
      BY <2>1 DEF ToDo
    <3> QED BY <1>3, <3>2, <3>3, <3>4 DEF Less
  <2> QED BY <1>10, <2>2, <2>3 DEF Reload
<1>11. CASE Refresh(r)
  <2> DEFINE one == [run[r] EXCEPT !.pc = "choose", !.state = table]
             two == [run[r] EXCEPT !.pc = "dangling", !.phase = "dangling", !.groups = {},
                                   !.state = NoView, !.skipped = @ \cup {"error"}]
  <2>1. one.pc = "choose" /\ one.groups = run[r].groups /\ two.pc = "dangling"
    BY <1>1 DEF Run
  <2>2. run[r].pc = "refresh" /\ (run'[r] = one \/ run'[r] = two)
    BY <1>2, <1>11 DEF Refresh
  <2> HIDE DEF one, two
  <2>3. CASE run'[r] = one
    <3>1. ToDo(one) = Later(run[r]) /\ ToDo(run[r]) = Later(run[r]) + 1
      BY <2>1, <2>2 DEF ToDo, Later
    <3> QED BY <1>3, <2>3, <3>1 DEF Less
  <2>4. CASE run'[r] = two
    BY <1>5, <2>1, <2>2, <2>4
  <2> QED BY <2>2, <2>3, <2>4
<1>12. CASE DropDangling(r)
  <2>1. run[r].pc = "dangling" /\ run[r].phase = "dangling"
    BY <1>1, <1>12 DEF DropDangling, Phased
  <2>2. CASE Become(r, Reported(r, run[r])) \/ Become(r, AfterError(r))
    BY <1>1, <1>2, <2>1, <2>2, ReportedLess, AfterErrorLess
  <2>3. CASE Offer(r, table, DanglingDeleteFiles(table.live), {}, 0)
    <3>1. PICK q : run'[r] = [run[r] EXCEPT !.pc = "await", !.request = q, !.current = NoView]
      BY <1>2, <2>3 DEF Offer
    <3> QED BY <1>1, <2>1, <3>1, OfferLess
  <2> QED BY <1>12, <2>2, <2>3 DEF DropDangling
<1>13. CASE Resend(r)
  <2> DEFINE new == [run[r] EXCEPT !.resends = @ + 1]
  <2>1. /\ new.pc = run[r].pc /\ new.phase = run[r].phase /\ new.groups = run[r].groups
        /\ new.attempt = run[r].attempt /\ new.resends = run[r].resends + 1
    BY <1>1 DEF Run
  <2>2. run'[r] = new /\ run[r].pc = "await" /\ run[r].resends \in Nat /\ run[r].resends < MaxResends
    BY <1>1, <1>2, <1>13 DEF Resend, Run
  <2> HIDE DEF new
  <2>3. Later(new) = Later(run[r]) /\ Retries(new) = Retries(run[r])
    BY <2>1 DEF Later, Retries
  <2>4. Sends(new) \in Nat /\ Sends(run[r]) = Sends(new) + 1
    BY <2>1, <2>2, StepCounts DEF Sends
  <2>5. CASE run[r].phase = "dangling"
    <3>1. ToDo(new) = Sends(new) /\ ToDo(run[r]) = Sends(run[r])
      BY <2>1, <2>2, <2>5 DEF ToDo
    <3> QED BY <2>2, <2>4, <3>1 DEF Less
  <2>6. CASE run[r].phase # "dangling"
    <3>1. ToDo(new) = Later(run[r]) + Retries(run[r]) + Sends(new) + 1
          /\ ToDo(run[r]) = Later(run[r]) + Retries(run[r]) + Sends(run[r]) + 1
      BY <2>1, <2>2, <2>3, <2>6 DEF ToDo
    <3> QED BY <1>3, <2>2, <2>4, <3>1 DEF Less
  <2> QED BY <2>5, <2>6
<1>14. CASE GiveUp(r)
  BY <1>1, <1>2, <1>14, AfterErrorLess DEF GiveUp
<1> QED BY <1>4, <1>6, <1>7, <1>8, <1>9, <1>10, <1>11, <1>12, <1>13, <1>14 DEF RunStep

(* What the catalog, others or a crash do to a run leaves it no more to do. *)
LEMMA OthersLess ==
    ASSUME IInv, FInv, [Next]_vars, NEW r \in Replicas, run[r].pc # "idle"
    PROVE  RunStep(r) \/ ToDo(run'[r]) = ToDo(run[r]) \/ Less(run'[r], run[r])
<1>1. run[r] \in Run /\ IsFiniteSet(run[r].groups) /\ run \in [Replicas -> Run]
  BY DEF IInv, FInv, RunFinite
<1>2. ASSUME NEW o \in Replicas, Decline(o) \/ Begin(o) \/ RunStep(o) \/ Crash(o)
      PROVE  RunStep(r) \/ run'[r] = run[r] \/ Less(run'[r], run[r])
  <2>1. CASE o = r
    <3>1. ~ Decline(o) /\ ~ Begin(o)
      BY <2>1 DEF Decline, Begin
    <3>2. CASE Crash(o)
      <4>1. run'[r] = IdleRun(r, run[r].turn, "crashed", {}, {})
        BY <1>1, <2>1, <3>2 DEF Crash, Become
      <4>2. run'[r].pc = "idle"
        BY <4>1 DEF IdleRun
      <4> QED BY <1>1, <4>2, IdleLess
    <3> QED BY <1>2, <2>1, <3>1, <3>2
  <2>2. CASE o # r
    <3>1. \A rec : Become(o, rec) => run'[r] = run[r]
      BY <1>1, <2>2 DEF Become
    <3>2. \E rec : Become(o, rec)
      <4>1. RunStep(o) => \E rec : Become(o, rec)
        BY DEF RunStep, ChooseGroup, GroupsDone, NothingLeft, RewriteOnce, RewriteFails,
               Reload, Refresh, DropDangling, Resend, GiveUp, Offer
      <4> QED BY <1>2, <4>1, Zenon DEF Decline, Begin, Crash
    <3> QED BY <3>1, <3>2
  <2> QED BY <2>1, <2>2
<1>3. ASSUME NEW q \in inflight, Install(q)
      PROVE  ToDo(run'[r]) = ToDo(run[r]) \/ Less(run'[r], run[r])
  <2> DEFINE o == q.owner
             rec == IF run[o].pc # "idle" /\ run[o].turn = q.turn
                      THEN [run[o] EXCEPT !.landed = @ \cup {q.snap}] ELSE run[o]
  <2>1. q.snap \in Nat /\ o \in Replicas /\ run[o] \in Run
    BY DEF IInv, Request
  <2>2. rec \in Run
    BY <2>1, LandedOK DEF IInv, RunOK
  <2>3. /\ rec.pc = run[o].pc /\ rec.phase = run[o].phase /\ rec.groups = run[o].groups
        /\ rec.attempt = run[o].attempt /\ rec.resends = run[o].resends
    BY <2>1 DEF Run
  <2>4. \/ run' = [run EXCEPT ![o] = rec]
        \/ run[o].pc = "await" /\ run' = [run EXCEPT ![o] = AfterCommit(o, rec)]
    BY <1>3 DEF Install, Become, Awaits
  <2> HIDE DEF rec
  <2>5. ToDo(rec) = ToDo(run[o])
    BY <2>3 DEF ToDo, Later, Retries, Sends
  <2>6. CASE run' = [run EXCEPT ![o] = rec]
    BY <1>1, <2>1, <2>5, <2>6
  <2>7. CASE run[o].pc = "await" /\ run' = [run EXCEPT ![o] = AfterCommit(o, rec)]
    <3>1. o = r => Less(AfterCommit(o, rec), rec)
      BY <1>1, <2>1, <2>2, <2>3, <2>7, AfterCommitLess
    <3>2. run'[r] = IF o = r THEN AfterCommit(o, rec) ELSE run[r]
      BY <1>1, <2>1, <2>7
    <3> QED BY <2>5, <3>1, <3>2 DEF Less
  <2> QED BY <2>4, <2>6, <2>7
<1>4. ASSUME NEW q \in inflight, Reject(q)
      PROVE  run'[r] = run[r] \/ Less(run'[r], run[r])
  <2>1. CASE Awaits(q) /\ Become(q.owner, AfterConflict(q.owner))
    <3>1. q.owner \in Replicas
      BY DEF IInv, Request
    <3>2. q.owner = r => Less(AfterConflict(r), run[r])
      BY <1>1, <2>1, AfterConflictLess DEF Awaits
    <3>3. run'[r] = IF q.owner = r THEN AfterConflict(r) ELSE run[r]
      BY <1>1, <2>1, <3>1 DEF Become
    <3> QED BY <3>2, <3>3
  <2> QED BY <1>4, <2>1 DEF Reject
<1>5. Foreground => run' = run
  BY DEF Foreground, Write, MarkRows, DropFile, EvolveSpec, ForegroundCommit
<1>6. UNCHANGED vars => run' = run
  BY DEF vars
<1> QED BY <1>2, <1>3, <1>4, <1>5, <1>6 DEF Next

(* Runs wind down: each step of a run, whatever the catalog answered, and   *)
(* however hard others write to the table, leaves it fewer steps than it    *)
(* had; what others do leaves it no more (ops/compact/mod.rs).  RunsEnd     *)
(* adds that the steps are taken.                                           *)
THEOREM RunsWindDown ==
    Spec => [][\A r \in Replicas : run[r].pc # "idle" =>
                  /\ ToDo(run[r])' \in 0 .. ToDo(run[r])
                  /\ RunStep(r) => ToDo(run[r])' # ToDo(run[r])]_vars
<1>1. ASSUME IInv, FInv, [Next]_vars, NEW r \in Replicas, run[r].pc # "idle"
      PROVE  ToDo(run'[r]) \in 0 .. ToDo(run[r]) /\ (RunStep(r) => ToDo(run'[r]) # ToDo(run[r]))
  <2>1. ToDo(run[r]) \in Nat
    BY <1>1, ToDoIs DEF IInv, FInv, RunFinite
  <2>2. RunStep(r) => Less(run'[r], run[r])
    BY <1>1, RunStepLess
  <2>3. ToDo(run'[r]) = ToDo(run[r]) \/ Less(run'[r], run[r])
    BY <1>1, <2>2, OthersLess
  <2> QED BY <2>1, <2>2, <2>3 DEF Less
<1>2. \A r \in Replicas : ToDo(run[r])' = ToDo(run'[r])
  BY DEF ToDo, Later, Retries, Sends
<1>3. IInv /\ FInv /\ [Next]_vars =>
        \A r \in Replicas : run[r].pc # "idle" =>
           /\ ToDo(run[r])' \in 0 .. ToDo(run[r])
           /\ RunStep(r) => ToDo(run[r])' # ToDo(run[r])
  BY <1>1, <1>2
<1> QED BY <1>3, InvariantHolds, InitFinite, NextFinite, PTL DEF Spec
=============================================================================
