---------------------------- MODULE ReclaimProofs ----------------------------
(***************************************************************************)
(* No cleanup and no scan deletes a file that is needed, for any number of *)
(* processes, files, snapshots, errors and crashes, provided writers       *)
(* commit what they write within the grace period - or nothing is removed  *)
(* but by the cleanup of an expiration, which needs no such promise.       *)
(*                                                                         *)
(* The argument: a file once committed and no longer referenced is never   *)
(* referenced again, so what a cleanup finds unreachable after its commit  *)
(* stays so.  A candidate of a scan was past the grace period when the     *)
(* scan began, so no commit can add it any more; if one added it before,   *)
(* the reload sees it.  A file of a nested table that is old enough to be  *)
(* a candidate was committed, with the metadata document of its table,     *)
(* before the scan began, so the listing meets that document.              *)
(***************************************************************************)
EXTENDS Reclaim, FiniteSetTheorems, TLAPS

-----------------------------------------------------------------------------
(* The inductive invariant *)

Old(f, n, mt) == f \notin NoTime /\ mt[f] + Grace <= n

Committed(w, s) == (w \ s) \ ForeignPaths

(* What writers owe an orphan scan that deletes; nothing else does.        *)
Promised == PromptWriters \/ OrphanMode # "delete"

(* A cycle r against the table t, the paths w ever written, the staged s,   *)
(* the foreign fo, the times mt and the clock c.                            *)
CycleOK(r, t, w, s, fo, mt, c) ==
    /\ r \in Run /\ r.now <= c
    /\ r.pc = "reload" => r.attempt < MaxCommitAttempts
    /\ r.pc = "loaded" => r.cand = {}
    /\ Reach(r.view) \cup Reach(r.base) \cup r.before \subseteq Committed(w, s)
    /\ r.pc = "count" => r.before \cap Reach(t) \subseteq Reach(r.base)
    /\ ForeignRoot \notin r.cand /\ r.cand \subseteq w \ Outside
    /\ \A f \in r.cand : Old(f, r.now, mt)
    /\ r.pc \in {"listed", "verify"} => OrphanMode = "delete" /\ (PromptWriters => r.cand \cap fo = {})
    /\ r.pc = "list" => OrphanMode # "off"
    /\ (PromptWriters /\ r.pc = "list" /\ fo # {} /\ ForeignRoot <= r.cursor)
          => \A f \in fo : ~Old(f, r.now, mt)
    /\ (PromptWriters /\ r.pc = "verify") => r.cand \cap Reach(t) \subseteq Reach(r.base)
    /\ Promised => /\ r.doomed \subseteq w \ (Reach(t) \cup fo \cup Outside)
                   /\ \A f \in r.doomed \cap s : PromptWriters /\ Old(f, c, mt)

StoreOK ==
    /\ table \subseteq Snapshot
    /\ objects \subseteq written /\ written \subseteq Paths
    /\ mtime \in [Paths -> 0 .. MaxClock] /\ staged \subseteq written
    /\ foreign \subseteq written \cap ForeignPaths
    /\ clock \in 0 .. MaxClock /\ stops \in 0 .. MaxStops
    /\ audit \subseteq Paths /\ unrecorded \subseteq Paths
    /\ Reach(table) \subseteq Committed(written, staged)
    /\ Outside \subseteq written
    /\ staged \cap (foreign \cup Outside) = {} /\ ForeignRoot \notin staged
    /\ foreign # {} => ForeignRoot \in foreign
    /\ ForeignRoot \in ForeignPaths \cap written => ForeignRoot \in foreign
    /\ Promised => /\ Reach(table) \cup foreign \cup Outside \subseteq objects
                   /\ StagedFilesSurvive

IInv ==
    /\ StoreOK
    /\ run \in [Processes -> Run]
    /\ \A p \in Processes : CycleOK(run[p], table, written, staged, foreign, mtime, clock)

-----------------------------------------------------------------------------
(* Reachability *)

LEMMA ReachMembers ==
    ASSUME NEW t, NEW f
    PROVE  f \in Reach(t) <=> \E s \in t : f \in s.data \/ f = s.list
BY DEF Reach

LEMMA ReachOfFewer ==
    ASSUME NEW t, NEW u, t \subseteq u
    PROVE  Reach(t) \subseteq Reach(u)
BY DEF Reach

LEMMA ReachOfNone == Reach({}) = {}
BY DEF Reach

LEMMA ReachPaths ==
    ASSUME NEW t \in SUBSET Snapshot
    PROVE  Reach(t) \subseteq Paths
<1> SUFFICES ASSUME NEW f \in Reach(t)
             PROVE  f \in Paths
  OBVIOUS
<1>1. PICK s \in t : f \in s.data \/ f = s.list
  BY ReachMembers
<1>2. s.data \subseteq Paths /\ s.list \in Lists
  BY DEF Snapshot
<1> QED
  BY <1>1, <1>2, ReclaimAssumption

LEMMA Withheld == ASSUME NEW S PROVE WithholdBeyond(S) \subseteq S
BY DEF WithholdBeyond

LEMMA Kept ==
    ASSUME NEW t, NEW n
    PROVE  Retained(t, n) \subseteq t
BY DEF Retained

-----------------------------------------------------------------------------
(* Cycles at rest *)

LEMMA AtRestOK ==
    ASSUME NEW t, NEW w, NEW s, NEW fo, NEW mt, NEW c \in Nat,
           NEW pc \in {"idle", "between", "loaded"}, NEW v \in SUBSET Snapshot,
           NEW d \in SUBSET Snapshot, NEW result \in Results,
           Reach(v) \subseteq Committed(w, s)
    PROVE  CycleOK(AtRest(pc, v, d, result), t, w, s, fo, mt, c)
<1> DEFINE q == AtRest(pc, v, d, result)
<1>1. q \in Run
  BY ReclaimAssumption DEF AtRest, Run
<1>2. /\ q.pc = pc /\ q.now = 0 /\ q.view = v /\ q.base = {}
      /\ q.before = {} /\ q.cand = {} /\ q.doomed = {}
  BY DEF AtRest
<1>3. q.pc \notin {"reload", "count", "list", "listed", "verify"}
  BY <1>2
<1> HIDE DEF q
<1>4. CycleOK(q, t, w, s, fo, mt, c)
  BY <1>1, <1>2, <1>3, ReachOfNone DEF CycleOK
<1> QED
  BY <1>4 DEF q

LEMMA IdleOK ==
    ASSUME NEW t, NEW w, NEW s, NEW fo, NEW mt, NEW c \in Nat
    PROVE  CycleOK(IdleRun, t, w, s, fo, mt, c)
BY AtRestOK, ReachOfNone DEF IdleRun, Results

LEMMA AfterExpireOK ==
    ASSUME NEW t, NEW w, NEW s, NEW fo, NEW mt, NEW c \in Nat, NEW r, NEW result \in Results,
           CycleOK(r, t, w, s, fo, mt, c)
    PROVE  CycleOK(AfterExpire(r, result), t, w, s, fo, mt, c)
<1>1. /\ r.view \in SUBSET Snapshot /\ r.dropped \in SUBSET Snapshot
      /\ Reach(r.view) \subseteq Committed(w, s)
  BY DEF CycleOK, Run
<1> QED
  BY <1>1, AtRestOK DEF AfterExpire

-----------------------------------------------------------------------------
(* What the rest of the world does to a cycle: what becomes needed was       *)
(* staged and in time, or never written.                                     *)
Moves ==
    /\ clock <= clock' /\ written \subseteq written' /\ staged' \cap written \subseteq staged
    /\ \A f \in written \ {ForeignRoot} : mtime'[f] = mtime[f]
    /\ \/ mtime'[ForeignRoot] = mtime[ForeignRoot]
       \/ mtime'[ForeignRoot] = clock
    /\ \A f \in Reach(table') : f \in Reach(table) \/ (f \in staged /\ InTime(f))
    /\ \A f \in foreign' : \/ f \in foreign
                           \/ f \in staged /\ InTime(f)
                           \/ f = ForeignRoot /\ f \notin written
    /\ ForeignRoot \in foreign' \ foreign => mtime'[ForeignRoot] = clock

LEMMA CycleStable ==
    ASSUME NEW r, StoreOK, StoreOK', Moves,
           CycleOK(r, table, written, staged, foreign, mtime, clock)
    PROVE  CycleOK(r, table', written', staged', foreign', mtime', clock')
<1>t. /\ clock \in Nat /\ clock' \in Nat /\ Grace \in Nat \ {0} /\ r \in Run /\ r.now \in Nat
      /\ r.now <= clock /\ clock <= clock' /\ written \subseteq written'
      /\ written \subseteq Paths /\ written' \subseteq Paths
      /\ staged \subseteq written /\ foreign \subseteq written /\ foreign' \subseteq written'
      /\ ForeignRoot \notin staged /\ ForeignRoot \notin staged'
      /\ \A f \in Paths : mtime[f] \in Nat /\ mtime'[f] \in Nat
  <2>1. Grace \in Nat \ {0} /\ MaxClock \in Nat
    BY ReclaimAssumption
  <2>2. r \in Run /\ r.now \in Nat /\ r.now <= clock
    BY DEF CycleOK, Run
  <2>3. \A f \in Paths : mtime[f] \in Nat /\ mtime'[f] \in Nat
    BY DEF StoreOK
  <2> QED
    BY <2>1, <2>2, <2>3 DEF StoreOK, Moves
<1>d. Promised => r.doomed \subseteq written /\ ForeignRoot \notin r.doomed
  <2> SUFFICES ASSUME Promised
               PROVE  r.doomed \subseteq written /\ ForeignRoot \notin r.doomed
    OBVIOUS
  <2>1. r.doomed \subseteq written /\ r.doomed \cap foreign = {}
    BY DEF CycleOK
  <2>2. ForeignRoot \in written => ForeignRoot \in foreign
    BY <1>t, ReclaimAssumption DEF StoreOK
  <2> QED
    BY <2>1, <2>2
<1>1. Committed(written, staged) \subseteq Committed(written', staged')
  BY <1>t DEF Moves, Committed
<1>2. \A f \in written \ {ForeignRoot} : \A n \in Nat : Old(f, n, mtime') <=> Old(f, n, mtime)
  BY DEF Moves, Old
<1>3. \A f \in staged : (InTime(f) /\ PromptWriters) => ~Old(f, clock, mtime)
  BY <1>t DEF InTime, Old
<1>4. \A f \in Paths : Old(f, r.now, mtime) => Old(f, clock, mtime)
  BY <1>t DEF Old
<1>5. \A f \in r.cand : PromptWriters => /\ f \in Reach(table') => f \in Reach(table)
                                         /\ f \in foreign' => f \in foreign
  <2> SUFFICES ASSUME NEW f \in r.cand, PromptWriters
               PROVE  /\ f \in Reach(table') => f \in Reach(table)
                      /\ f \in foreign' => f \in foreign
    OBVIOUS
  <2>1. f \in written /\ f # ForeignRoot /\ Old(f, r.now, mtime)
    BY DEF CycleOK
  <2>2. ~(f \in staged /\ InTime(f))
    BY <2>1, <1>3, <1>4, <1>t
  <2> QED
    BY <2>1, <2>2 DEF Moves
<1>6. Promised => r.doomed \subseteq written' \ (Reach(table') \cup foreign' \cup Outside)
  <2> SUFFICES ASSUME Promised, NEW f \in r.doomed
               PROVE  f \notin Reach(table') /\ f \notin foreign'
    BY <1>d, <1>t DEF CycleOK
  <2>1. f \in written /\ f \notin Reach(table) /\ f \notin foreign
    BY DEF CycleOK
  <2>2. f \in staged => PromptWriters /\ Old(f, clock, mtime)
    BY DEF CycleOK
  <2>3. ~(f \in staged /\ InTime(f))
    BY <2>2, <1>3
  <2> QED
    BY <2>1, <2>3 DEF Moves
<1>7. Promised => \A f \in r.doomed \cap staged' : PromptWriters /\ Old(f, clock', mtime')
  <2> SUFFICES ASSUME Promised, NEW f \in r.doomed, f \in staged'
               PROVE  PromptWriters /\ Old(f, clock', mtime')
    OBVIOUS
  <2>1. f \in written /\ f # ForeignRoot /\ f \in staged
    BY <1>d DEF Moves
  <2>2. PromptWriters /\ Old(f, clock, mtime)
    BY <2>1 DEF CycleOK
  <2>3. Old(f, clock, mtime')
    BY <1>2, <2>1, <2>2, <1>t
  <2>4. mtime'[f] \in Nat
    BY <1>t, <2>1
  <2> QED
    BY <2>2, <2>3, <2>4, <1>t DEF Old
<1>8. ASSUME PromptWriters, r.pc = "list", foreign' # {}, ForeignRoot <= r.cursor,
             NEW f \in foreign'
      PROVE  ~Old(f, r.now, mtime')
  <2>1. CASE f = ForeignRoot /\ mtime'[f] = clock
    BY <2>1, <1>t DEF Old
  <2>2. CASE f = ForeignRoot /\ mtime'[f] # clock
    <3>1. f \in foreign /\ mtime'[f] = mtime[f]
      BY <2>2 DEF Moves
    <3>2. ~Old(f, r.now, mtime)
      BY <3>1, <1>8 DEF CycleOK
    <3> QED
      BY <3>1, <3>2 DEF Old
  <2>3. CASE f # ForeignRoot /\ f \in foreign
    <3>1. ~Old(f, r.now, mtime)
      BY <2>3, <1>8 DEF CycleOK
    <3> QED
      BY <3>1, <2>3, <1>2, <1>t
  <2>4. CASE f # ForeignRoot /\ f \notin foreign
    <3>1. f \in staged /\ InTime(f)
      BY <2>4, <1>8 DEF Moves
    <3>2. ~Old(f, clock, mtime)
      BY <3>1, <1>3, <1>8
    <3>3. f \in written /\ f \in Paths
      BY <3>1, <1>t
    <3>4. ~Old(f, r.now, mtime)
      BY <3>2, <3>3, <1>4
    <3> QED
      BY <3>3, <3>4, <2>4, <1>2, <1>t
  <2> QED
    BY <2>1, <2>2, <2>3, <2>4
<1>9. \A f \in r.cand : Old(f, r.now, mtime')
  BY <1>2, <1>t DEF CycleOK
<1>a. r.pc = "count" => r.before \cap Reach(table') \subseteq Reach(r.base)
  <2>1. r.before \cap staged = {}
    BY DEF CycleOK, Committed
  <2> QED
    BY <2>1 DEF CycleOK, Moves
<1>b. r.pc \in {"listed", "verify"} => OrphanMode = "delete" /\ (PromptWriters => r.cand \cap foreign' = {})
  BY <1>5 DEF CycleOK
<1>c. (PromptWriters /\ r.pc = "verify") => r.cand \cap Reach(table') \subseteq Reach(r.base)
  BY <1>5 DEF CycleOK
<1>e. /\ Reach(r.view) \cup Reach(r.base) \cup r.before \subseteq Committed(written', staged')
      /\ ForeignRoot \notin r.cand /\ r.cand \subseteq written' \ Outside
      /\ r.pc = "list" => OrphanMode # "off"
      /\ r.now <= clock' /\ (r.pc = "reload" => r.attempt < MaxCommitAttempts)
      /\ r.pc = "loaded" => r.cand = {}
  BY <1>1, <1>t DEF CycleOK
<1> QED
  BY <1>6, <1>7, <1>8, <1>9, <1>a, <1>b, <1>c, <1>e, <1>t DEF CycleOK

-----------------------------------------------------------------------------
(* A step of one cycle *)

LEMMA OwnStep ==
    ASSUME IInv, NEW p \in Processes, NEW q, Set(p, q),
           UNCHANGED <<mtime, written, staged, foreign, clock>>, table' \subseteq table, StoreOK',
           CycleOK(q, table', written, staged, foreign, mtime, clock)
    PROVE  IInv'
<1>1. Moves
  <2>1. Reach(table') \subseteq Reach(table) /\ clock \in Nat
    BY ReachOfFewer DEF IInv, StoreOK
  <2> QED
    BY <2>1 DEF Moves
<1>2. run' \in [Processes -> Run] /\ run'[p] = q
  BY DEF IInv, Set, CycleOK
<1>3. \A o \in Processes : CycleOK(run'[o], table', written', staged', foreign', mtime', clock')
  <2> SUFFICES ASSUME NEW o \in Processes
               PROVE  CycleOK(run'[o], table', written', staged', foreign', mtime', clock')
    OBVIOUS
  <2>1. CASE o = p
    BY <2>1, <1>2
  <2>2. CASE o # p
    <3>1. run'[o] = run[o] /\ CycleOK(run[o], table, written, staged, foreign, mtime, clock)
      BY <2>2 DEF IInv, Set
    <3> QED
      BY <3>1, <1>1, CycleStable DEF IInv
  <2> QED
    BY <2>1, <2>2
<1> QED
  BY <1>2, <1>3 DEF IInv

LEMMA QuietStep ==
    ASSUME IInv, NEW p \in Processes, NEW q, Set(p, q),
           UNCHANGED <<table, store, staged, foreign, clock, records>>, stops' \in 0 .. MaxStops,
           CycleOK(q, table, written, staged, foreign, mtime, clock)
    PROVE  IInv'
<1>1. StoreOK'
  BY DEF IInv, StoreOK, StagedFilesSurvive, InTime, store, records
<1>2. CycleOK(q, table', written, staged, foreign, mtime, clock)
  OBVIOUS
<1> QED
  BY <1>1, <1>2, OwnStep DEF store

LEMMA RestStep ==
    ASSUME IInv, NEW p \in Processes, NEW q, Set(p, q),
           q = IdleRun \/ \E result \in Results : q = AfterExpire(run[p], result),
           UNCHANGED <<table, store, staged, foreign, clock, records>>, stops' \in 0 .. MaxStops
    PROVE  IInv'
<1>1. clock \in Nat
  BY DEF IInv, StoreOK
<1>2. CycleOK(q, table, written, staged, foreign, mtime, clock)
  BY <1>1, IdleOK, AfterExpireOK DEF IInv
<1> QED
  BY <1>1, <1>2, QuietStep

LEMMA AtRestSteps ==
    ASSUME IInv, NEW p \in Processes,
           \/ LoadTable(p) \/ Skip(p) \/ Abort(p) \/ Crash(p) \/ Unreadable(p)
           \/ NothingRemoved(p) \/ RefuseSibling(p) \/ DeletionDone(p)
    PROVE  IInv'
<1>1. CASE LoadTable(p)
  <2> DEFINE q == AtRest("loaded", table, {}, "none")
  <2>1. /\ clock \in Nat /\ stops \in 0 .. MaxStops
        /\ table \in SUBSET Snapshot /\ Reach(table) \subseteq Committed(written, staged)
    BY DEF IInv, StoreOK
  <2>2. CycleOK(q, table, written, staged, foreign, mtime, clock)
    BY <2>1, AtRestOK DEF Results
  <2> HIDE DEF q
  <2>3. Set(p, q)
    BY <1>1 DEF LoadTable, q
  <2> QED
    BY <1>1, <2>1, <2>2, <2>3, QuietStep DEF LoadTable
<1>2. CASE ~LoadTable(p)
  <2>1. stops' \in 0 .. MaxStops
    BY <1>2, ReclaimAssumption
       DEF IInv, StoreOK, Skip, Abort, Crash, Unreadable, NothingRemoved, RefuseSibling, DeletionDone
  <2>2. UNCHANGED <<table, store, staged, foreign, clock, records>>
    BY <1>2 DEF Skip, Abort, Crash, Unreadable, NothingRemoved, RefuseSibling, DeletionDone
  <2>3. {"none", "failed", "noop", "succeeded"} \subseteq Results
    BY DEF Results
  <2>4. PICK q : /\ Set(p, q)
                 /\ q = IdleRun \/ \E result \in Results : q = AfterExpire(run[p], result)
    BY <1>2, <2>3 DEF Skip, Abort, Crash, Unreadable, NothingRemoved, RefuseSibling, DeletionDone
  <2> QED
    BY <2>1, <2>2, <2>4, RestStep
<1> QED
  BY <1>1, <1>2

-----------------------------------------------------------------------------
(* Expiration *)

LEMMA StartExpireStep == ASSUME IInv, NEW p \in Processes, StartExpire(p) PROVE IInv'
<1> DEFINE r == run[p]
           reach == IF DeleteFiles THEN Reach(r.view) ELSE {}
           q == [r EXCEPT !.pc = "commit", !.now = clock, !.base = r.view, !.attempt = 1,
                          !.before = reach]
<1>1. /\ CycleOK(r, table, written, staged, foreign, mtime, clock) /\ r \in Run
      /\ clock \in Nat /\ stops \in 0 .. MaxStops /\ r.pc = "loaded"
  BY DEF IInv, StoreOK, StartExpire
<1>2. 1 \in 0 .. MaxCommitAttempts
  BY ReclaimAssumption
<1>3. reach \in SUBSET Paths /\ reach \subseteq Reach(r.view)
  BY <1>1, ReachPaths DEF Run
<1>4. Set(p, q)
  BY DEF StartExpire
<1> HIDE DEF reach, r
<1>5. q \in Run
  BY <1>1, <1>2, <1>3 DEF Run
<1>6. /\ q.pc = "commit" /\ q.now = clock /\ q.base = r.view /\ q.view = r.view
      /\ q.before = reach /\ q.cand = r.cand /\ q.doomed = r.doomed
  BY <1>1 DEF Run
<1> HIDE DEF q
<1>7. CycleOK(q, table, written, staged, foreign, mtime, clock)
  BY <1>1, <1>3, <1>5, <1>6 DEF CycleOK
<1> QED
  BY <1>1, <1>4, <1>7, QuietStep DEF StartExpire

LEMMA CommitExpiryStep == ASSUME IInv, NEW p \in Processes, CommitExpiry(p) PROVE IInv'
<1> DEFINE r == run[p]
           kept == Retained(table, r.now)
           gone == table \ kept
           q == [r EXCEPT !.pc = "count", !.base = kept, !.dropped = gone]
<1>1. /\ CycleOK(r, table, written, staged, foreign, mtime, clock) /\ r \in Run
      /\ clock \in Nat /\ StoreOK /\ r.pc = "commit" /\ table' = kept
  BY DEF IInv, StoreOK, CommitExpiry
<1>2. kept \subseteq table /\ kept \in SUBSET Snapshot /\ gone \in SUBSET Snapshot
  BY <1>1, Kept DEF StoreOK
<1>3. Reach(kept) \subseteq Reach(table) /\ Reach(table) \subseteq Committed(written, staged)
  BY <1>1, <1>2, ReachOfFewer DEF StoreOK
<1>4. Set(p, q) /\ UNCHANGED <<store, staged, foreign, clock, records, stops>>
  BY DEF CommitExpiry
<1> HIDE DEF r, kept, gone
<1>5. q \in Run
  BY <1>1, <1>2 DEF Run
<1>6. /\ q.pc = "count" /\ q.now = r.now /\ q.base = kept /\ q.view = r.view
      /\ q.before = r.before /\ q.cand = r.cand /\ q.doomed = r.doomed
  BY <1>1 DEF Run
<1> HIDE DEF q
<1>7. CycleOK(q, kept, written, staged, foreign, mtime, clock)
  BY <1>1, <1>3, <1>5, <1>6 DEF CycleOK
<1>8. StoreOK'
  BY <1>1, <1>2, <1>3, <1>4 DEF StoreOK, StagedFilesSurvive, InTime, store, records
<1> QED
  BY <1>1, <1>2, <1>4, <1>7, <1>8, OwnStep DEF store

LEMMA LoseCommitStep == ASSUME IInv, NEW p \in Processes, LoseCommit(p) PROVE IInv'
<1> DEFINE r == run[p]
           q == [r EXCEPT !.pc = "reload"]
<1>1. /\ CycleOK(r, table, written, staged, foreign, mtime, clock) /\ r \in Run
      /\ stops \in 0 .. MaxStops /\ r.pc = "commit"
  BY DEF IInv, StoreOK, LoseCommit
<1>2. CASE r.attempt < MaxCommitAttempts
  <2>1. Set(p, q)
    BY <1>2 DEF LoseCommit
  <2> HIDE DEF r
  <2>2. q \in Run
    BY <1>1 DEF Run
  <2>3. /\ q.pc = "reload" /\ q.now = r.now /\ q.base = r.base /\ q.view = r.view
        /\ q.before = r.before /\ q.cand = r.cand /\ q.doomed = r.doomed /\ q.attempt = r.attempt
    BY <1>1 DEF Run
  <2> HIDE DEF q
  <2>4. CycleOK(q, table, written, staged, foreign, mtime, clock)
    BY <1>1, <1>2, <2>2, <2>3 DEF CycleOK
  <2> QED
    BY <1>1, <2>1, <2>4, QuietStep DEF LoseCommit
<1>3. CASE ~(r.attempt < MaxCommitAttempts)
  <2>1. Set(p, AfterExpire(run[p], "conflicted")) /\ "conflicted" \in Results
    BY <1>3 DEF LoseCommit, Results
  <2> QED
    BY <1>1, <2>1, RestStep DEF LoseCommit
<1> QED
  BY <1>2, <1>3

LEMMA ReloadTableStep == ASSUME IInv, NEW p \in Processes, ReloadTable(p) PROVE IInv'
<1> DEFINE r == run[p]
           next == r.attempt + 1
           q == [r EXCEPT !.pc = "commit", !.base = table, !.attempt = next]
<1>1. /\ CycleOK(r, table, written, staged, foreign, mtime, clock) /\ r \in Run
      /\ stops \in 0 .. MaxStops /\ r.pc = "reload"
      /\ table \in SUBSET Snapshot /\ Reach(table) \subseteq Committed(written, staged)
  BY DEF IInv, StoreOK, ReloadTable
<1>2. next \in 0 .. MaxCommitAttempts
  BY <1>1, ReclaimAssumption DEF CycleOK, Run
<1>3. Set(p, q)
  BY DEF ReloadTable
<1> HIDE DEF r, next
<1>4. q \in Run
  BY <1>1, <1>2 DEF Run
<1>5. /\ q.pc = "commit" /\ q.now = r.now /\ q.base = table /\ q.view = r.view
      /\ q.before = r.before /\ q.cand = r.cand /\ q.doomed = r.doomed
  BY <1>1 DEF Run
<1> HIDE DEF q
<1>6. CycleOK(q, table, written, staged, foreign, mtime, clock)
  BY <1>1, <1>4, <1>5 DEF CycleOK
<1> QED
  BY <1>1, <1>3, <1>6, QuietStep DEF ReloadTable

(* What was committed before the expiration and is unreachable after it is  *)
(* neither staged nor of the nested table, and stays unreachable.           *)
LEMMA CleanupStep == ASSUME IInv, NEW p \in Processes, Cleanup(p) PROVE IInv'
<1> DEFINE r == run[p]
           doomed == WithholdBeyond(NowUnreachable(r))
           q == [r EXCEPT !.pc = "toClean", !.doomed = doomed]
<1>1. /\ CycleOK(r, table, written, staged, foreign, mtime, clock) /\ r \in Run
      /\ stops \in 0 .. MaxStops /\ r.pc = "count"
      /\ foreign \subseteq ForeignPaths
  BY DEF IInv, StoreOK, Cleanup
<1>2. doomed \subseteq (r.before \ Reach(r.base)) \ Outside
  BY Withheld DEF NowUnreachable
<1>3. Set(p, q)
  BY DEF Cleanup
<1> HIDE DEF r, doomed
<1>4. doomed \in SUBSET Paths
  BY <1>1, <1>2 DEF Run
<1>5. q \in Run
  BY <1>1, <1>4 DEF Run
<1>6. /\ q.pc = "toClean" /\ q.now = r.now /\ q.base = r.base /\ q.view = r.view
      /\ q.before = r.before /\ q.cand = r.cand /\ q.doomed = doomed
  BY <1>1 DEF Run
<1> HIDE DEF q
<1>7. doomed \subseteq written \ (Reach(table) \cup foreign \cup Outside) /\ doomed \cap staged = {}
  BY <1>1, <1>2 DEF CycleOK, Committed
<1>8. CycleOK(q, table, written, staged, foreign, mtime, clock)
  BY <1>1, <1>5, <1>6, <1>7 DEF CycleOK
<1> QED
  BY <1>1, <1>3, <1>4, <1>8, QuietStep DEF Cleanup

-----------------------------------------------------------------------------
(* Orphan removal *)

LEMMA StartScanStep == ASSUME IInv, NEW p \in Processes, StartScan(p) PROVE IInv'
<1> DEFINE r == run[p]
           q == [r EXCEPT !.pc = "list", !.now = clock, !.cand = {}, !.cursor = 0]
<1>1. /\ CycleOK(r, table, written, staged, foreign, mtime, clock) /\ r \in Run
      /\ clock \in Nat /\ stops \in 0 .. MaxStops
      /\ OrphanMode # "off" /\ (foreign # {} => ForeignRoot \in Paths)
  BY ReclaimAssumption DEF IInv, StoreOK, StartScan
<1>2. foreign # {} => ~(ForeignRoot <= 0)
  <2>1. foreign # {} => ForeignRoot \in Nat /\ ForeignRoot # 0
    BY <1>1, ReclaimAssumption
  <2> HIDE DEF r, q
  <2> QED
    BY <2>1
<1>3. Set(p, q)
  BY DEF StartScan
<1> HIDE DEF r
<1>4. q \in Run
  BY <1>1 DEF Run
<1>5. /\ q.pc = "list" /\ q.now = clock /\ q.base = r.base /\ q.view = r.view
      /\ q.before = r.before /\ q.cand = {} /\ q.doomed = r.doomed /\ q.cursor = 0
  BY <1>1 DEF Run
<1> HIDE DEF q
<1>6. CycleOK(q, table, written, staged, foreign, mtime, clock)
  BY <1>1, <1>2, <1>4, <1>5 DEF CycleOK
<1> QED
  BY <1>1, <1>3, <1>6, QuietStep DEF StartScan

(* The cursor passes the metadata document of the nested table only if it   *)
(* was not there: the document itself ends the scan.                        *)
LEMMA ListObjectStep == ASSUME IInv, NEW p \in Processes, ListObject(p) PROVE IInv'
<1> DEFINE r == run[p]
<1>1. /\ CycleOK(r, table, written, staged, foreign, mtime, clock) /\ r \in Run
      /\ StoreOK /\ stops \in 0 .. MaxStops
  BY DEF IInv, StoreOK
<1>2. PICK f \in objects :
         /\ r.pc = "list" /\ f > r.cursor
         /\ \A g \in objects : g > r.cursor => f <= g
         /\ Set(p, IF f = ForeignRoot THEN IdleRun
                   ELSE [r EXCEPT !.cursor = f,
                                  !.cand = IF IsCandidate(f, r) THEN @ \cup {f} ELSE @])
  BY DEF ListObject
<1>3. UNCHANGED <<table, store, staged, foreign, clock, records, stops>>
  BY DEF ListObject
<1>4. f \in written /\ f \in Paths /\ f \in Nat /\ r.cursor \in Nat
  BY <1>1, <1>2, ReclaimAssumption DEF StoreOK, Run
<1>5. CASE f = ForeignRoot
  <2>1. Set(p, IdleRun)
    BY <1>2, <1>5
  <2> QED
    BY <1>1, <1>3, <2>1, RestStep
<1>6. CASE f # ForeignRoot
  <2> DEFINE more == IF IsCandidate(f, r) THEN r.cand \cup {f} ELSE r.cand
             q == [r EXCEPT !.cursor = f, !.cand = more]
  <2>1. Set(p, q)
    BY <1>2, <1>6
  <2>2. more \in SUBSET Paths
    BY <1>1, <1>4 DEF Run
  <2>3. ForeignRoot \notin more /\ more \subseteq written \ Outside
    BY <1>1, <1>4, <1>6 DEF CycleOK, IsCandidate
  <2>4. \A g \in more : Old(g, r.now, mtime)
    BY <1>1 DEF CycleOK, IsCandidate, Old
  <2>5. PromptWriters /\ foreign # {} /\ ForeignRoot <= f => \A g \in foreign : ~Old(g, r.now, mtime)
    <3> SUFFICES ASSUME PromptWriters, foreign # {}, ForeignRoot <= f
                 PROVE  \A g \in foreign : ~Old(g, r.now, mtime)
      OBVIOUS
    <3>1. ForeignRoot \in objects /\ ForeignRoot \in Nat
      BY <1>1, ReclaimAssumption DEF StoreOK, Promised
    <3>2. ForeignRoot <= r.cursor
      BY <1>2, <1>4, <1>6, <3>1
    <3> QED
      BY <1>1, <1>2, <3>2 DEF CycleOK
  <2> HIDE DEF r, more
  <2>6. q \in Run
    BY <1>1, <1>4, <2>2 DEF Run
  <2>7. /\ q.pc = r.pc /\ q.now = r.now /\ q.base = r.base /\ q.view = r.view
        /\ q.before = r.before /\ q.cand = more /\ q.doomed = r.doomed /\ q.cursor = f
    BY <1>1 DEF Run
  <2> HIDE DEF q
  <2>8. CycleOK(q, table, written, staged, foreign, mtime, clock)
    BY <1>1, <1>2, <2>3, <2>4, <2>5, <2>6, <2>7 DEF CycleOK
  <2> QED
    BY <1>1, <1>3, <2>1, <2>8, QuietStep
<1> QED
  BY <1>5, <1>6

LEMMA EndListingStep == ASSUME IInv, NEW p \in Processes, EndListing(p) PROVE IInv'
<1> DEFINE r == run[p]
           q == [r EXCEPT !.pc = "listed"]
<1>1. /\ CycleOK(r, table, written, staged, foreign, mtime, clock) /\ r \in Run
      /\ StoreOK /\ stops \in 0 .. MaxStops
      /\ r.pc = "list" /\ \A g \in objects : g <= r.cursor
  BY DEF IInv, StoreOK, EndListing
<1>2. CASE OrphanMode = "dry-run" \/ r.cand = {}
  <2>1. Set(p, IdleRun)
    BY <1>2 DEF EndListing
  <2> QED
    BY <1>1, <2>1, RestStep DEF EndListing
<1>3. CASE ~(OrphanMode = "dry-run" \/ r.cand = {})
  <2>1. Set(p, q)
    BY <1>3 DEF EndListing
  <2>2. OrphanMode = "delete"
    BY <1>1, <1>3, ReclaimAssumption DEF CycleOK
  <2>3. PromptWriters => r.cand \cap foreign = {}
    <3> SUFFICES ASSUME PromptWriters, foreign # {}
                 PROVE  r.cand \cap foreign = {}
      OBVIOUS
    <3>1. ForeignRoot \in objects
      BY <1>1 DEF StoreOK, Promised
    <3>2. \A g \in foreign : ~Old(g, r.now, mtime)
      BY <1>1, <3>1 DEF CycleOK
    <3> QED
      BY <1>1, <3>2 DEF CycleOK
  <2> HIDE DEF r
  <2>4. q \in Run
    BY <1>1 DEF Run
  <2>5. /\ q.pc = "listed" /\ q.now = r.now /\ q.base = r.base /\ q.view = r.view
        /\ q.before = r.before /\ q.cand = r.cand /\ q.doomed = r.doomed
    BY <1>1 DEF Run
  <2> HIDE DEF q
  <2>6. CycleOK(q, table, written, staged, foreign, mtime, clock)
    BY <1>1, <2>2, <2>3, <2>4, <2>5 DEF CycleOK
  <2> QED
    BY <1>1, <2>1, <2>6, QuietStep DEF EndListing
<1> QED
  BY <1>2, <1>3

LEMMA ReloadAfterListingStep ==
    ASSUME IInv, NEW p \in Processes, ReloadAfterListing(p) PROVE IInv'
<1> DEFINE r == run[p]
           q == [r EXCEPT !.pc = "verify", !.base = table]
<1>1. /\ CycleOK(r, table, written, staged, foreign, mtime, clock) /\ r \in Run
      /\ stops \in 0 .. MaxStops /\ r.pc = "listed"
      /\ table \in SUBSET Snapshot /\ Reach(table) \subseteq Committed(written, staged)
  BY DEF IInv, StoreOK, ReloadAfterListing
<1>2. Set(p, q)
  BY DEF ReloadAfterListing
<1> HIDE DEF r
<1>3. q \in Run
  BY <1>1 DEF Run
<1>4. /\ q.pc = "verify" /\ q.now = r.now /\ q.base = table /\ q.view = r.view
      /\ q.before = r.before /\ q.cand = r.cand /\ q.doomed = r.doomed
  BY <1>1 DEF Run
<1> HIDE DEF q
<1>5. CycleOK(q, table, written, staged, foreign, mtime, clock)
  BY <1>1, <1>3, <1>4 DEF CycleOK
<1> QED
  BY <1>1, <1>2, <1>5, QuietStep DEF ReloadAfterListing

LEMMA ReverifyStep == ASSUME IInv, NEW p \in Processes, Reverify(p) PROVE IInv'
<1> DEFINE r == run[p]
           doomed == WithholdBeyond(Reverified(r))
           q == [r EXCEPT !.pc = "toSweep", !.doomed = doomed]
<1>1. /\ CycleOK(r, table, written, staged, foreign, mtime, clock) /\ r \in Run
      /\ StoreOK /\ stops \in 0 .. MaxStops /\ r.pc = "verify"
  BY DEF IInv, StoreOK, Reverify
<1>2. doomed \subseteq r.cand \ Reach(r.base)
  BY Withheld DEF Reverified
<1>3. Set(p, q)
  BY DEF Reverify
<1> HIDE DEF r, doomed
<1>4. doomed \in SUBSET Paths
  BY <1>1, <1>2 DEF Run
<1>5. q \in Run
  BY <1>1, <1>4 DEF Run
<1>6. /\ q.pc = "toSweep" /\ q.now = r.now /\ q.base = r.base /\ q.view = r.view
      /\ q.before = r.before /\ q.cand = r.cand /\ q.doomed = doomed
  BY <1>1 DEF Run
<1> HIDE DEF q
<1>7. Promised => PromptWriters
  BY <1>1 DEF CycleOK, Promised
<1>8. PromptWriters => doomed \subseteq written \ (Reach(table) \cup foreign \cup Outside)
  BY <1>1, <1>2 DEF CycleOK
<1>9. \A f \in doomed : Old(f, clock, mtime)
  <2> SUFFICES ASSUME NEW f \in doomed
               PROVE  Old(f, clock, mtime)
    OBVIOUS
  <2>1. Old(f, r.now, mtime) /\ r.now <= clock /\ r.now \in Nat /\ clock \in Nat
    BY <1>1, <1>2 DEF CycleOK, Run, StoreOK
  <2>2. mtime[f] \in Nat /\ Grace \in Nat
    BY <1>1, <1>4, ReclaimAssumption DEF StoreOK
  <2> QED
    BY <2>1, <2>2 DEF Old
<1>10. CycleOK(q, table, written, staged, foreign, mtime, clock)
  BY <1>1, <1>5, <1>6, <1>7, <1>8, <1>9 DEF CycleOK
<1> QED
  BY <1>1, <1>3, <1>4, <1>10, QuietStep DEF Reverify

-----------------------------------------------------------------------------
(* Deletion *)

LEMMA AnnounceStep == ASSUME IInv, NEW p \in Processes, Announce(p) PROVE IInv'
<1> DEFINE r == run[p]
           next == IF r.pc = "toClean" THEN "clean" ELSE "sweep"
           q == [r EXCEPT !.pc = next]
<1>1. /\ CycleOK(r, table, written, staged, foreign, mtime, clock) /\ r \in Run
      /\ StoreOK /\ r.pc \in {"toClean", "toSweep"} /\ r.doomed \subseteq Paths
  BY DEF IInv, Announce, Run
<1>2. Set(p, q) /\ UNCHANGED <<table, store, staged, foreign, clock>>
  BY DEF Announce
<1>3. audit' \subseteq Paths /\ unrecorded' \subseteq Paths /\ stops' \in 0 .. MaxStops
  BY <1>1, ReclaimAssumption DEF Announce, StoreOK
<1>4. StoreOK'
  BY <1>1, <1>2, <1>3 DEF StoreOK, StagedFilesSurvive, InTime, store
<1>5. next \in {"clean", "sweep"}
  OBVIOUS
<1> HIDE DEF r, next
<1>6. q \in Run
  BY <1>1, <1>5 DEF Run
<1>7. /\ q.pc = next /\ q.now = r.now /\ q.base = r.base /\ q.view = r.view
      /\ q.before = r.before /\ q.cand = r.cand /\ q.doomed = r.doomed
  BY <1>1 DEF Run
<1> HIDE DEF q
<1>8. CycleOK(q, table', written, staged, foreign, mtime, clock)
  BY <1>1, <1>2, <1>5, <1>6, <1>7 DEF CycleOK
<1> QED
  BY <1>2, <1>4, <1>8, OwnStep DEF store

LEMMA LessDoomed ==
    ASSUME NEW p \in Processes, IInv, NEW f
    PROVE  CycleOK([run[p] EXCEPT !.doomed = @ \ {f}], table, written, staged, foreign, mtime, clock)
<1> DEFINE r == run[p]
           less == r.doomed \ {f}
           q == [r EXCEPT !.doomed = less]
<1>1. CycleOK(r, table, written, staged, foreign, mtime, clock) /\ r \in Run
  BY DEF IInv
<1>2. q = [run[p] EXCEPT !.doomed = @ \ {f}]
  BY <1>1 DEF Run
<1> HIDE DEF r
<1>3. less \in SUBSET Paths /\ less \subseteq r.doomed
  BY <1>1 DEF Run
<1> HIDE DEF less
<1>4. q \in Run
  BY <1>1, <1>3 DEF Run
<1>5. /\ q.pc = r.pc /\ q.now = r.now /\ q.base = r.base /\ q.view = r.view /\ q.cursor = r.cursor
      /\ q.before = r.before /\ q.cand = r.cand /\ q.doomed = less /\ q.attempt = r.attempt
  BY <1>1 DEF Run
<1> HIDE DEF q
<1>6. CycleOK(q, table, written, staged, foreign, mtime, clock)
  BY <1>1, <1>3, <1>4, <1>5 DEF CycleOK
<1> QED
  BY <1>2, <1>6

LEMMA DeletionSteps ==
    ASSUME IInv, NEW p \in Processes, NEW f \in Paths, Delete(p, f) \/ DeleteFails(p, f)
    PROVE  IInv'
<1> DEFINE q == [run[p] EXCEPT !.doomed = @ \ {f}]
<1>1. CycleOK(q, table, written, staged, foreign, mtime, clock)
  BY LessDoomed
<1>2. Set(p, q) /\ f \in run[p].doomed
  BY DEF Delete, DeleteFails
<1>3. /\ CycleOK(run[p], table, written, staged, foreign, mtime, clock)
      /\ StoreOK /\ stops \in 0 .. MaxStops
  BY DEF IInv, StoreOK
<1> HIDE DEF q
<1>4. CASE DeleteFails(p, f)
  BY <1>1, <1>2, <1>3, <1>4, QuietStep DEF DeleteFails
<1>5. CASE Delete(p, f)
  <2>1. objects' = objects \ {f} /\ UNCHANGED <<table, mtime, written, staged, foreign, clock, records, stops>>
    BY <1>5 DEF Delete
  <2>2. Promised => Reach(table) \cup foreign \cup Outside \subseteq objects \ {f}
    BY <1>2, <1>3 DEF CycleOK, StoreOK
  <2>3. Promised => StagedFilesSurvive'
    <3>1. Promised /\ f \in staged => PromptWriters /\ Old(f, clock, mtime)
      BY <1>2, <1>3 DEF CycleOK
    <3>2. clock \in Nat /\ mtime[f] \in Nat /\ Grace \in Nat
      BY <1>3, ReclaimAssumption DEF StoreOK
    <3>3. Promised /\ f \in staged => ~InTime(f)
      BY <3>1, <3>2 DEF InTime, Old
    <3> QED
      BY <1>3, <2>1, <3>3 DEF StoreOK, StagedFilesSurvive, InTime
  <2>4. StoreOK'
    BY <1>3, <2>1, <2>2, <2>3 DEF StoreOK, records
  <2> QED
    BY <1>1, <1>2, <2>1, <2>4, OwnStep
<1> QED
  BY <1>4, <1>5

-----------------------------------------------------------------------------
(* Writers, the other table and time *)

LEMMA EnvironmentStep ==
    ASSUME IInv, StoreOK', Moves, UNCHANGED run
    PROVE  IInv'
BY CycleStable DEF IInv

LEMMA StageStep == ASSUME IInv, NEW f \in Paths, Stage(f) PROVE IInv'
<1>1. /\ StoreOK /\ clock \in Nat /\ f \notin written /\ f # ForeignRoot
      /\ objects' = objects \cup {f} /\ written' = written \cup {f} /\ staged' = staged \cup {f}
      /\ mtime' = [mtime EXCEPT ![f] = clock]
      /\ UNCHANGED <<table, foreign, clock, records, run, stops>>
  BY DEF IInv, StoreOK, Stage
<1>2. /\ mtime' \in [Paths -> 0 .. MaxClock]
      /\ \A g \in written \cup {ForeignRoot} : mtime'[g] = mtime[g]
  BY <1>1 DEF StoreOK
<1>3. Moves
  BY <1>1, <1>2 DEF Moves
<1>4. Promised => StagedFilesSurvive'
  BY <1>1, <1>2 DEF StoreOK, StagedFilesSurvive, InTime
<1>5. Committed(written', staged') = Committed(written, staged)
  BY <1>1 DEF Committed
<1>6. StoreOK'
  BY <1>1, <1>2, <1>4, <1>5 DEF StoreOK, records
<1> QED
  BY <1>1, <1>3, <1>6, EnvironmentStep

LEMMA WriterCommitStep == ASSUME IInv, WriterCommit PROVE IInv'
<1>1. PICK add \in SUBSET (staged \ ForeignPaths), l \in Lists, head \in table :
         /\ add \cap Lists = {l}
         /\ \A f \in add : InTime(f)
         /\ \E keep \in SUBSET head.data :
               table' = table \cup {[list |-> l, data |-> keep \cup (add \ {l}),
                                     at |-> clock, seq |-> head.seq + 1]}
         /\ staged' = staged \ add
         /\ UNCHANGED <<store, foreign, clock, records, run, stops>>
  BY DEF WriterCommit
<1>2. PICK keep \in SUBSET head.data :
         table' = table \cup {[list |-> l, data |-> keep \cup (add \ {l}),
                               at |-> clock, seq |-> head.seq + 1]}
  BY <1>1
<1> DEFINE data == keep \cup (add \ {l})
           new == [list |-> l, data |-> data, at |-> clock, seq |-> head.seq + 1]
<1>3. /\ StoreOK /\ clock \in Nat /\ head \in Snapshot /\ l \in add
      /\ add \subseteq staged /\ add \subseteq written /\ add \subseteq Paths /\ add \cap ForeignPaths = {}
  BY <1>1 DEF IInv, StoreOK
<1>4. head.data \subseteq Reach(table)
  BY ReachMembers
<1>5. data \in SUBSET Paths /\ data \subseteq Reach(table) \cup add
  BY <1>3, <1>4 DEF Snapshot
<1>6. new \in Snapshot
  BY <1>3, <1>5 DEF Snapshot
<1>7. table' = table \cup {new} /\ new.data = data /\ new.list = l
  BY <1>2
<1> HIDE DEF new, data
<1>8. Reach(table') \subseteq Reach(table) \cup add
  BY <1>3, <1>5, <1>7, ReachMembers
<1>9. table' \subseteq Snapshot
  BY <1>3, <1>6, <1>7 DEF StoreOK
<1>10. Moves
  <2>1. \A f \in Reach(table') : f \in Reach(table) \/ (f \in staged /\ InTime(f))
    BY <1>1, <1>3, <1>8
  <2>2. /\ clock' = clock /\ written' = written /\ mtime' = mtime /\ foreign' = foreign
        /\ staged' \subseteq staged
    BY <1>1 DEF store
  <2> QED
    BY <1>3, <2>1, <2>2 DEF Moves
<1>11. Reach(table') \subseteq Committed(written', staged')
  BY <1>1, <1>3, <1>8 DEF StoreOK, Committed, store
<1>12. Promised => add \subseteq objects
  BY <1>1, <1>3 DEF StoreOK, StagedFilesSurvive
<1>13. Promised => StagedFilesSurvive'
  BY <1>1, <1>3 DEF StoreOK, StagedFilesSurvive, InTime, store
<1>14. StoreOK'
  BY <1>1, <1>3, <1>8, <1>9, <1>11, <1>12, <1>13 DEF StoreOK, store, records
<1> QED
  BY <1>1, <1>10, <1>14, EnvironmentStep

LEMMA ForeignCommitStep == ASSUME IInv, ForeignCommit PROVE IInv'
<1>1. PICK add \in SUBSET (staged \cap ForeignPaths) :
         /\ ForeignRoot \in ForeignPaths
         /\ \A f \in add : InTime(f)
         /\ foreign' = foreign \cup add \cup {ForeignRoot}
         /\ objects' = objects \cup {ForeignRoot} /\ written' = written \cup {ForeignRoot}
         /\ mtime' = [mtime EXCEPT ![ForeignRoot] = clock]
         /\ staged' = staged \ add
         /\ UNCHANGED <<table, clock, records, run, stops>>
  BY DEF ForeignCommit
<1>2. /\ StoreOK /\ clock \in 0 .. MaxClock /\ clock \in Nat /\ ForeignRoot \in Paths
      /\ add \subseteq staged /\ add \subseteq written /\ add \subseteq ForeignPaths
      /\ ForeignRoot \notin staged /\ (ForeignRoot \in written => ForeignRoot \in foreign)
      /\ ForeignRoot \notin Outside
  BY <1>1, ReclaimAssumption DEF IInv, StoreOK
<1>3. /\ mtime' \in [Paths -> 0 .. MaxClock] /\ mtime'[ForeignRoot] = clock
      /\ \A g \in written \ {ForeignRoot} : mtime'[g] = mtime[g]
  BY <1>1, <1>2 DEF StoreOK
<1>4. Moves
  BY <1>1, <1>2, <1>3 DEF Moves
<1>5. Promised => add \subseteq objects
  BY <1>1, <1>2 DEF StoreOK, StagedFilesSurvive
<1>6. Promised => StagedFilesSurvive'
  BY <1>1, <1>2, <1>3 DEF StoreOK, StagedFilesSurvive, InTime
<1>7. Committed(written, staged) \subseteq Committed(written', staged')
  BY <1>1 DEF Committed
<1>8. Reach(table') = Reach(table)
  BY <1>1
<1>9. StoreOK'
  BY <1>1, <1>2, <1>3, <1>5, <1>6, <1>7, <1>8 DEF StoreOK, records
<1> QED
  BY <1>1, <1>4, <1>9, EnvironmentStep

LEMMA TickStep == ASSUME IInv, Tick PROVE IInv'
<1>1. /\ StoreOK /\ clock \in Nat /\ clock < MaxClock /\ clock' = clock + 1 /\ MaxClock \in Nat
      /\ UNCHANGED <<table, store, staged, foreign, records, run, stops>>
  BY ReclaimAssumption DEF IInv, StoreOK, Tick
<1>2. Moves
  BY <1>1 DEF Moves, store
<1>3. Promised => StagedFilesSurvive'
  <2> SUFFICES ASSUME Promised, NEW f \in staged, InTime(f)'
               PROVE  f \in objects
    BY <1>1 DEF StagedFilesSurvive, store
  <2>1. mtime[f] \in Nat /\ Grace \in Nat
    <3>1. mtime \in [Paths -> 0 .. MaxClock] /\ f \in Paths
      BY <1>1 DEF StoreOK
    <3> QED
      BY <3>1, ReclaimAssumption
  <2>2. InTime(f)
    BY <1>1, <2>1 DEF InTime, store
  <2> QED
    BY <1>1, <2>2 DEF StoreOK, StagedFilesSurvive
<1>4. StoreOK'
  BY <1>1, <1>3 DEF StoreOK, store, records
<1> QED
  BY <1>1, <1>2, <1>4, EnvironmentStep

-----------------------------------------------------------------------------
(* The invariant *)

LEMMA InitIInv == Init => IInv
<1> SUFFICES ASSUME Init PROVE IInv
  OBVIOUS
<1>1. /\ table = Seed /\ staged = SeedStaged /\ objects = Reach(Seed) \cup SeedStaged \cup Outside
      /\ written = objects /\ mtime = [f \in Paths |-> 0] /\ foreign = {} /\ clock = 0
      /\ audit = {} /\ unrecorded = {} /\ stops = 0 /\ run = [p \in Processes |-> IdleRun]
  BY DEF Init
<1>2. Reach(Seed) \subseteq Paths /\ Reach(Seed) \cap (SeedStaged \cup ForeignPaths) = {}
  <2>1. Reach(Seed) \subseteq Paths
    BY ReachPaths, ReclaimAssumption
  <2> SUFFICES ASSUME NEW f \in Reach(Seed)
               PROVE  f \notin SeedStaged /\ f \notin ForeignPaths
    BY <2>1
  <2>2. PICK s \in Seed : f \in s.data \/ f = s.list
    BY ReachMembers
  <2>3. s.list \in Lists
    BY ReclaimAssumption DEF Snapshot
  <2> QED
    BY <2>2, <2>3, ReclaimAssumption
<1>3. /\ SeedStaged \subseteq Paths /\ SeedStaged \cap Outside = {} /\ ForeignRoot \notin SeedStaged
      /\ Outside \subseteq Paths /\ MaxClock \in Nat /\ MaxStops \in Nat /\ Seed \subseteq Snapshot
      /\ Outside \cap ForeignPaths = {}
  BY ReclaimAssumption
<1>4. written \subseteq Paths /\ (ForeignRoot \in ForeignPaths => ForeignRoot \notin written)
  BY <1>1, <1>2, <1>3
<1>5. Reach(table) \subseteq Committed(written, staged)
  BY <1>1, <1>2 DEF Committed
<1>6. mtime \in [Paths -> 0 .. MaxClock] /\ clock \in 0 .. MaxClock /\ stops \in 0 .. MaxStops
  BY <1>1, <1>3
<1>7. StoreOK
  BY <1>1, <1>3, <1>4, <1>5, <1>6 DEF StoreOK, StagedFilesSurvive
<1>8. \A p \in Processes : CycleOK(run[p], table, written, staged, foreign, mtime, clock)
  BY <1>1, IdleOK
<1>9. run \in [Processes -> Run]
  BY <1>1, <1>8 DEF CycleOK
<1> QED
  BY <1>7, <1>8, <1>9 DEF IInv

LEMMA NextIInv == IInv /\ [Next]_vars => IInv'
<1> SUFFICES ASSUME IInv, [Next]_vars PROVE IInv'
  OBVIOUS
<1>1. ASSUME NEW p \in Processes, Cycle(p) \/ Abort(p) \/ Crash(p)
      PROVE  IInv'
  BY <1>1, AtRestSteps, StartExpireStep, CommitExpiryStep, LoseCommitStep, ReloadTableStep,
     CleanupStep, StartScanStep, ListObjectStep, EndListingStep, ReloadAfterListingStep,
     ReverifyStep, AnnounceStep, DeletionSteps
     DEF Cycle
<1>2. CASE Environment
  BY <1>2, StageStep, WriterCommitStep, ForeignCommitStep, TickStep DEF Environment
<1>3. CASE UNCHANGED vars
  <2>1. StoreOK'
    BY <1>3 DEF vars, store, IInv, StoreOK, StagedFilesSurvive, InTime
  <2> QED
    BY <1>3, <2>1 DEF vars, store, IInv
<1> QED
  BY <1>1, <1>2, <1>3 DEF Next

-----------------------------------------------------------------------------
(* Every variable always holds a value of its kind: attempts stay within    *)
(* their limit, and cycles only ever handle paths and snapshots there are.  *)
THEOREM TypeCorrect == Spec => []TypeOK
<1>1. IInv => TypeOK
  BY DEF IInv, StoreOK, TypeOK
<1> QED
  BY <1>1, InitIInv, NextIInv, PTL DEF Spec

(* While writers keep the promise the grace period rests on, or no scan     *)
(* deletes, nothing that is needed is ever deleted.                         *)
THEOREM LiveFilesAlwaysSurvive ==
    ASSUME PromptWriters \/ OrphanMode # "delete"
    PROVE  Spec => []LiveFilesSurvive
<1>1. Protected = Reach(table) \cup foreign \cup Outside
  BY DEF Protected, Reach
<1>2. IInv => LiveFilesSurvive
  BY <1>1 DEF IInv, StoreOK, Promised, LiveFilesSurvive
<1> QED
  BY <1>2, InitIInv, NextIInv, PTL DEF Spec

(* Under the same promise, a file written is there until it is committed.   *)
THEOREM StagedFilesAlwaysSurvive ==
    ASSUME PromptWriters \/ OrphanMode # "delete"
    PROVE  Spec => []StagedFilesSurvive
<1>1. IInv => StagedFilesSurvive
  BY DEF IInv, StoreOK, Promised
<1> QED
  BY <1>1, InitIInv, NextIInv, PTL DEF Spec

-----------------------------------------------------------------------------
(* The ceiling: the first paths of a list number at most Ceiling, since a    *)
(* path's rank in the list is below it and no two paths share a rank.        *)
LEMMA CeilingHolds ==
    ASSUME NEW S \in SUBSET Paths
    PROVE  Cardinality(WithholdBeyond(S)) <= Ceiling
<1> DEFINE below(f) == {g \in S : g < f}
           W == WithholdBeyond(S)
           rank == [f \in W |-> Cardinality(below(f))]
<1>1. IsFiniteSet(S) /\ S \subseteq Nat /\ Ceiling \in Nat
  BY ReclaimAssumption, FS_Subset
<1>2. \A f : IsFiniteSet(below(f)) /\ Cardinality(below(f)) \in Nat
  BY <1>1, FS_Subset, FS_CardinalityType
<1>3. ASSUME NEW f \in S, NEW h \in S, f < h
      PROVE  Cardinality(below(f)) < Cardinality(below(h))
  <2>1. f \in below(h) /\ f \notin below(f) /\ below(f) \subseteq below(h)
    <3>1. \A g \in S : g < f => g < h
      BY <1>1, <1>3
    <3>2. ~(f < f)
      BY <1>1
    <3> QED
      BY <1>3, <3>1, <3>2
  <2> HIDE DEF below
  <2> QED
    BY <1>2, <2>1, FS_Subset
<1>4. W \subseteq S /\ \A f \in W : Cardinality(below(f)) < Ceiling
  BY DEF WithholdBeyond
<1> HIDE DEF below, W
<1>5. rank \in [W -> 0 .. Ceiling - 1]
  BY <1>1, <1>2, <1>4
<1>6. \A f, h \in W : rank[f] = rank[h] => f = h
  <2> SUFFICES ASSUME NEW f \in W, NEW h \in W, f # h
               PROVE  rank[f] # rank[h]
    OBVIOUS
  <2>1. f \in Nat /\ h \in Nat /\ f \in S /\ h \in S
    BY <1>1, <1>4
  <2>2. f < h \/ h < f
    BY <2>1
  <2> QED
    BY <1>2, <1>3, <2>1, <2>2
<1>7. IsFiniteSet(0 .. Ceiling - 1) /\ Cardinality(0 .. Ceiling - 1) = Ceiling
  BY <1>1, FS_Interval
<1>8. rank \in Injection(W, 0 .. Ceiling - 1)
  BY <1>5, <1>6 DEF Injection, IsInjective
<1>9. Cardinality(W) <= Cardinality(0 .. Ceiling - 1)
  BY <1>7, <1>8, FS_Injection
<1> QED
  BY <1>7, <1>9 DEF W

-----------------------------------------------------------------------------
(* Announcements *)

OnlyMoves(p) == \A o \in Processes : o = p \/ run'[o] = run[o]

Known == audit \cup unrecorded

(* A step of cycle p that takes no more onto its list, or a list within the *)
(* ceiling, and deletes only what is on a list that is known.               *)
LEMMA AccountedStep ==
    ASSUME IInv, DeletionsAccounted, NEW p \in Processes, OnlyMoves(p),
           written' = written, Known \subseteq Known', written \ objects' \subseteq Known',
           run'[p].pc \in {"clean", "sweep"} => run'[p].doomed \subseteq Known',
           \/ run'[p].doomed \subseteq run[p].doomed
           \/ \E S \in SUBSET Paths : run'[p].doomed = WithholdBeyond(S)
    PROVE  DeletionsAccounted'
<1>1. Cardinality(run'[p].doomed) <= Ceiling
  <2>1. CASE run'[p].doomed \subseteq run[p].doomed
    <3>1. Cardinality(run[p].doomed) <= Ceiling
      BY DEF DeletionsAccounted
    <3>2. IsFiniteSet(run[p].doomed)
      BY ReclaimAssumption, FS_Subset DEF IInv, Run
    <3>3. /\ Cardinality(run'[p].doomed) <= Cardinality(run[p].doomed)
          /\ Cardinality(run'[p].doomed) \in Nat /\ Cardinality(run[p].doomed) \in Nat
      BY <2>1, <3>2, FS_Subset, FS_CardinalityType
    <3> QED
      BY <3>1, <3>3, ReclaimAssumption
  <2>2. CASE \E S \in SUBSET Paths : run'[p].doomed = WithholdBeyond(S)
    BY <2>2, CeilingHolds
  <2> QED
    BY <2>1, <2>2
<1>2. \A o \in Processes : /\ run'[o].pc \in {"clean", "sweep"} => run'[o].doomed \subseteq Known'
                           /\ Cardinality(run'[o].doomed) <= Ceiling
  BY <1>1 DEF DeletionsAccounted, OnlyMoves, Known
<1> QED
  BY <1>2 DEF DeletionsAccounted, Known

LEMMA NextAccounted ==
    ASSUME IInv, DeletionsAccounted, [Next]_vars
    PROVE  DeletionsAccounted'
<1>1. written \ objects \subseteq Known
  BY DEF DeletionsAccounted, Known
<1>2. ASSUME NEW p \in Processes,
             \/ LoadTable(p) \/ Skip(p) \/ Abort(p) \/ Crash(p) \/ Unreadable(p)
             \/ NothingRemoved(p) \/ RefuseSibling(p) \/ DeletionDone(p)
      PROVE  DeletionsAccounted'
  <2>1. OnlyMoves(p) /\ run'[p].doomed = {}
    <3>1. PICK q : Set(p, q) /\ q.doomed = {}
      BY <1>2 DEF LoadTable, Skip, Abort, Crash, Unreadable, NothingRemoved, RefuseSibling,
                  DeletionDone, IdleRun, AfterExpire, AtRest
    <3> QED
      BY <3>1 DEF Set, OnlyMoves, IInv
  <2>2. UNCHANGED <<objects, written, Known>>
    BY <1>2 DEF LoadTable, Skip, Abort, Crash, Unreadable, NothingRemoved, RefuseSibling,
                DeletionDone, store, records, Known
  <2> QED
    BY <1>1, <2>1, <2>2, AccountedStep
<1>3. ASSUME NEW p \in Processes,
             \/ StartExpire(p) \/ CommitExpiry(p) \/ LoseCommit(p) \/ ReloadTable(p)
             \/ StartScan(p) \/ ListObject(p) \/ EndListing(p) \/ ReloadAfterListing(p)
      PROVE  DeletionsAccounted'
  <2>1. run[p] \in Run /\ run \in [Processes -> Run]
    BY DEF IInv
  <2>2. OnlyMoves(p) /\ run'[p].doomed \subseteq run[p].doomed /\ run'[p].pc \notin {"clean", "sweep"}
    <3>1. /\ IdleRun.doomed = {} /\ AfterExpire(run[p], "conflicted").doomed = {}
          /\ IdleRun.pc = "idle" /\ AfterExpire(run[p], "conflicted").pc = "between"
      BY DEF IdleRun, AfterExpire, AtRest
    <3>2. CASE StartExpire(p)
      BY <2>1, <3>2 DEF StartExpire, Set, OnlyMoves, Run
    <3>3. CASE CommitExpiry(p)
      BY <2>1, <3>3 DEF CommitExpiry, Set, OnlyMoves, Run
    <3>4. CASE LoseCommit(p)
      BY <2>1, <3>1, <3>4 DEF LoseCommit, Set, OnlyMoves, Run
    <3>5. CASE ReloadTable(p)
      BY <2>1, <3>5 DEF ReloadTable, Set, OnlyMoves, Run
    <3>6. CASE StartScan(p)
      BY <2>1, <3>6 DEF StartScan, Set, OnlyMoves, Run
    <3>7. CASE ListObject(p)
      BY <2>1, <3>1, <3>7 DEF ListObject, Set, OnlyMoves, Run
    <3>8. CASE EndListing(p)
      BY <2>1, <3>1, <3>8 DEF EndListing, Set, OnlyMoves, Run
    <3>9. CASE ReloadAfterListing(p)
      BY <2>1, <3>9 DEF ReloadAfterListing, Set, OnlyMoves, Run
    <3> QED
      BY <1>3, <3>2, <3>3, <3>4, <3>5, <3>6, <3>7, <3>8, <3>9
  <2>3. UNCHANGED <<objects, written, Known>>
    BY <1>3 DEF StartExpire, CommitExpiry, LoseCommit, ReloadTable, StartScan, ListObject,
                EndListing, ReloadAfterListing, store, records, Known
  <2> QED
    BY <1>1, <2>2, <2>3, AccountedStep
<1>4. ASSUME NEW p \in Processes, NEW S \in SUBSET Paths, NEW pc \in {"toClean", "toSweep"},
             Set(p, [run[p] EXCEPT !.pc = pc, !.doomed = WithholdBeyond(S)]),
             UNCHANGED <<objects, written, records>>
      PROVE  DeletionsAccounted'
  <2>1. OnlyMoves(p) /\ run'[p].doomed = WithholdBeyond(S) /\ run'[p].pc \notin {"clean", "sweep"}
    BY <1>4 DEF IInv, Run, Set, OnlyMoves
  <2>2. Known' = Known
    BY <1>4 DEF records, Known
  <2> QED
    BY <1>1, <1>4, <2>1, <2>2, AccountedStep
<1>5. ASSUME NEW p \in Processes, Cleanup(p) PROVE DeletionsAccounted'
  <2>1. NowUnreachable(run[p]) \in SUBSET Paths
    BY DEF NowUnreachable, IInv, Run
  <2> QED
    BY <1>4, <1>5, <2>1 DEF Cleanup, store
<1>6. ASSUME NEW p \in Processes, Reverify(p) PROVE DeletionsAccounted'
  <2>1. Reverified(run[p]) \in SUBSET Paths
    BY DEF Reverified, IInv, Run
  <2> QED
    BY <1>4, <1>6, <2>1 DEF Reverify, store
<1>7. ASSUME NEW p \in Processes, Announce(p) PROVE DeletionsAccounted'
  <2>1. OnlyMoves(p) /\ run'[p].doomed = run[p].doomed
    BY <1>7 DEF Announce, Set, OnlyMoves, IInv, Run
  <2>2. Known' = Known \cup run[p].doomed /\ UNCHANGED <<objects, written>>
    BY <1>7 DEF Announce, Known, store
  <2> QED
    BY <1>1, <2>1, <2>2, AccountedStep
<1>8. ASSUME NEW p \in Processes, NEW f \in Paths, Delete(p, f) \/ DeleteFails(p, f)
      PROVE  DeletionsAccounted'
  <2>1. /\ OnlyMoves(p) /\ run'[p].doomed \subseteq run[p].doomed
        /\ run[p].pc \in {"clean", "sweep"} /\ run'[p].pc = run[p].pc
    BY <1>8 DEF Delete, DeleteFails, Deleting, Set, OnlyMoves, IInv, Run
  <2>2. run[p].doomed \subseteq Known
    BY <2>1 DEF DeletionsAccounted, Known
  <2>3. f \in Known /\ objects \ {f} \subseteq objects' /\ UNCHANGED <<written, Known>>
    BY <1>8, <2>2 DEF Delete, DeleteFails, records, Known, store
  <2> QED
    BY <1>1, <2>1, <2>2, <2>3, AccountedStep
<1>9. CASE Environment
  <2>1. written' \ objects' \subseteq written \ objects /\ UNCHANGED <<run, audit, unrecorded>>
    BY <1>9 DEF Environment, Stage, WriterCommit, ForeignCommit, Tick, store, records
  <2> QED
    BY <2>1 DEF DeletionsAccounted
<1>10. CASE UNCHANGED vars
  BY <1>10 DEF vars, DeletionsAccounted
<1> QED
  BY <1>2, <1>3, <1>5, <1>6, <1>7, <1>8, <1>9, <1>10 DEF Next, Cycle

(* No object disappears without a record written before or an error in the  *)
(* log, and no run takes more than its ceiling, wherever it stops and       *)
(* whichever deletions and records fail.                                    *)
THEOREM DeletionsAlwaysAccounted == Spec => []DeletionsAccounted
<1>1. Init => DeletionsAccounted
  <2>1. IdleRun.doomed = {} /\ Cardinality({}) <= Ceiling
    BY FS_EmptySet, ReclaimAssumption DEF IdleRun, AtRest
  <2> QED
    BY <2>1 DEF Init, DeletionsAccounted
<1>2. IInv /\ DeletionsAccounted /\ [Next]_vars => DeletionsAccounted'
  BY NextAccounted
<1> QED
  BY <1>1, <1>2, InitIInv, NextIInv, PTL DEF Spec
=============================================================================
