---------------------------- MODULE ManifestsProofs ----------------------------
(***************************************************************************)
(* What the snapshot producer promises for any number of replicas, specs,  *)
(* partitions, manifests, edits and attempts: however manifests are packed *)
(* and rebuilt, and whatever is lost, late or dropped, the live entries    *)
(* are those the table's writers and compactions put there, and the totals *)
(* of a summary are true.                                                  *)
(***************************************************************************)
EXTENDS Manifests, FiniteSetTheorems, WellFoundedInduction, TLAPS

-----------------------------------------------------------------------------
(* Live entries *)

Row(spec, e) == [file |-> e.file, content |-> e.content, spec |-> spec, tuple |-> e.tuple, seq |-> e.seq]

LEMMA Rows ==
    ASSUME NEW manifests
    PROVE  \A x : x \in LiveEntriesOf(manifests) <=> \E m \in manifests : \E e \in LiveIn(m) : x = Row(m.spec, e)
  BY DEF LiveEntriesOf, Row

(* A carried entry is live, and the same in all but its status.             *)
LEMMA Carried ==
    ASSUME NEW e \in Entry
    PROVE  /\ Existing(e) \in Entry /\ Existing(e).status = "existing"
           /\ Existing(e).file = e.file /\ Existing(e).seq = e.seq
           /\ Existing(e).content = e.content /\ Existing(e).tuple = e.tuple
           /\ \A spec : Row(spec, Existing(e)) = Row(spec, e)
<1>1. /\ Existing(e) \in Entry /\ Existing(e).status = "existing"
      /\ Existing(e).file = e.file /\ Existing(e).seq = e.seq
      /\ Existing(e).content = e.content /\ Existing(e).tuple = e.tuple
  BY DEF Existing, Entry
<1> QED
  BY <1>1 DEF Row

(* In a sound table a row tells its file's entry and manifest.              *)
LEMMA RowsAreDistinct ==
    ASSUME NEW manifests, NEW last, SoundManifests(manifests, last)
    PROVE  \A x, y \in LiveEntriesOf(manifests) : x.file = y.file => x = y
<1> SUFFICES ASSUME NEW x \in LiveEntriesOf(manifests), NEW y \in LiveEntriesOf(manifests), x.file = y.file
             PROVE  x = y
  OBVIOUS
<1>1. PICK m \in manifests : \E e \in LiveIn(m) : x = Row(m.spec, e)
  BY Rows
<1>2. PICK d \in LiveIn(m) : x = Row(m.spec, d)
  BY <1>1
<1>3. PICK n \in manifests : \E e \in LiveIn(n) : y = Row(n.spec, e)
  BY Rows
<1>4. PICK e \in LiveIn(n) : y = Row(n.spec, e)
  BY <1>3
<1>5. d.file = e.file
  BY <1>2, <1>4 DEF Row
<1>6. m = n /\ d = e
  BY <1>5 DEF SoundManifests
<1> QED
  BY <1>2, <1>4, <1>6

(* A finite set's image under a function is finite.                         *)
LEMMA FiniteImage ==
    ASSUME NEW S, IsFiniteSet(S), NEW f, f = [x \in S |-> f[x]]
    PROVE  IsFiniteSet({f[x] : x \in S})
<1>1. f \in Surjection(S, {f[x] : x \in S})
  BY DEF Surjection
<1> QED
  BY <1>1, FS_Surjection

(* There are finitely many live entries.                                    *)
LEMMA FiniteRows ==
    ASSUME NEW manifests, NEW last, SoundManifests(manifests, last)
    PROVE  IsFiniteSet(LiveEntriesOf(manifests))
<1> DEFINE rows(m) == {[file |-> e.file, content |-> e.content, spec |-> m.spec, tuple |-> e.tuple, seq |-> e.seq]
                          : e \in LiveIn(m)}
<1>1. \A m \in manifests : IsFiniteSet(rows(m))
  <2> SUFFICES ASSUME NEW m \in manifests PROVE IsFiniteSet(rows(m))
    OBVIOUS
  <2>1. IsFiniteSet(LiveIn(m))
    BY FS_Subset DEF LiveIn, SoundManifests
  <2> DEFINE f == [e \in LiveIn(m) |-> [file |-> e.file, content |-> e.content, spec |-> m.spec,
                                        tuple |-> e.tuple, seq |-> e.seq]]
  <2>2. rows(m) = {f[e] : e \in LiveIn(m)} /\ f = [e \in LiveIn(m) |-> f[e]]
    OBVIOUS
  <2> HIDE DEF f, rows
  <2> QED
    BY <2>1, <2>2, FiniteImage
<1>2. IsFiniteSet({rows(m) : m \in manifests})
  <2> DEFINE f == [m \in manifests |-> rows(m)]
  <2> HIDE DEF rows
  <2>1. {rows(m) : m \in manifests} = {f[m] : m \in manifests} /\ f = [m \in manifests |-> f[m]]
    OBVIOUS
  <2>2. IsFiniteSet(manifests)
    BY DEF SoundManifests
  <2> HIDE DEF f
  <2> QED
    BY <2>1, <2>2, FiniteImage
<1>3. IsFiniteSet(UNION {rows(m) : m \in manifests})
  BY <1>1, <1>2, FS_UNION
<1> QED
  BY <1>3 DEF LiveEntriesOf

-----------------------------------------------------------------------------
(* Writing manifests *)

(* Drafts that share no file, of live entries numbered up to last.          *)
SoundDrafts(drafts, last) ==
    /\ drafts \subseteq [spec : Specs, kind : Contents, entries : SUBSET Entry] /\ IsFiniteSet(drafts)
    /\ \A d \in drafts :
        /\ IsFiniteSet(d.entries)
        /\ \A e \in d.entries : e.status # "deleted" /\ e.file <= last /\ e.seq <= last
    /\ \A c, d \in drafts : \A x \in c.entries, y \in d.entries : x.file = y.file => c = d /\ x = y

LEMMA WrittenDrafts ==
    ASSUME NEW drafts, NEW w \in Written(drafts)
    PROVE  \E small \in [drafts -> BOOLEAN] :
               w = {[spec |-> d.spec, kind |-> d.kind, small |-> small[d], entries |-> d.entries] : d \in drafts}
  BY DEF Written

DraftRows(drafts) == UNION {{Row(d.spec, e) : e \in d.entries} : d \in drafts}

LEMMA RowsOfDrafts ==
    ASSUME NEW drafts
    PROVE  \A x : x \in DraftRows(drafts) <=> \E d \in drafts : \E e \in d.entries : x = Row(d.spec, e)
  BY DEF DraftRows

(* What is written lists no file that is also listed by what is kept.       *)
Apart(drafts, kept) == \A d \in drafts : \A e \in d.entries : \A m \in kept : \A k \in LiveIn(m) : e.file # k.file

(* What is kept of a sound table and what is written of sound drafts make a *)
(* sound table, of the rows of both.                                        *)
LEMMA Assembled ==
    ASSUME NEW manifests, NEW last \in Nat, SoundManifests(manifests, last), NEW kept \in SUBSET manifests,
           NEW drafts, NEW next \in Nat, last <= next, SoundDrafts(drafts, next),
           Apart(drafts, kept),
           NEW w \in Written(drafts)
    PROVE  /\ SoundManifests(kept \cup w, next)
           /\ LiveEntriesOf(kept \cup w) = LiveEntriesOf(kept) \cup DraftRows(drafts)
<1> DEFINE M(d, s) == [spec |-> d.spec, kind |-> d.kind, small |-> s, entries |-> d.entries]
<1>0. \A d \in drafts : \A e \in d.entries : \A m \in kept : \A k \in LiveIn(m) : e.file # k.file
  BY DEF Apart
<1>1. PICK small \in [drafts -> BOOLEAN] : w = {M(d, small[d]) : d \in drafts}
  BY WrittenDrafts
<1>2. \A d \in drafts : /\ d \in [spec : Specs, kind : Contents, entries : SUBSET Entry]
                        /\ M(d, small[d]) \in Manifest /\ LiveIn(M(d, small[d])) = d.entries
                        /\ M(d, small[d]).entries = d.entries /\ M(d, small[d]).spec = d.spec
  BY DEF SoundDrafts, Manifest, LiveIn
<1>3. IsFiniteSet(w)
  <2> DEFINE f == [d \in drafts |-> M(d, small[d])]
  <2> HIDE DEF M
  <2>1. w = {f[d] : d \in drafts} /\ f = [d \in drafts |-> f[d]]
    BY <1>1
  <2>2. IsFiniteSet(drafts)
    BY DEF SoundDrafts
  <2> HIDE DEF f
  <2> QED
    BY <2>1, <2>2, FiniteImage
<1>4. IsFiniteSet(kept)
  BY FS_Subset DEF SoundManifests
<1>5. IsFiniteSet(kept \cup w)
  BY <1>3, <1>4, FS_Union
<1> HIDE DEF M
<1>6. kept \cup w \subseteq Manifest
  BY <1>1, <1>2 DEF SoundManifests
<1>7. \A m \in w : \E d \in drafts : m = M(d, small[d]) /\ LiveIn(m) = d.entries /\ m.entries = d.entries
  BY <1>1, <1>2
<1>8. ASSUME NEW m \in kept \cup w
      PROVE  IsFiniteSet(m.entries) /\ \A e \in LiveIn(m) : e.file <= next /\ e.seq <= next
  <2>1. CASE m \in kept
    <3>1. IsFiniteSet(m.entries) /\ \A e \in LiveIn(m) : e.file <= last /\ e.seq <= last /\ e \in Entry
      BY <2>1 DEF SoundManifests, Manifest, LiveIn
    <3>2. \A e \in LiveIn(m) : e.file \in Nat /\ e.seq \in Nat
      BY <3>1 DEF Entry
    <3> QED
      BY <3>1, <3>2
  <2>2. CASE m \in w
    BY <1>7, <2>2 DEF SoundDrafts
  <2> QED
    BY <2>1, <2>2
<1>9. ASSUME NEW m \in kept \cup w, NEW n \in kept \cup w, NEW d \in LiveIn(m), NEW e \in LiveIn(n), d.file = e.file
      PROVE  m = n /\ d = e
  <2>1. CASE m \in kept /\ n \in kept
    BY <1>9, <2>1 DEF SoundManifests
  <2>2. CASE m \in kept /\ n \in w
    BY <1>0, <1>7, <1>9, <2>2
  <2>3. CASE m \in w /\ n \in kept
    BY <1>0, <1>7, <1>9, <2>3
  <2>4. CASE m \in w /\ n \in w
    BY <1>7, <1>9, <2>4 DEF SoundDrafts
  <2> QED
    BY <2>1, <2>2, <2>3, <2>4
<1>10. SoundManifests(kept \cup w, next)
  BY <1>5, <1>6, <1>8, <1>9 DEF SoundManifests
<1>11. ASSUME NEW x
       PROVE  x \in LiveEntriesOf(kept \cup w) <=> x \in LiveEntriesOf(kept) \cup DraftRows(drafts)
  <2>1. \A m \in w : \E d \in drafts : LiveIn(m) = d.entries /\ m.spec = d.spec
    BY <1>1, <1>2
  <2>2. \A d \in drafts : \E m \in w : LiveIn(m) = d.entries /\ m.spec = d.spec
    BY <1>1, <1>2
  <2> QED
    BY <2>1, <2>2, Rows, RowsOfDrafts
<1> QED
  BY <1>10, <1>11

-----------------------------------------------------------------------------
(* Rewriting manifests *)

(* The entries that share a manifest with e.                                *)
Class(entries, e) == {x \in entries : Position(x, entries) \div PerManifest = Position(e, entries) \div PerManifest}

DraftOf(manifests, b, e) == Draft(b[1], b[2], {Existing(x) : x \in Class(Bucket(manifests, b), e)})

LEMMA PackedDrafts ==
    ASSUME NEW manifests
    PROVE  \A d : d \in Packed(manifests) <=>
               \E b \in Buckets(manifests) : \E e \in Bucket(manifests, b) : d = DraftOf(manifests, b, e)
<1>1. \A entries : Chunks(entries) = {Class(entries, e) : e \in entries}
  BY DEF Chunks, Class
<1> DEFINE of(b) == {Draft(b[1], b[2], {Existing(x) : x \in c}) : c \in Chunks(Bucket(manifests, b))}
<1>2. \A b : of(b) = {DraftOf(manifests, b, e) : e \in Bucket(manifests, b)}
  BY <1>1 DEF DraftOf
<1>3. Packed(manifests) = UNION {of(b) : b \in Buckets(manifests)}
  BY DEF Packed
<1> HIDE DEF of
<1>4. \A d : d \in Packed(manifests) <=> \E b \in Buckets(manifests) : d \in of(b)
  BY <1>3
<1> QED
  BY <1>2, <1>4

(* An entry to pack is a live one of an undersized manifest, which tells    *)
(* its bucket.                                                              *)
LEMMA BucketEntries ==
    ASSUME NEW manifests, NEW b
    PROVE  \A e : e \in Bucket(manifests, b) <=>
               \E m \in Undersized(manifests) : <<m.spec, m.kind>> = b /\ e \in LiveIn(m)
  BY DEF Bucket

(* Packing drafts are sound: what they hold is live, carried and held once. *)
LEMMA PackedSoundly ==
    ASSUME NEW manifests, NEW last \in Nat, SoundManifests(manifests, last)
    PROVE  SoundDrafts(Packed(manifests), last)
<1> DEFINE drafts == Packed(manifests)
           bucket(b) == Bucket(manifests, b)
<1>1. \A b : \A e \in bucket(b) : \E m \in manifests :
          /\ m \in Undersized(manifests) /\ <<m.spec, m.kind>> = b /\ e \in LiveIn(m) /\ e \in Entry
          /\ m \in Manifest /\ e.file <= last /\ e.seq <= last
  BY BucketEntries DEF SoundManifests, Undersized, Manifest, LiveIn
<1>2. \A b : \A e \in bucket(b) : \A x \in Class(bucket(b), e) : x \in bucket(b) /\ x \in Entry
  BY <1>1 DEF Class
<1>3. ASSUME NEW b, NEW e \in bucket(b)
      PROVE  /\ DraftOf(manifests, b, e).spec = b[1] /\ DraftOf(manifests, b, e).kind = b[2]
             /\ DraftOf(manifests, b, e).entries = {Existing(x) : x \in Class(bucket(b), e)}
             /\ DraftOf(manifests, b, e) \in [spec : Specs, kind : Contents, entries : SUBSET Entry]
  <2>1. b[1] \in Specs /\ b[2] \in Contents
    BY <1>1, <1>3 DEF Manifest
  <2>2. {Existing(x) : x \in Class(bucket(b), e)} \in SUBSET Entry
    BY <1>2, <1>3, Carried
  <2> QED
    BY <2>1, <2>2 DEF DraftOf, Draft
<1>4. drafts \subseteq [spec : Specs, kind : Contents, entries : SUBSET Entry]
  BY <1>3, PackedDrafts
<1>5. \A m \in Undersized(manifests) : IsFiniteSet(LiveIn(m))
  BY FS_Subset DEF LiveIn, SoundManifests, Undersized
<1>6. IsFiniteSet(Undersized(manifests))
  BY FS_Subset DEF SoundManifests, Undersized
<1>7. ASSUME NEW b PROVE IsFiniteSet(bucket(b))
  <2> DEFINE S == {n \in Undersized(manifests) : <<n.spec, n.kind>> = b}
             f == [m \in S |-> LiveIn(m)]
  <2>1. IsFiniteSet(S)
    BY <1>6, FS_Subset
  <2>2. {f[m] : m \in S} = {LiveIn(m) : m \in S} /\ f = [m \in S |-> f[m]] /\ \A m \in S : IsFiniteSet(f[m])
    BY <1>5
  <2>3. bucket(b) = UNION {LiveIn(m) : m \in S}
    BY DEF Bucket
  <2> HIDE DEF S, f
  <2>4. IsFiniteSet({f[m] : m \in S})
    BY <2>1, <2>2, FiniteImage
  <2>5. IsFiniteSet(UNION {f[m] : m \in S})
    BY <2>2, <2>4, FS_UNION
  <2> QED
    BY <2>2, <2>3, <2>5
<1>8. IsFiniteSet(drafts)
  <2> DEFINE S == Undersized(manifests)
             g == [m \in S |-> <<m.spec, m.kind>>]
             of(b) == {DraftOf(manifests, b, e) : e \in bucket(b)}
  <2>1. Buckets(manifests) = {g[m] : m \in S} /\ g = [m \in S |-> g[m]]
    BY DEF Buckets
  <2> HIDE DEF S, g
  <2>2. IsFiniteSet(Buckets(manifests))
    BY <1>6, <2>1, FiniteImage DEF S
  <2>3. ASSUME NEW b PROVE IsFiniteSet(of(b))
    <3> DEFINE f == [e \in bucket(b) |-> DraftOf(manifests, b, e)]
    <3>1. of(b) = {f[e] : e \in bucket(b)} /\ f = [e \in bucket(b) |-> f[e]]
      OBVIOUS
    <3> HIDE DEF f, of, bucket
    <3> QED
      BY <1>7, <3>1, FiniteImage
  <2> DEFINE h == [b \in Buckets(manifests) |-> of(b)]
  <2>4. drafts = UNION {of(b) : b \in Buckets(manifests)}
    BY PackedDrafts
  <2> HIDE DEF of
  <2>5. {of(b) : b \in Buckets(manifests)} = {h[b] : b \in Buckets(manifests)}
        /\ h = [b \in Buckets(manifests) |-> h[b]] /\ \A b \in Buckets(manifests) : IsFiniteSet(h[b])
    BY <2>3
  <2> HIDE DEF h
  <2>6. IsFiniteSet({h[b] : b \in Buckets(manifests)})
    BY <2>2, <2>5, FiniteImage
  <2>7. IsFiniteSet(UNION {h[b] : b \in Buckets(manifests)})
    BY <2>5, <2>6, FS_UNION
  <2> QED
    BY <2>4, <2>5, <2>7
<1>9. ASSUME NEW b, NEW e \in bucket(b)
      PROVE  LET d == DraftOf(manifests, b, e)
             IN  IsFiniteSet(d.entries)
                 /\ \A x \in d.entries : x.status # "deleted" /\ x.file <= last /\ x.seq <= last
  <2> DEFINE C == Class(bucket(b), e)
             f == [x \in C |-> Existing(x)]
  <2>1. IsFiniteSet(C)
    BY <1>7, FS_Subset DEF Class
  <2>2. {f[x] : x \in C} = {Existing(x) : x \in C} /\ f = [x \in C |-> f[x]]
    OBVIOUS
  <2>3. \A x \in C : Existing(x).status # "deleted" /\ Existing(x).file <= last /\ Existing(x).seq <= last
    BY <1>1, <1>2, <1>9, Carried
  <2>4. DraftOf(manifests, b, e).entries = {Existing(x) : x \in C}
    BY <1>3, <1>9
  <2> HIDE DEF C, f
  <2>5. IsFiniteSet({f[x] : x \in C})
    BY <2>1, <2>2, FiniteImage
  <2> QED
    BY <2>2, <2>3, <2>4, <2>5
<1>10. ASSUME NEW c \in drafts, NEW d \in drafts, NEW x \in c.entries, NEW y \in d.entries, x.file = y.file
       PROVE  c = d /\ x = y
  <2>1. PICK b1 \in Buckets(manifests) : \E e \in bucket(b1) : c = DraftOf(manifests, b1, e)
    BY <1>10, PackedDrafts
  <2>2. PICK e1 \in bucket(b1) : c = DraftOf(manifests, b1, e1)
    BY <2>1
  <2>3. PICK b2 \in Buckets(manifests) : \E e \in bucket(b2) : d = DraftOf(manifests, b2, e)
    BY <1>10, PackedDrafts
  <2>4. PICK e2 \in bucket(b2) : d = DraftOf(manifests, b2, e2)
    BY <2>3
  <2>5. PICK u \in Class(bucket(b1), e1) : x = Existing(u)
    BY <1>3, <1>10, <2>2
  <2>6. PICK v \in Class(bucket(b2), e2) : y = Existing(v)
    BY <1>3, <1>10, <2>4
  <2>7. u \in Entry /\ v \in Entry /\ u \in bucket(b1) /\ v \in bucket(b2)
    BY <1>2, <2>5, <2>6
  <2>8. u.file = v.file
    BY <1>10, <2>5, <2>6, <2>7, Carried
  <2>9. b1 = b2 /\ u = v
    <3>1. PICK m \in manifests : m \in Undersized(manifests) /\ <<m.spec, m.kind>> = b1 /\ u \in LiveIn(m)
      BY <1>1, <2>7
    <3>2. PICK n \in manifests : n \in Undersized(manifests) /\ <<n.spec, n.kind>> = b2 /\ v \in LiveIn(n)
      BY <1>1, <2>7
    <3>3. m = n /\ u = v
      BY <2>8, <3>1, <3>2 DEF SoundManifests
    <3> QED
      BY <3>1, <3>2, <3>3
  <2>10. Class(bucket(b1), e1) = Class(bucket(b2), e2)
    BY <2>5, <2>6, <2>9 DEF Class
  <2> QED
    BY <2>2, <2>4, <2>5, <2>6, <2>9, <2>10 DEF DraftOf
<1> HIDE DEF drafts, bucket
<1>11. SoundDrafts(drafts, last)
  <2>1. \A d \in drafts : /\ IsFiniteSet(d.entries)
                          /\ \A x \in d.entries : x.status # "deleted" /\ x.file <= last /\ x.seq <= last
    BY <1>9, PackedDrafts DEF drafts, bucket
  <2> QED
    BY <1>4, <1>8, <1>10, <2>1 DEF SoundDrafts
<1> QED
  BY <1>11 DEF drafts

(* Whatever the buckets, the chunks and the sizes of what is written,       *)
(* packing changes no live entry.                                           *)
LEMMA RepackedRows ==
    ASSUME NEW manifests, NEW last \in Nat, SoundManifests(manifests, last), NEW after \in Repacked(manifests)
    PROVE  SoundManifests(after, last) /\ LiveEntriesOf(after) = LiveEntriesOf(manifests)
<1> DEFINE kept == manifests \ Undersized(manifests)
           drafts == Packed(manifests)
<1>1. PICK w \in Written(drafts) : after = kept \cup w
  BY DEF Repacked
<1>2. SoundDrafts(drafts, last)
  BY PackedSoundly
<1>3. \A m \in Undersized(manifests) : m \in manifests /\ \A e \in LiveIn(m) : e \in Entry
  BY DEF SoundManifests, Undersized, Manifest, LiveIn
<1>4. \A d \in drafts : \A x \in d.entries : \E m \in Undersized(manifests) : \E e \in LiveIn(m) :
        x = Existing(e) /\ d.spec = m.spec
  <2> SUFFICES ASSUME NEW d \in drafts, NEW x \in d.entries
               PROVE  \E m \in Undersized(manifests) : \E e \in LiveIn(m) : x = Existing(e) /\ d.spec = m.spec
    OBVIOUS
  <2>1. PICK b \in Buckets(manifests) : \E e \in Bucket(manifests, b) : d = DraftOf(manifests, b, e)
    BY PackedDrafts
  <2>2. PICK e \in Bucket(manifests, b) : d = DraftOf(manifests, b, e)
    BY <2>1
  <2>3. d.spec = b[1] /\ d.entries = {Existing(y) : y \in Class(Bucket(manifests, b), e)}
    BY <2>2 DEF DraftOf, Draft
  <2>4. PICK y \in Class(Bucket(manifests, b), e) : x = Existing(y)
    BY <2>3
  <2>5. PICK m \in Undersized(manifests) : <<m.spec, m.kind>> = b /\ y \in LiveIn(m)
    BY <2>4, BucketEntries DEF Class
  <2> QED
    BY <2>3, <2>4, <2>5
<1>5. \A m \in Undersized(manifests) : \A e \in LiveIn(m) : \E d \in drafts :
        Existing(e) \in d.entries /\ d.spec = m.spec
  <2> SUFFICES ASSUME NEW m \in Undersized(manifests), NEW e \in LiveIn(m)
               PROVE  \E d \in drafts : Existing(e) \in d.entries /\ d.spec = m.spec
    OBVIOUS
  <2> DEFINE b == <<m.spec, m.kind>>
             d == DraftOf(manifests, b, e)
  <2>1. b \in Buckets(manifests) /\ e \in Bucket(manifests, b)
    BY BucketEntries DEF Buckets
  <2>2. d \in drafts
    BY <2>1, PackedDrafts
  <2>3. e \in Class(Bucket(manifests, b), e)
    BY <2>1 DEF Class
  <2>4. Existing(e) \in d.entries /\ d.spec = m.spec
    BY <2>3 DEF DraftOf, Draft
  <2> QED
    BY <2>2, <2>4
<1>6. \A d \in drafts : \A e \in d.entries : \A m \in kept : \A k \in LiveIn(m) : e.file # k.file
  <2> SUFFICES ASSUME NEW d \in drafts, NEW x \in d.entries, NEW m \in kept, NEW k \in LiveIn(m), x.file = k.file
               PROVE  FALSE
    OBVIOUS
  <2>1. PICK n \in Undersized(manifests) : \E e \in LiveIn(n) : x = Existing(e)
    BY <1>4
  <2>2. PICK e \in LiveIn(n) : x = Existing(e)
    BY <2>1
  <2>3. x.file = e.file
    BY <1>3, <2>2, Carried
  <2>4. m = n
    BY <1>3, <2>3 DEF SoundManifests
  <2> QED
    BY <2>4
<1> HIDE DEF drafts
<1>7. /\ SoundManifests(after, last)
      /\ \A x : x \in LiveEntriesOf(after) <=>
             x \in LiveEntriesOf(kept) \/ \E d \in drafts : \E e \in d.entries : x = Row(d.spec, e)
  <2>1. kept \in SUBSET manifests /\ last <= last /\ Apart(drafts, kept)
    BY <1>6 DEF Apart
  <2> HIDE DEF kept
  <2>2. SoundManifests(kept \cup w, last) /\ LiveEntriesOf(kept \cup w) = LiveEntriesOf(kept) \cup DraftRows(drafts)
    BY <1>1, <1>2, <2>1, Assembled
  <2> QED
    BY <1>1, <2>2, RowsOfDrafts
<1>8. ASSUME NEW x PROVE x \in LiveEntriesOf(after) <=> x \in LiveEntriesOf(manifests)
  <2>1. ASSUME NEW d \in drafts, NEW e \in d.entries, x = Row(d.spec, e) PROVE x \in LiveEntriesOf(manifests)
    <3>1. PICK m \in Undersized(manifests) : \E y \in LiveIn(m) : e = Existing(y) /\ d.spec = m.spec
      BY <1>4, <2>1
    <3>2. PICK y \in LiveIn(m) : e = Existing(y) /\ d.spec = m.spec
      BY <3>1
    <3>3. x = Row(m.spec, y)
      BY <1>3, <2>1, <3>2, Carried
    <3> QED
      BY <1>3, <3>3, Rows
  <2>2. ASSUME NEW m \in manifests, NEW e \in LiveIn(m), x = Row(m.spec, e)
        PROVE  x \in LiveEntriesOf(after)
    <3>1. CASE m \in Undersized(manifests)
      <4>1. PICK d \in drafts : Existing(e) \in d.entries /\ d.spec = m.spec
        BY <1>5, <3>1
      <4>2. x = Row(d.spec, Existing(e))
        BY <1>3, <2>2, <3>1, <4>1, Carried
      <4> QED
        BY <1>7, <4>1, <4>2
    <3>2. CASE m \notin Undersized(manifests)
      BY <1>7, <2>2, <3>2, Rows
    <3> QED
      BY <3>1, <3>2
  <2>3. x \in LiveEntriesOf(kept) => x \in LiveEntriesOf(manifests)
    BY Rows
  <2> QED
    BY <1>7, <2>1, <2>2, <2>3, Rows
<1> QED
  BY <1>7, <1>8

-----------------------------------------------------------------------------
(* Rewriting files, and what the foreground writes *)

(* The file a commit adds is newer than any the table lists.                *)
Fresh(x, last) == x \in Entry /\ x.file = last + 1 /\ x.seq = last + 1 /\ x.status = "added"

(* A commit adds no file, or one.                                           *)
Additions(added, last) == added = {} \/ \E x : Fresh(x, last) /\ added = {x}

(* The rows that are left when these files are gone and those are added.    *)
Swapped(rows, removed, new) == {r \in rows : r.file \notin removed} \cup new

RowsOfAdded(spec, added) == {Row(spec, x) : x \in added}

Survivors(manifest, removed) == {Existing(e) : e \in {x \in LiveIn(manifest) : x.file \notin removed}}

(* What a rebuilt manifest holds: the live entries of one that lost some.   *)
LEMMA RebuiltDrafts ==
    ASSUME NEW manifests, NEW removed
    PROVE  \A d : d \in UNION {Rebuilt(m, removed) : m \in manifests} <=>
               \E m \in manifests : Survivors(m, removed) # {} /\ d = Draft(m.spec, m.kind, Survivors(m, removed))
  BY DEF Rebuilt, Survivors

(* Rebuilding loses nothing but what is removed, adds one entry or none,    *)
(* and leaves the manifests it carries as they are.                         *)
LEMMA RewrittenRows ==
    ASSUME NEW view, NEW last \in Nat, SoundManifests(view.manifests, last), view.spec \in Specs,
           NEW removed, NEW added, Additions(added, last), NEW after \in WriteManifests(view, removed, added)
    PROVE  /\ SoundManifests(after, last + 1)
           /\ LiveEntriesOf(after) =
                Swapped(LiveEntriesOf(view.manifests), removed, RowsOfAdded(view.spec, added))
<1> DEFINE manifests == view.manifests
           touched == Touched(manifests, removed)
           kept == manifests \ touched
           rebuilt == UNION {Rebuilt(m, removed) : m \in touched}
           new == ForAdded(view, added)
           drafts == rebuilt \cup new
<1>0. WriteManifests(view, removed, added) = {kept \cup w : w \in Written(drafts)}
  BY DEF WriteManifests
<1>1. PICK w \in Written(drafts) : after = kept \cup w
  <2> HIDE DEF kept, drafts
  <2> QED
    BY <1>0
<1>2. \A m \in manifests : \A e \in LiveIn(m) :
        /\ m \in Manifest /\ e \in Entry /\ e.file \in Nat /\ e.seq \in Nat /\ e.file <= last /\ e.seq <= last
  BY DEF SoundManifests, Manifest, LiveIn, Entry
<1>3. \A m \in touched : m \in manifests
  BY DEF Touched
<1>0a. \A x \in added : Fresh(x, last) /\ added = {x}
  BY DEF Additions
<1>4. /\ \A d \in new : /\ d.spec = view.spec /\ d.kind = "data" /\ d.entries = added /\ IsFiniteSet(added)
                        /\ d \in [spec : Specs, kind : Contents, entries : SUBSET Entry]
                        /\ \A c \in new : c = d
      /\ added # {} => \E d \in new : d.spec = view.spec /\ d.entries = added
      /\ IsFiniteSet(new)
  <2> DEFINE d0 == Draft(view.spec, "data", added)
  <2>1. /\ d0.spec = view.spec /\ d0.kind = "data" /\ d0.entries = added
        /\ d0 \in [spec : Specs, kind : Contents, entries : SUBSET Entry]
    <3>1. added \in SUBSET Entry
      BY <1>0a DEF Fresh
    <3> QED
      BY <3>1 DEF Draft, Contents
  <2> HIDE DEF d0
  <2>2. new = IF added = {} THEN {} ELSE {d0}
    BY DEF ForAdded, d0
  <2>3. IsFiniteSet(added) /\ IsFiniteSet({d0}) /\ IsFiniteSet({})
    BY FS_Singleton, FS_EmptySet DEF Additions
  <2> HIDE DEF new
  <2> QED
    BY <2>1, <2>2, <2>3
<1>5. \A d \in rebuilt : \E m \in touched : /\ d = Draft(m.spec, m.kind, Survivors(m, removed))
                                            /\ d.spec = m.spec /\ d.kind = m.kind /\ d.entries = Survivors(m, removed)
  BY RebuiltDrafts DEF Draft
<1>6. \A m \in touched : \A y \in Survivors(m, removed) : \E e \in LiveIn(m) :
        e.file \notin removed /\ y = Existing(e)
  BY DEF Survivors
<1>7. \A m \in touched : \A y \in Survivors(m, removed) : \E e \in LiveIn(m) :
        /\ e.file \notin removed /\ y \in Entry /\ y.status = "existing" /\ y.file = e.file /\ y.seq = e.seq
        /\ y.file <= last /\ y.seq <= last /\ \A spec : Row(spec, y) = Row(spec, e)
  <2> SUFFICES ASSUME NEW m \in touched, NEW y \in Survivors(m, removed)
               PROVE  \E e \in LiveIn(m) :
                         /\ e.file \notin removed /\ y \in Entry /\ y.status = "existing"
                         /\ y.file = e.file /\ y.seq = e.seq
                         /\ y.file <= last /\ y.seq <= last /\ \A spec : Row(spec, y) = Row(spec, e)
    OBVIOUS
  <2>1. PICK e \in LiveIn(m) : e.file \notin removed /\ y = Existing(e)
    BY <1>6
  <2>2. e \in Entry /\ e.file <= last /\ e.seq <= last
    BY <1>2, <1>3
  <2> QED
    BY <2>1, <2>2, Carried
<1>8. \A m \in touched : IsFiniteSet(Survivors(m, removed))
  <2> SUFFICES ASSUME NEW m \in touched PROVE IsFiniteSet(Survivors(m, removed))
    OBVIOUS
  <2> DEFINE S == {y \in LiveIn(m) : y.file \notin removed}
             f == [e \in S |-> Existing(e)]
  <2>1. IsFiniteSet(m.entries)
    BY <1>3 DEF SoundManifests
  <2>2. IsFiniteSet(S)
    BY <2>1, FS_Subset DEF LiveIn
  <2>3. Survivors(m, removed) = {f[e] : e \in S} /\ f = [e \in S |-> f[e]]
    BY DEF Survivors
  <2> HIDE DEF f, S
  <2> QED
    BY <2>2, <2>3, FiniteImage
<1>9. IsFiniteSet(drafts)
  <2> DEFINE f == [m \in touched |-> Rebuilt(m, removed)]
  <2>1. IsFiniteSet(touched)
    BY FS_Subset DEF Touched, SoundManifests
  <2>2. {f[m] : m \in touched} = {Rebuilt(m, removed) : m \in touched} /\ f = [m \in touched |-> f[m]]
    OBVIOUS
  <2>3. \A m \in touched : IsFiniteSet(f[m])
    BY FS_EmptySet, FS_Singleton DEF Rebuilt
  <2> HIDE DEF f, touched
  <2>4. IsFiniteSet({f[m] : m \in touched})
    BY <2>1, <2>2, FiniteImage
  <2>5. IsFiniteSet(UNION {f[m] : m \in touched})
    BY <2>2, <2>3, <2>4, FS_UNION
  <2>6. IsFiniteSet(new)
    BY <1>4
  <2> HIDE DEF new
  <2> QED
    BY <2>2, <2>5, <2>6, FS_Union
<1> HIDE DEF touched, rebuilt, new
<1>10. \A d \in drafts : /\ d \in [spec : Specs, kind : Contents, entries : SUBSET Entry]
                         /\ IsFiniteSet(d.entries)
                         /\ \A e \in d.entries : e.status # "deleted" /\ e.file <= last + 1 /\ e.seq <= last + 1
  <2> SUFFICES ASSUME NEW d \in drafts
               PROVE  /\ d \in [spec : Specs, kind : Contents, entries : SUBSET Entry]
                      /\ IsFiniteSet(d.entries)
                      /\ \A e \in d.entries : e.status # "deleted" /\ e.file <= last + 1 /\ e.seq <= last + 1
    OBVIOUS
  <2>1. CASE d \in new
    BY <1>0a, <1>4, <2>1 DEF Fresh
  <2>2. CASE d \in rebuilt
    <3>1. PICK m \in touched : /\ d = Draft(m.spec, m.kind, Survivors(m, removed))
                               /\ d.spec = m.spec /\ d.kind = m.kind /\ d.entries = Survivors(m, removed)
      BY <1>5, <2>2
    <3>2. \A y \in d.entries : /\ y \in Entry /\ y.status = "existing"
                               /\ y.file <= last /\ y.seq <= last /\ y.file \in Nat /\ y.seq \in Nat
      BY <1>7, <3>1 DEF Entry
    <3>3. m.spec \in Specs /\ m.kind \in Contents
      BY <1>3 DEF SoundManifests, Manifest
    <3>4. Draft(m.spec, m.kind, d.entries) \in [spec : Specs, kind : Contents, entries : SUBSET Entry]
      BY <3>2, <3>3 DEF Draft
    <3>5. \A e \in d.entries : e.status # "deleted" /\ e.file <= last + 1 /\ e.seq <= last + 1
      BY <3>2
    <3> QED
      BY <1>8, <3>1, <3>4, <3>5
  <2> QED
    BY <2>1, <2>2
<1>11. ASSUME NEW c \in drafts, NEW d \in drafts, NEW y \in c.entries, NEW z \in d.entries, y.file = z.file
       PROVE  c = d /\ y = z
  <2>1. \A r \in rebuilt : \A u \in r.entries : u.file # last + 1
    <3> SUFFICES ASSUME NEW r \in rebuilt, NEW u \in r.entries PROVE u.file # last + 1
      OBVIOUS
    <3>1. PICK m \in touched : r.entries = Survivors(m, removed)
      BY <1>5
    <3>2. u \in Entry /\ u.file <= last
      BY <1>7, <3>1
    <3> QED
      BY <3>2 DEF Entry
  <2>2. \A n \in new : \A u, v \in n.entries : u = v /\ u.file = last + 1
    BY <1>0a, <1>4 DEF Fresh
  <2>3. CASE c \in rebuilt /\ d \in rebuilt
    <3>1. PICK m \in touched : c = Draft(m.spec, m.kind, Survivors(m, removed)) /\ c.entries = Survivors(m, removed)
      BY <1>5, <2>3
    <3>2. PICK n \in touched : d = Draft(n.spec, n.kind, Survivors(n, removed)) /\ d.entries = Survivors(n, removed)
      BY <1>5, <2>3
    <3>3. PICK u \in LiveIn(m) : y = Existing(u)
      BY <1>6, <3>1
    <3>4. PICK v \in LiveIn(n) : z = Existing(v)
      BY <1>6, <3>2
    <3>5. u.file = v.file
      BY <1>2, <1>3, <1>11, <3>3, <3>4, Carried
    <3>6. m = n /\ u = v
      BY <1>3, <3>5 DEF SoundManifests
    <3> QED
      BY <3>1, <3>2, <3>3, <3>4, <3>6
  <2>4. CASE c \in new /\ d \in new
    <3>1. c = d
      BY <1>4, <2>4
    <3> QED
      BY <2>2, <2>4, <3>1
  <2>5. CASE c \in new /\ d \in rebuilt
    BY <1>11, <2>1, <2>2, <2>5
  <2>6. CASE c \in rebuilt /\ d \in new
    BY <1>11, <2>1, <2>2, <2>6
  <2> QED
    BY <2>3, <2>4, <2>5, <2>6
<1>12. SoundDrafts(drafts, last + 1)
  BY <1>9, <1>10, <1>11 DEF SoundDrafts
<1>13. \A d \in drafts : \A e \in d.entries : \A m \in kept : \A k \in LiveIn(m) : e.file # k.file
  <2> SUFFICES ASSUME NEW d \in drafts, NEW y \in d.entries, NEW m \in kept, NEW k \in LiveIn(m), y.file = k.file
               PROVE  FALSE
    OBVIOUS
  <2>1. k.file \in Nat /\ k.file <= last
    BY <1>2
  <2>2. CASE d \in new
    BY <1>0a, <1>4, <2>1, <2>2 DEF Fresh
  <2>3. CASE d \in rebuilt
    <3>1. PICK n \in touched : d.entries = Survivors(n, removed)
      BY <1>5, <2>3
    <3>2. PICK e \in LiveIn(n) : y.file = e.file
      BY <1>7, <3>1
    <3>3. m = n
      BY <1>3, <3>2 DEF SoundManifests
    <3> QED
      BY <3>3
  <2> QED
    BY <2>2, <2>3
<1>14. /\ SoundManifests(after, last + 1)
       /\ \A r : r \in LiveEntriesOf(after) <=>
              r \in LiveEntriesOf(kept) \/ \E d \in drafts : \E e \in d.entries : r = Row(d.spec, e)
  <2>1. /\ kept \in SUBSET manifests /\ SoundManifests(manifests, last)
        /\ last <= last + 1 /\ last + 1 \in Nat /\ Apart(drafts, kept)
    BY <1>13 DEF Apart
  <2> HIDE DEF kept, drafts, manifests
  <2>2. w \in Written(drafts) /\ SoundDrafts(drafts, last + 1)
    BY <1>1, <1>12
  <2>3. /\ SoundManifests(kept \cup w, last + 1)
        /\ LiveEntriesOf(kept \cup w) = LiveEntriesOf(kept) \cup DraftRows(drafts)
    <3> DEFINE next == last + 1
    <3>1. next \in Nat /\ last <= next /\ SoundDrafts(drafts, next)
      BY <2>1, <2>2
    <3> HIDE DEF next
    <3>2. SoundManifests(kept \cup w, next) /\ LiveEntriesOf(kept \cup w) = LiveEntriesOf(kept) \cup DraftRows(drafts)
      BY <2>1, <2>2, <3>1, Assembled
    <3> QED
      BY <3>2 DEF next
  <2> QED
    BY <1>1, <2>3, RowsOfDrafts
<1>15. ASSUME NEW r
       PROVE  r \in LiveEntriesOf(after) <=> r \in Swapped(LiveEntriesOf(manifests), removed, RowsOfAdded(view.spec, added))
  <2>1. \A m \in manifests : \A e \in LiveIn(m) : m \in kept => e.file \notin removed
    BY DEF touched, Touched, Files
  <2>2. ASSUME NEW m \in manifests, NEW e \in LiveIn(m), e.file \notin removed, r = Row(m.spec, e)
        PROVE  r \in LiveEntriesOf(after)
    <3>1. CASE m \in kept
      BY <1>14, <2>2, <3>1, Rows
    <3>2. CASE m \in touched
      <4>1. Existing(e) \in Survivors(m, removed)
        BY <2>2 DEF Survivors
      <4> DEFINE d == Draft(m.spec, m.kind, Survivors(m, removed))
      <4>2. d \in rebuilt
        BY <3>2, <4>1, RebuiltDrafts DEF rebuilt
      <4>3. d.spec = m.spec /\ Existing(e) \in d.entries
        BY <4>1 DEF Draft
      <4>4. r = Row(d.spec, Existing(e))
        BY <1>2, <2>2, <4>3, Carried
      <4> QED
        BY <1>14, <4>2, <4>3, <4>4
    <3> QED
      BY <3>1, <3>2
  <2>3. ASSUME NEW d \in rebuilt, NEW y \in d.entries, r = Row(d.spec, y)
        PROVE  \E m \in manifests : \E e \in LiveIn(m) : e.file \notin removed /\ r = Row(m.spec, e)
    <3>1. PICK m \in touched : d.spec = m.spec /\ d.entries = Survivors(m, removed)
      BY <1>5
    <3>2. PICK e \in LiveIn(m) : e.file \notin removed /\ \A spec : Row(spec, y) = Row(spec, e)
      BY <1>7, <3>1
    <3> QED
      BY <1>3, <2>3, <3>1, <3>2
  <2>4. (\E x \in added : r = Row(view.spec, x)) => r \in LiveEntriesOf(after)
    <3> SUFFICES ASSUME NEW x \in added, r = Row(view.spec, x) PROVE r \in LiveEntriesOf(after)
      OBVIOUS
    <3>1. PICK d \in new : d.spec = view.spec /\ d.entries = added
      BY <1>4
    <3> QED
      BY <1>14, <3>1
  <2>5. \A m \in manifests : \A e \in LiveIn(m) : r = Row(m.spec, e) => r.file = e.file
    BY DEF Row
  <2>6. r \in Swapped(LiveEntriesOf(manifests), removed, RowsOfAdded(view.spec, added)) <=>
          \/ \E x \in added : r = Row(view.spec, x)
          \/ \E m \in manifests : \E e \in LiveIn(m) : r = Row(m.spec, e) /\ e.file \notin removed
    BY <2>5, Rows DEF Swapped, RowsOfAdded
  <2>7. r \in LiveEntriesOf(kept) =>
          \E m \in manifests : \E e \in LiveIn(m) : r = Row(m.spec, e) /\ e.file \notin removed
    BY <2>1, Rows
  <2>8. r \in LiveEntriesOf(after) =>
          \/ \E x \in added : r = Row(view.spec, x)
          \/ \E m \in manifests : \E e \in LiveIn(m) : r = Row(m.spec, e) /\ e.file \notin removed
    BY <1>4, <1>14, <2>3, <2>7
  <2> QED
    BY <2>2, <2>4, <2>6, <2>8
<1> QED
  BY <1>14, <1>15

(* A writer's new manifest adds its entry to the rows.                      *)
NewManifests(spec, kind, x) == Written({Draft(spec, kind, {x})})

LEMMA AddedRows ==
    ASSUME NEW manifests, NEW last \in Nat, SoundManifests(manifests, last), NEW spec \in Specs,
           NEW kind \in Contents, NEW x, Fresh(x, last), NEW w \in NewManifests(spec, kind, x)
    PROVE  /\ SoundManifests(manifests \cup w, last + 1)
           /\ LiveEntriesOf(manifests \cup w) = LiveEntriesOf(manifests) \cup {Row(spec, x)}
<1> DEFINE d == Draft(spec, kind, {x})
           drafts == {d}
<1>1. d.spec = spec /\ d.entries = {x} /\ d \in [spec : Specs, kind : Contents, entries : SUBSET Entry]
  BY DEF Draft, Fresh
<1>2. SoundDrafts(drafts, last + 1)
  <2>1. IsFiniteSet(drafts) /\ IsFiniteSet({x})
    BY FS_Singleton
  <2>2. \A e \in d.entries : e.status # "deleted" /\ e.file <= last + 1 /\ e.seq <= last + 1
    BY <1>1 DEF Fresh
  <2> HIDE DEF d
  <2>3. \A b, c \in drafts : \A y \in b.entries, z \in c.entries : b = c /\ y = z
    BY <1>1
  <2> QED
    BY <1>1, <2>1, <2>2, <2>3 DEF SoundDrafts
<1>3. Apart(drafts, manifests)
  <2>1. \A m \in manifests : \A k \in LiveIn(m) : k.file \in Nat /\ k.file <= last
    BY DEF SoundManifests, Manifest, LiveIn, Entry
  <2> HIDE DEF d
  <2> QED
    BY <1>1, <2>1 DEF Apart, Fresh
<1>4. DraftRows(drafts) = {Row(spec, x)}
  <2> HIDE DEF d
  <2> QED
    BY <1>1 DEF DraftRows
<1> DEFINE kept == manifests
<1>5. kept \in SUBSET manifests /\ last <= last + 1 /\ last + 1 \in Nat /\ Apart(drafts, kept)
  BY <1>3
<1> HIDE DEF drafts, kept
<1>6. w \in Written(drafts)
  BY DEF drafts, NewManifests
<1> HIDE DEF d
<1>7. /\ SoundManifests(kept \cup w, last + 1)
      /\ LiveEntriesOf(kept \cup w) = LiveEntriesOf(kept) \cup DraftRows(drafts)
  BY <1>2, <1>5, <1>6, Assembled
<1> QED
  BY <1>4, <1>7 DEF kept

(* Marking an entry deleted removes its row and no other.                   *)
Marked(m, gone) ==
    [m EXCEPT !.entries = {IF e = gone THEN [e EXCEPT !.status = "deleted"] ELSE Existing(e) : e \in LiveIn(m)}]

LEMMA RemovedRows ==
    ASSUME NEW manifests, NEW last \in Nat, SoundManifests(manifests, last), NEW m \in manifests,
           NEW gone \in LiveIn(m)
    PROVE  LET after == (manifests \ {m}) \cup {Marked(m, gone)}
           IN  /\ SoundManifests(after, last + 1)
               /\ LiveEntriesOf(after) = LiveEntriesOf(manifests) \ {Row(m.spec, gone)}
               /\ Row(m.spec, gone) \in LiveEntriesOf(manifests)
<1> DEFINE left(e) == IF e = gone THEN [e EXCEPT !.status = "deleted"] ELSE Existing(e)
           entries == {left(e) : e \in LiveIn(m)}
           n == Marked(m, gone)
           after == (manifests \ {m}) \cup {n}
<1>1. \A k \in manifests : \A e \in LiveIn(k) :
        /\ k \in Manifest /\ e \in Entry /\ e.file \in Nat /\ e.seq \in Nat /\ e.file <= last /\ e.seq <= last
  BY DEF SoundManifests, Manifest, LiveIn, Entry
<1>2. [gone EXCEPT !.status = "deleted"] \in Entry /\ [gone EXCEPT !.status = "deleted"].status = "deleted"
  BY <1>1 DEF Entry
<1>3. \A e \in LiveIn(m) : left(e) \in Entry /\ (left(e).status # "deleted" <=> e # gone)
  BY <1>1, <1>2, Carried
<1>4. entries \in SUBSET Entry
  <2> HIDE DEF left
  <2> QED
    BY <1>3
<1>5. n \in Manifest /\ n.entries = entries /\ n.spec = m.spec
  <2>1. m \in Manifest
    BY DEF SoundManifests
  <2>2. n = [m EXCEPT !.entries = entries]
    BY DEF Marked
  <2> HIDE DEF entries, n
  <2> QED
    BY <1>4, <2>1, <2>2 DEF Manifest
<1>6. \A y : y \in LiveIn(n) <=> \E e \in LiveIn(m) : e # gone /\ y = Existing(e)
  <2>1. LiveIn(n) = {y \in entries : y.status # "deleted"}
    BY <1>5 DEF LiveIn
  <2>2. \A e \in LiveIn(m) : e # gone => left(e) = Existing(e)
    OBVIOUS
  <2> HIDE DEF left, n
  <2> QED
    BY <1>3, <2>1, <2>2
<1>7. IsFiniteSet(entries)
  <2> DEFINE f == [e \in LiveIn(m) |-> left(e)]
  <2>1. IsFiniteSet(LiveIn(m))
    BY FS_Subset DEF SoundManifests, LiveIn
  <2> HIDE DEF left
  <2>2. entries = {f[e] : e \in LiveIn(m)} /\ f = [e \in LiveIn(m) |-> f[e]]
    OBVIOUS
  <2> HIDE DEF f, entries
  <2> QED
    BY <2>1, <2>2, FiniteImage
<1> HIDE DEF left, entries, n
<1>8. \A y \in LiveIn(n) : \E e \in LiveIn(m) : /\ e # gone /\ y = Existing(e) /\ y.file = e.file /\ y.seq = e.seq
                                                /\ Row(n.spec, y) = Row(m.spec, e)
  <2> SUFFICES ASSUME NEW y \in LiveIn(n)
               PROVE  \E e \in LiveIn(m) : /\ e # gone /\ y = Existing(e) /\ y.file = e.file /\ y.seq = e.seq
                                           /\ Row(n.spec, y) = Row(m.spec, e)
    OBVIOUS
  <2>1. PICK e \in LiveIn(m) : e # gone /\ y = Existing(e)
    BY <1>6
  <2> QED
    BY <1>1, <1>5, <2>1, Carried
<1>9. SoundManifests(after, last + 1)
  <2>1. after \subseteq Manifest
    BY <1>5 DEF SoundManifests
  <2>2. IsFiniteSet(after)
    <3>1. IsFiniteSet(manifests)
      BY DEF SoundManifests
    <3>2. IsFiniteSet(manifests \ {m}) /\ IsFiniteSet({n})
      BY <3>1, FS_Subset, FS_Singleton
    <3> QED
      BY <3>2, FS_Union
  <2>3. ASSUME NEW k \in after
        PROVE  IsFiniteSet(k.entries) /\ \A e \in LiveIn(k) : e.file <= last + 1 /\ e.seq <= last + 1
    <3>1. CASE k = n
      BY <1>1, <1>5, <1>7, <1>8, <3>1
    <3>2. CASE k \in manifests
      <4>1. IsFiniteSet(k.entries)
        BY <3>2 DEF SoundManifests
      <4> QED
        BY <1>1, <3>2, <4>1
    <3> QED
      BY <3>1, <3>2
  <2>4. ASSUME NEW j \in after, NEW k \in after, NEW d \in LiveIn(j), NEW e \in LiveIn(k), d.file = e.file
        PROVE  j = k /\ d = e
    <3>1. CASE j = n /\ k = n
      <4>1. PICK u \in LiveIn(m) : d = Existing(u) /\ d.file = u.file
        BY <1>8, <3>1
      <4>2. PICK v \in LiveIn(m) : e = Existing(v) /\ e.file = v.file
        BY <1>8, <3>1
      <4>3. u = v
        BY <2>4, <4>1, <4>2 DEF SoundManifests
      <4> QED
        BY <3>1, <4>1, <4>2, <4>3
    <3>2. CASE j = n /\ k \in manifests \ {m}
      <4>1. PICK u \in LiveIn(m) : d.file = u.file
        BY <1>8, <3>2
      <4> QED
        BY <2>4, <3>2, <4>1 DEF SoundManifests
    <3>3. CASE j \in manifests \ {m} /\ k = n
      <4>1. PICK u \in LiveIn(m) : e.file = u.file
        BY <1>8, <3>3
      <4> QED
        BY <2>4, <3>3, <4>1 DEF SoundManifests
    <3>4. CASE j \in manifests \ {m} /\ k \in manifests \ {m}
      BY <2>4, <3>4 DEF SoundManifests
    <3> QED
      BY <3>1, <3>2, <3>3, <3>4
  <2> QED
    BY <2>1, <2>2, <2>3, <2>4 DEF SoundManifests
<1>10. ASSUME NEW r
       PROVE  r \in LiveEntriesOf(after) <=> r \in LiveEntriesOf(manifests) \ {Row(m.spec, gone)}
  <2>1. ASSUME NEW k \in manifests, NEW e \in LiveIn(k), r = Row(k.spec, e), r # Row(m.spec, gone)
        PROVE  r \in LiveEntriesOf(after)
    <3>1. CASE k = m
      <4>1. e # gone
        BY <2>1, <3>1
      <4>2. Existing(e) \in LiveIn(n) /\ Row(n.spec, Existing(e)) = r
        BY <1>1, <1>5, <1>6, <2>1, <3>1, <4>1, Carried
      <4> QED
        BY <4>2, Rows
    <3>2. CASE k # m
      BY <2>1, <3>2, Rows
    <3> QED
      BY <3>1, <3>2
  <2>2. ASSUME NEW k \in after, NEW y \in LiveIn(k), r = Row(k.spec, y)
        PROVE  \E j \in manifests : \E e \in LiveIn(j) : r = Row(j.spec, e) /\ e.file # gone.file
    <3>1. CASE k = n
      <4>1. PICK e \in LiveIn(m) : e # gone /\ Row(n.spec, y) = Row(m.spec, e)
        BY <1>8, <3>1
      <4>2. e.file # gone.file
        BY <4>1 DEF SoundManifests
      <4> QED
        BY <2>2, <3>1, <4>1, <4>2
    <3>2. CASE k \in manifests \ {m}
      <4>1. y.file # gone.file
        BY <3>2 DEF SoundManifests
      <4> QED
        BY <2>2, <3>2, <4>1
    <3> QED
      BY <3>1, <3>2
  <2>3. \A j \in manifests : \A e \in LiveIn(j) : e.file # gone.file => Row(j.spec, e) # Row(m.spec, gone)
    <3>1. \A s, e : Row(s, e).file = e.file
      BY DEF Row
    <3> QED
      BY <3>1
  <2>4. r \in LiveEntriesOf(after) => \E k \in after : \E y \in LiveIn(k) : r = Row(k.spec, y)
    BY Rows
  <2> HIDE DEF after
  <2> QED
    BY <2>1, <2>2, <2>3, <2>4, Rows
<1>11. Row(m.spec, gone) \in LiveEntriesOf(manifests)
  BY Rows
<1> QED
  BY <1>9, <1>10, <1>11 DEF n

-----------------------------------------------------------------------------
(* The order of what is packed *)

(* A finite set of numbers has a least and a greatest.                      *)
LEMMA Extremes ==
    ASSUME NEW S \in SUBSET Nat, IsFiniteSet(S), S # {}
    PROVE  /\ Max(S) \in S /\ \A y \in S : y <= Max(S)
           /\ Min(S) \in S /\ \A y \in S : Min(S) <= y
<1> DEFINE above(x) == {y \in S : y > x}
           below(x) == {y \in S : y < x}
<1>1. IsWellFoundedOn(StrictSubsetOrdering(Nat), FiniteSubsetsOf(Nat))
  BY FS_StrictSubsetOrderingWellFounded, Zenon
<1>2. \A x \in S : IsFiniteSet(above(x)) /\ IsFiniteSet(below(x))
  BY FS_Subset
<1>3. {above(x) : x \in S} \subseteq FiniteSubsetsOf(Nat) /\ {above(x) : x \in S} # {}
  BY <1>2 DEF FiniteSubsetsOf
<1>4. {below(x) : x \in S} \subseteq FiniteSubsetsOf(Nat) /\ {below(x) : x \in S} # {}
  BY <1>2 DEF FiniteSubsetsOf
<1>5. PICK a \in {above(x) : x \in S} : \A r \in {above(x) : x \in S} : ~(<<r, a>> \in StrictSubsetOrdering(Nat))
  BY <1>1, <1>3, WFMin, Zenon
<1>6. PICK b \in {below(x) : x \in S} : \A r \in {below(x) : x \in S} : ~(<<r, b>> \in StrictSubsetOrdering(Nat))
  BY <1>1, <1>4, WFMin, Zenon
<1>7. PICK u \in S : a = above(u)
  OBVIOUS
<1>8. PICK v \in S : b = below(v)
  OBVIOUS
<1>9. \A y \in S : y <= u
  <2> SUFFICES ASSUME NEW y \in S, y > u PROVE FALSE
    OBVIOUS
  <2>0. \A z \in S : z \in Nat
    OBVIOUS
  <2>1. above(y) \subseteq above(u) /\ above(y) # above(u)
    <3>1. y \in above(u) /\ y \notin above(y)
      BY <2>0
    <3>2. \A z \in S : z > y => z > u
      BY <2>0
    <3> QED
      BY <3>1, <3>2
  <2>2. ~(<<above(y), above(u)>> \in StrictSubsetOrdering(Nat))
    BY <1>5, <1>7
  <2>3. above(y) \in SUBSET Nat /\ above(u) \in SUBSET Nat
    OBVIOUS
  <2> HIDE DEF above
  <2> QED
    BY <2>1, <2>2, <2>3 DEF StrictSubsetOrdering
<1>10. \A y \in S : v <= y
  <2> SUFFICES ASSUME NEW y \in S, y < v PROVE FALSE
    OBVIOUS
  <2>0. \A z \in S : z \in Nat
    OBVIOUS
  <2>1. below(y) \subseteq below(v) /\ below(y) # below(v)
    <3>1. y \in below(v) /\ y \notin below(y)
      BY <2>0
    <3>2. \A z \in S : z < y => z < v
      BY <2>0
    <3> QED
      BY <3>1, <3>2
  <2>2. ~(<<below(y), below(v)>> \in StrictSubsetOrdering(Nat))
    BY <1>6, <1>8
  <2>3. below(y) \in SUBSET Nat /\ below(v) \in SUBSET Nat
    OBVIOUS
  <2> HIDE DEF below
  <2> QED
    BY <2>1, <2>2, <2>3 DEF StrictSubsetOrdering
<1>11. Max(S) \in S /\ \A y \in S : y <= Max(S)
  BY <1>9 DEF Max
<1>12. Min(S) \in S /\ \A y \in S : Min(S) <= y
  BY <1>10 DEF Min
<1> QED
  BY <1>11, <1>12

(* An entry whose partition comes earlier has no later a position.          *)
LEMMA PositionsByRank ==
    ASSUME NEW entries \in SUBSET Entry, IsFiniteSet(entries), NEW x \in entries, NEW y \in entries,
           Position(x, entries) \div PerManifest < Position(y, entries) \div PerManifest
    PROVE  Rank(x.tuple) <= Rank(y.tuple)
<1> SUFFICES ASSUME Rank(y.tuple) < Rank(x.tuple) PROVE FALSE
  <2>1. x.tuple \in Tuples /\ y.tuple \in Tuples
    BY DEF Entry
  <2>2. Rank(x.tuple) \in Nat /\ Rank(y.tuple) \in Nat
    BY <2>1, ManifestsAssumption
  <2> QED
    BY <2>2
<1>1. \A e \in entries : e.tuple \in Tuples /\ Rank(e.tuple) \in Nat
  BY ManifestsAssumption DEF Entry
<1> DEFINE first(e) == {d \in entries : Before(d, e)}
<1>2. first(y) \subseteq first(x)
  <2> SUFFICES ASSUME NEW d \in entries, Before(d, y) PROVE Before(d, x)
    OBVIOUS
  <2>1. Rank(d.tuple) <= Rank(y.tuple)
    BY <1>1 DEF Before
  <2> QED
    BY <1>1, <2>1 DEF Before
<1>3. IsFiniteSet(first(x))
  BY FS_Subset
<1> HIDE DEF first
<1>4. Cardinality(first(y)) <= Cardinality(first(x)) /\ IsFiniteSet(first(y))
  BY <1>2, <1>3, FS_Subset
<1>5. Cardinality(first(x)) \in Nat /\ Cardinality(first(y)) \in Nat
  BY <1>3, <1>4, FS_CardinalityType
<1>6. Position(x, entries) = Cardinality(first(x)) /\ Position(y, entries) = Cardinality(first(y))
  BY DEF Position, first
<1>7. PerManifest \in Nat \ {0}
  BY ManifestsAssumption
<1> DEFINE i == Position(x, entries)
           j == Position(y, entries)
<1>8. i \in Nat /\ j \in Nat /\ j <= i /\ i \div PerManifest < j \div PerManifest
  BY <1>4, <1>5, <1>6
<1> HIDE DEF i, j
<1>9. j \div PerManifest <= i \div PerManifest
  BY <1>7, <1>8
<1>10. i \div PerManifest \in Int /\ j \div PerManifest \in Int
  BY <1>7, <1>8
<1> QED
  BY <1>8, <1>9, <1>10

(* What may be packed together is finite, and made of entries.              *)
LEMMA FiniteBucket ==
    ASSUME NEW manifests, NEW last \in Nat, SoundManifests(manifests, last), NEW b
    PROVE  Bucket(manifests, b) \in SUBSET Entry /\ IsFiniteSet(Bucket(manifests, b))
<1> DEFINE S == {n \in Undersized(manifests) : <<n.spec, n.kind>> = b}
           f == [m \in S |-> LiveIn(m)]
<1>1. \A m \in Undersized(manifests) : IsFiniteSet(LiveIn(m)) /\ LiveIn(m) \subseteq Entry
  BY FS_Subset DEF LiveIn, SoundManifests, Undersized, Manifest
<1>2. IsFiniteSet(S)
  BY FS_Subset DEF SoundManifests, Undersized
<1>3. /\ {f[m] : m \in S} = {LiveIn(m) : m \in S} /\ f = [m \in S |-> f[m]]
      /\ \A m \in S : IsFiniteSet(f[m]) /\ f[m] \subseteq Entry
  BY <1>1
<1>4. Bucket(manifests, b) = UNION {LiveIn(m) : m \in S}
  BY DEF Bucket
<1> HIDE DEF S, f
<1>5. IsFiniteSet({f[m] : m \in S})
  BY <1>2, <1>3, FiniteImage
<1>6. IsFiniteSet(UNION {f[m] : m \in S})
  BY <1>3, <1>5, FS_UNION
<1> QED
  BY <1>3, <1>4, <1>6

(* A manifest that packing wrote holds the entries of one chunk.            *)
LEMMA DraftChunk ==
    ASSUME NEW manifests, NEW d \in Packed(manifests), NEW m,
           m.spec = d.spec, m.kind = d.kind, m.entries = d.entries
    PROVE  \E e \in Bucket(manifests, <<m.spec, m.kind>>) :
               m.entries = {Existing(x) : x \in Class(Bucket(manifests, <<m.spec, m.kind>>), e)}
<1>1. PICK b \in Buckets(manifests) : \E e \in Bucket(manifests, b) : d = DraftOf(manifests, b, e)
  BY PackedDrafts
<1>2. PICK e \in Bucket(manifests, b) : d = DraftOf(manifests, b, e)
  BY <1>1
<1>3. b = <<b[1], b[2]>>
  BY DEF Buckets
<1>4. /\ d.spec = b[1] /\ d.kind = b[2]
      /\ d.entries = {Existing(x) : x \in Class(Bucket(manifests, b), e)}
  BY <1>2 DEF DraftOf, Draft
<1>5. b = <<m.spec, m.kind>>
  BY <1>3, <1>4
<1> QED
  BY <1>4, <1>5

LEMMA WrittenChunk ==
    ASSUME NEW manifests, NEW after \in Repacked(manifests), NEW m \in after \ manifests
    PROVE  \E e \in Bucket(manifests, <<m.spec, m.kind>>) :
               m.entries = {Existing(x) : x \in Class(Bucket(manifests, <<m.spec, m.kind>>), e)}
<1>1. PICK w \in Written(Packed(manifests)) : after = (manifests \ Undersized(manifests)) \cup w
  BY DEF Repacked
<1>2. PICK small \in [Packed(manifests) -> BOOLEAN] :
        w = {[spec |-> d.spec, kind |-> d.kind, small |-> small[d], entries |-> d.entries] : d \in Packed(manifests)}
  BY WrittenDrafts
<1>3. PICK d \in Packed(manifests) : m.spec = d.spec /\ m.kind = d.kind /\ m.entries = d.entries
  BY <1>1, <1>2
<1> QED
  BY <1>3, DraftChunk

LEMMA ChunkRanks ==
    ASSUME NEW entries \in SUBSET Entry, IsFiniteSet(entries), NEW e \in entries, NEW m,
           m.entries = {Existing(x) : x \in Class(entries, e)}
    PROVE  /\ Max(Ranks(m)) \in {Rank(x.tuple) : x \in Class(entries, e)}
           /\ Min(Ranks(m)) \in {Rank(x.tuple) : x \in Class(entries, e)}
<1> DEFINE C == Class(entries, e)
           f == [x \in C |-> Rank(x.tuple)]
<1>1. IsFiniteSet(C) /\ e \in C /\ C \subseteq Entry
  BY FS_Subset DEF Class
<1>2. \A x \in C : Existing(x).tuple = x.tuple /\ Rank(x.tuple) \in Nat
  BY <1>1, Carried, ManifestsAssumption DEF Entry
<1>3. Ranks(m) = {Rank(x.tuple) : x \in C}
  <2> HIDE DEF C
  <2>1. \A r : r \in Ranks(m) <=> \E x \in C : r = Rank(Existing(x).tuple)
    BY DEF Ranks, C
  <2> QED
    BY <1>2, <2>1
<1>4. {f[x] : x \in C} = {Rank(x.tuple) : x \in C} /\ f = [x \in C |-> f[x]]
  OBVIOUS
<1> HIDE DEF C, f
<1>5. IsFiniteSet({f[x] : x \in C})
  BY <1>1, <1>4, FiniteImage
<1>6. Ranks(m) \in SUBSET Nat /\ IsFiniteSet(Ranks(m)) /\ Ranks(m) # {}
  <2>1. IsFiniteSet(Ranks(m))
    BY <1>3, <1>4, <1>5
  <2>2. Rank(e.tuple) \in Ranks(m)
    BY <1>1, <1>3
  <2>3. \A r \in Ranks(m) : r \in Nat
    BY <1>2, <1>3
  <2> QED
    BY <2>1, <2>2, <2>3
<1>7. Max(Ranks(m)) \in Ranks(m) /\ Min(Ranks(m)) \in Ranks(m)
  BY <1>6, Extremes
<1> QED
  BY <1>3, <1>7 DEF C

(* Of two manifests packing writes for one spec and kind, one comes first.  *)
LEMMA PackedApart ==
    ASSUME NEW manifests, NEW last \in Nat, SoundManifests(manifests, last),
           NEW after \in Repacked(manifests), NEW m \in after \ manifests, NEW n \in after \ manifests,
           m.spec = n.spec, m.kind = n.kind, m # n
    PROVE  Max(Ranks(m)) <= Min(Ranks(n)) \/ Max(Ranks(n)) <= Min(Ranks(m))
<1> DEFINE B == Bucket(manifests, <<m.spec, m.kind>>)
           i(x) == Position(x, B) \div PerManifest
<1>1. B \in SUBSET Entry /\ IsFiniteSet(B)
  BY FiniteBucket
<1>2. PICK d \in B : m.entries = {Existing(x) : x \in Class(B, d)}
  BY WrittenChunk
<1>3. PICK e \in B : n.entries = {Existing(x) : x \in Class(B, e)}
  BY WrittenChunk
<1> HIDE DEF B
<1>4. i(d) # i(e)
  <2> SUFFICES ASSUME i(d) = i(e) PROVE FALSE
    OBVIOUS
  <2>1. Class(B, d) = Class(B, e)
    BY DEF Class
  <2>2. m.entries = n.entries
    BY <1>2, <1>3, <2>1
  <2>3. d \in Class(B, d)
    BY DEF Class
  <2>4. Existing(d) \in m.entries /\ Existing(d) \in n.entries /\ Existing(d).status = "existing"
    BY <1>1, <1>2, <2>2, <2>3, Carried
  <2>5. SoundManifests(after, last)
    BY RepackedRows
  <2>6. Existing(d) \in LiveIn(m) /\ Existing(d) \in LiveIn(n)
    BY <2>4 DEF LiveIn
  <2> QED
    BY <2>5, <2>6 DEF SoundManifests
<1>5. \A x \in Class(B, d) : x \in B /\ i(x) = i(d)
  BY DEF Class
<1>6. \A x \in Class(B, e) : x \in B /\ i(x) = i(e)
  BY DEF Class
<1>7. i(d) \in Int /\ i(e) \in Int
  <2>1. \A x : Position(x, B) \in Nat
    <3> SUFFICES ASSUME NEW x PROVE Position(x, B) \in Nat
      OBVIOUS
    <3>1. IsFiniteSet({y \in B : Before(y, x)})
      BY <1>1, FS_Subset
    <3> QED
      BY <3>1, FS_CardinalityType DEF Position
  <2> QED
    BY <2>1, ManifestsAssumption
<1>8. /\ Max(Ranks(m)) \in {Rank(x.tuple) : x \in Class(B, d)}
      /\ Min(Ranks(m)) \in {Rank(x.tuple) : x \in Class(B, d)}
  BY <1>1, <1>2, ChunkRanks
<1>9. /\ Max(Ranks(n)) \in {Rank(x.tuple) : x \in Class(B, e)}
      /\ Min(Ranks(n)) \in {Rank(x.tuple) : x \in Class(B, e)}
  BY <1>1, <1>3, ChunkRanks
<1>10. CASE i(d) < i(e)
  <2>1. \A x \in Class(B, d), y \in Class(B, e) : Rank(x.tuple) <= Rank(y.tuple)
    BY <1>1, <1>5, <1>6, <1>10, PositionsByRank
  <2> QED
    BY <1>8, <1>9, <2>1
<1>11. CASE i(e) < i(d)
  <2>1. \A x \in Class(B, d), y \in Class(B, e) : Rank(y.tuple) <= Rank(x.tuple)
    BY <1>1, <1>5, <1>6, <1>11, PositionsByRank
  <2> QED
    BY <1>8, <1>9, <2>1
<1> QED
  BY <1>4, <1>7, <1>10, <1>11

-----------------------------------------------------------------------------
(* Positions are a numbering: no two entries share one and none is skipped *)

Listed(entries) ==
    entries \in SUBSET Entry /\ IsFiniteSet(entries) /\ \A x, y \in entries : x.file = y.file => x = y

LEMMA PositionOrder ==
    ASSUME NEW S, Listed(S), NEW x \in S, NEW y \in S
    PROVE  /\ Position(x, S) \in Nat
           /\ Before(x, y) => Position(x, S) < Position(y, S)
           /\ x # y => Before(x, y) \/ Before(y, x)
           /\ ~Before(x, x)
<1> DEFINE first(e) == {d \in S : Before(d, e)}
<1>1. \A e \in S : e.tuple \in Tuples /\ e.file \in Nat /\ Rank(e.tuple) \in Nat
  BY ManifestsAssumption DEF Listed, Entry
<1>2. IsFiniteSet(first(x)) /\ IsFiniteSet(first(y))
  BY FS_Subset DEF Listed
<1>3. ~Before(x, x)
  BY <1>1 DEF Before
<1>4. x # y => Before(x, y) \/ Before(y, x)
  <2> SUFFICES ASSUME x # y PROVE Before(x, y) \/ Before(y, x)
    OBVIOUS
  <2>1. x.file # y.file
    BY DEF Listed
  <2>2. x.tuple = y.tuple \/ Rank(x.tuple) # Rank(y.tuple)
    BY <1>1, ManifestsAssumption
  <2> QED
    BY <1>1, <2>1, <2>2 DEF Before
<1>5. Position(x, S) = Cardinality(first(x)) /\ Position(y, S) = Cardinality(first(y))
  BY DEF Position
<1>6. ASSUME Before(x, y) PROVE Position(x, S) < Position(y, S)
  <2>1. first(x) \subseteq first(y)
    <3> SUFFICES ASSUME NEW d \in S, Before(d, x) PROVE Before(d, y)
      OBVIOUS
    <3>1. \/ Rank(d.tuple) < Rank(x.tuple)
          \/ (d.tuple = x.tuple /\ d.file < x.file)
      BY DEF Before
    <3>2. \/ Rank(x.tuple) < Rank(y.tuple)
          \/ (x.tuple = y.tuple /\ x.file < y.file)
      BY <1>6 DEF Before
    <3> QED
      BY <1>1, <3>1, <3>2 DEF Before
  <2>2. first(x) # first(y)
    BY <1>3, <1>6
  <2> HIDE DEF first
  <2>3. Cardinality(first(x)) <= Cardinality(first(y)) /\ Cardinality(first(x)) # Cardinality(first(y))
    BY <1>2, <2>1, <2>2, FS_Subset
  <2>4. Cardinality(first(x)) \in Nat /\ Cardinality(first(y)) \in Nat
    BY <1>2, FS_CardinalityType
  <2> QED
    BY <1>5, <2>3, <2>4
<1>7. Position(x, S) \in Nat
  BY <1>2, <1>5, FS_CardinalityType
<1> QED
  BY <1>3, <1>4, <1>6, <1>7

(* Some of the entries are the first and the last.                          *)
LEMMA Ends ==
    ASSUME NEW S, Listed(S), NEW T \in SUBSET S, T # {}
    PROVE  /\ \E z \in T : \A x \in T : Position(z, S) <= Position(x, S)
           /\ \E z \in T : \A x \in T : Position(x, S) <= Position(z, S)
<1> DEFINE f == [x \in T |-> Position(x, S)]
           Q == {Position(x, S) : x \in T}
<1>1. \A x \in T : Position(x, S) \in Nat
  BY PositionOrder
<1>2. IsFiniteSet(T)
  BY FS_Subset DEF Listed
<1>3. Q = {f[x] : x \in T} /\ f = [x \in T |-> f[x]]
  OBVIOUS
<1> HIDE DEF f
<1>4. IsFiniteSet(Q)
  BY <1>2, <1>3, FiniteImage
<1>5. Q \in SUBSET Nat /\ Q # {}
  BY <1>1
<1>6. \A x \in T : Position(x, S) \in Q
  OBVIOUS
<1>7. \A q \in Q : \E x \in T : q = Position(x, S)
  OBVIOUS
<1> HIDE DEF Q
<1>8. /\ Max(Q) \in Q /\ \A y \in Q : y <= Max(Q)
      /\ Min(Q) \in Q /\ \A y \in Q : Min(Q) <= y
  BY <1>4, <1>5, Extremes
<1>9. PICK u \in T : Max(Q) = Position(u, S)
  BY <1>7, <1>8
<1>10. PICK v \in T : Min(Q) = Position(v, S)
  BY <1>7, <1>8
<1> QED
  BY <1>6, <1>8, <1>9, <1>10

Below(S, k) == {x \in S : Position(x, S) < k}

LEMMA BelowCounts ==
    ASSUME NEW S, Listed(S), NEW k \in Nat
    PROVE  /\ IsFiniteSet(Below(S, k)) /\ Cardinality(Below(S, k)) \in Nat
           /\ Cardinality(Below(S, k)) <= k
           /\ (\E y \in S : Position(y, S) >= k) => Cardinality(Below(S, k)) >= k
<1> DEFINE first(e) == {d \in S : Before(d, e)}
           pos(e) == Position(e, S)
<1>1. IsFiniteSet(Below(S, k))
  BY FS_Subset DEF Listed, Below
<1>2. Cardinality(Below(S, k)) \in Nat
  BY <1>1, FS_CardinalityType
<1>3. \A e \in S : pos(e) \in Nat /\ pos(e) = Cardinality(first(e)) /\ IsFiniteSet(first(e))
  BY PositionOrder, FS_Subset DEF Position, Listed
<1>4. \A x, y \in S : Before(x, y) <=> pos(x) < pos(y)
  <2> SUFFICES ASSUME NEW x \in S, NEW y \in S PROVE Before(x, y) <=> pos(x) < pos(y)
    OBVIOUS
  <2>1. pos(x) \in Nat /\ pos(y) \in Nat
    BY PositionOrder
  <2>2. Before(x, y) => pos(x) < pos(y)
    BY PositionOrder
  <2>3. Before(y, x) => pos(y) < pos(x)
    BY PositionOrder
  <2>4. x # y => Before(x, y) \/ Before(y, x)
    BY PositionOrder
  <2> HIDE DEF pos
  <2> QED
    BY <2>1, <2>2, <2>3, <2>4
<1> HIDE DEF pos
<1>5. Cardinality(Below(S, k)) <= k
  <2>1. CASE Below(S, k) = {}
    <3>1. Cardinality(Below(S, k)) = 0
      BY <2>1, FS_EmptySet
    <3> QED
      BY <3>1
  <2>2. CASE Below(S, k) # {}
    <3>1. Below(S, k) \in SUBSET S
      BY DEF Below
    <3>2. PICK z \in Below(S, k) : \A x \in Below(S, k) : pos(x) <= pos(z)
      BY <2>2, <3>1, Ends DEF pos
    <3>3. z \in S /\ pos(z) < k
      BY <3>2 DEF Below, pos
    <3>4. \A x \in Below(S, k) : x = z \/ x \in first(z)
      <4> SUFFICES ASSUME NEW x \in Below(S, k), x # z PROVE Before(x, z)
        BY <3>1
      <4>1. x \in S /\ pos(x) <= pos(z)
        BY <3>1, <3>2
      <4>2. Before(x, z) \/ Before(z, x)
        BY <3>3, <4>1, PositionOrder
      <4>3. pos(z) < pos(x) => FALSE
        <5>1. pos(z) \in Nat /\ pos(x) \in Nat
          BY <1>3, <3>3, <4>1
        <5> QED
          BY <4>1, <5>1
      <4> QED
        BY <1>4, <3>3, <4>1, <4>2, <4>3
    <3>5. Below(S, k) \subseteq first(z) \cup {z}
      BY <3>4
    <3>6. z \notin first(z)
      BY <3>3, PositionOrder
    <3> HIDE DEF first
    <3>7. IsFiniteSet(first(z) \cup {z}) /\ Cardinality(first(z) \cup {z}) = Cardinality(first(z)) + 1
      BY <1>3, <3>3, <3>6, FS_AddElement
    <3>8. Cardinality(Below(S, k)) <= Cardinality(first(z)) + 1
      BY <3>5, <3>7, FS_Subset
    <3> QED
      BY <1>2, <1>3, <3>3, <3>8
  <2> QED
    BY <2>1, <2>2
<1>6. ASSUME NEW y \in S, pos(y) >= k PROVE Cardinality(Below(S, k)) >= k
  <2> DEFINE T == {x \in S : pos(x) >= k}
  <2>1. T \in SUBSET S /\ T # {}
    BY <1>6
  <2>2. PICK z \in T : \A x \in T : pos(z) <= pos(x)
    BY <2>1, Ends DEF pos
  <2>3. first(z) = Below(S, k)
    <3> SUFFICES ASSUME NEW x \in S PROVE Before(x, z) <=> pos(x) < k
      BY DEF Below, pos
    <3>1. pos(x) \in Nat /\ pos(z) \in Nat /\ pos(z) >= k /\ (pos(x) >= k => pos(z) <= pos(x))
      BY <1>3, <2>1, <2>2
    <3> QED
      BY <1>4, <2>1, <3>1
  <2>4. pos(z) = Cardinality(Below(S, k)) /\ pos(z) >= k
    BY <1>3, <2>1, <2>3
  <2> QED
    BY <2>4
<1> QED
  BY <1>1, <1>2, <1>5, <1>6 DEF pos

(* A chunk is full unless it is the last.                                   *)
LEMMA FullChunk ==
    ASSUME NEW S, Listed(S), NEW x \in S, NEW y \in S,
           Position(x, S) \div PerManifest < Position(y, S) \div PerManifest
    PROVE  Cardinality(Class(S, x)) >= PerManifest
<1> DEFINE P == PerManifest
           q == Position(x, S) \div P
           low == q * P
           high == q * P + P
<1>1. P \in Nat \ {0}
  BY ManifestsAssumption
<1>2. \A e \in S : Position(e, S) \in Nat
  BY PositionOrder
<1>3. q \in Nat /\ low \in Nat /\ high \in Nat /\ high = low + P
  BY <1>1, <1>2
<1>4. \A e \in S : Position(e, S) \div P = q <=> low <= Position(e, S) /\ Position(e, S) < high
  <2> SUFFICES ASSUME NEW e \in S
               PROVE  Position(e, S) \div P = q <=> low <= Position(e, S) /\ Position(e, S) < high
    OBVIOUS
  <2> DEFINE a == Position(e, S)
  <2>1. a \in Nat
    BY <1>2
  <2> HIDE DEF a, P, q
  <2>2. a \div P = q <=> q * P <= a /\ a < q * P + P
    BY <1>1, <1>3, <2>1
  <2> QED
    BY <2>2 DEF a
<1>5. Position(y, S) >= high
  <2> DEFINE a == Position(x, S)
             b == Position(y, S)
  <2>1. a \in Nat /\ b \in Nat /\ a \div P < b \div P
    BY <1>2
  <2> HIDE DEF a, b, P
  <2>2. b >= (a \div P) * P + P
    BY <1>1, <2>1
  <2> QED
    BY <2>2 DEF a, b
<1> HIDE DEF P, q, low, high
<1>6. Class(S, x) = Below(S, high) \ Below(S, low)
  <2>1. \A e \in S : e \in Class(S, x) <=> Position(e, S) \div P = q
    BY DEF Class, P, q
  <2>2. \A e \in S : e \in Below(S, high) \ Below(S, low) <=> low <= Position(e, S) /\ Position(e, S) < high
    BY <1>2, <1>3 DEF Below
  <2>3. Class(S, x) \subseteq S /\ Below(S, high) \subseteq S
    BY DEF Class, Below
  <2> QED
    BY <1>4, <2>1, <2>2, <2>3
<1>7. Below(S, high) \cap Below(S, low) = Below(S, low)
  BY <1>1, <1>2, <1>3 DEF Below
<1>8. /\ IsFiniteSet(Below(S, high)) /\ Cardinality(Below(S, high)) \in Nat /\ Cardinality(Below(S, high)) >= high
      /\ Cardinality(Below(S, low)) \in Nat /\ Cardinality(Below(S, low)) <= low
  BY <1>3, <1>5, BelowCounts
<1>9. Cardinality(Class(S, x)) = Cardinality(Below(S, high)) - Cardinality(Below(S, low))
  BY <1>6, <1>7, <1>8, FS_Difference
<1>10. Cardinality(Class(S, x)) >= P
  BY <1>1, <1>3, <1>8, <1>9
<1> QED
  BY <1>10 DEF P

-----------------------------------------------------------------------------
(* A packed table has nothing left to pack *)

LEMMA ListedBucket ==
    ASSUME NEW manifests, NEW last \in Nat, SoundManifests(manifests, last), NEW b
    PROVE  Listed(Bucket(manifests, b))
<1>1. Bucket(manifests, b) \in SUBSET Entry /\ IsFiniteSet(Bucket(manifests, b))
  BY FiniteBucket
<1>2. ASSUME NEW x \in Bucket(manifests, b), NEW y \in Bucket(manifests, b), x.file = y.file PROVE x = y
  <2>1. PICK m \in Undersized(manifests) : x \in LiveIn(m)
    BY BucketEntries
  <2>2. PICK n \in Undersized(manifests) : y \in LiveIn(n)
    BY BucketEntries
  <2> QED
    BY <1>2, <2>1, <2>2 DEF SoundManifests, Undersized
<1> QED
  BY <1>1, <1>2 DEF Listed

(* The first manifest is full, and all it lists comes before the second.    *)
Fills(m, n) ==
    /\ \A x \in LiveIn(m), y \in LiveIn(n) : Before(x, y)
    /\ Cardinality(LiveIn(m)) >= PerManifest

(* The undersized manifests of one spec and kind follow each other, each    *)
(* full but the last.                                                       *)
Settled(manifests) ==
    \A m \in Undersized(manifests) :
        /\ LiveIn(m) # {}
        /\ \A n \in Undersized(manifests) :
               (m # n /\ m.spec = n.spec /\ m.kind = n.kind) => Fills(m, n) \/ Fills(n, m)

LEMMA ChunkFills ==
    ASSUME NEW B, Listed(B), NEW d \in B, NEW e \in B,
           Position(d, B) \div PerManifest < Position(e, B) \div PerManifest,
           NEW m, LiveIn(m) = {Existing(x) : x \in Class(B, d)},
           NEW n, LiveIn(n) = {Existing(x) : x \in Class(B, e)}
    PROVE  Fills(m, n)
<1> DEFINE pos(x) == Position(x, B)
           i(x) == pos(x) \div PerManifest
<1>1. \A x \in Class(B, d) : x \in B /\ x \in Entry /\ i(x) = i(d)
  BY DEF Class, Listed
<1>2. \A x \in Class(B, e) : x \in B /\ x \in Entry /\ i(x) = i(e)
  BY DEF Class, Listed
<1>3. ASSUME NEW x \in Class(B, d), NEW y \in Class(B, e) PROVE Before(Existing(x), Existing(y))
  <2>1. x \in B /\ y \in B /\ i(x) < i(y)
    BY <1>1, <1>2
  <2>2. pos(x) \in Nat /\ pos(y) \in Nat /\ PerManifest \in Nat \ {0}
    BY <2>1, PositionOrder, ManifestsAssumption
  <2>3. Before(y, x) => pos(y) < pos(x)
    BY <2>1, PositionOrder
  <2>4. x # y => Before(x, y) \/ Before(y, x)
    BY <2>1, PositionOrder
  <2>5. ~(pos(y) < pos(x)) /\ x # y
    <3>1. ~(i(x) < i(x))
      BY <2>2
    <3>2. x # y
      BY <2>1, <3>1
    <3> HIDE DEF pos
    <3>3. pos(y) <= pos(x) => i(y) <= i(x)
      BY <2>2
    <3>4. i(x) \in Int /\ i(y) \in Int
      BY <2>2
    <3> HIDE DEF i
    <3>5. ~(pos(y) <= pos(x))
      BY <2>1, <3>3, <3>4
    <3> QED
      BY <2>2, <3>2, <3>5
  <2>6. Before(x, y)
    BY <2>3, <2>4, <2>5
  <2> QED
    BY <1>1, <1>2, <2>6, Carried DEF Before
<1>4. Cardinality(LiveIn(m)) >= PerManifest
  <2> DEFINE C == Class(B, d)
             f == [x \in C |-> Existing(x)]
  <2>1. IsFiniteSet(C)
    BY FS_Subset DEF Listed, Class
  <2>2. LiveIn(m) = {f[x] : x \in C} /\ f = [x \in C |-> f[x]]
    OBVIOUS
  <2>3. \A x, y \in C : f[x] = f[y] => x = y
    <3> SUFFICES ASSUME NEW x \in C, NEW y \in C, Existing(x) = Existing(y) PROVE x = y
      OBVIOUS
    <3>1. x.file = y.file
      BY <1>1, Carried
    <3> QED
      BY <1>1, <3>1 DEF Listed
  <2> HIDE DEF C, f
  <2>4. IsFiniteSet(LiveIn(m))
    BY <2>1, <2>2, FiniteImage
  <2>5. f \in Injection(C, LiveIn(m))
    BY <2>2, <2>3 DEF Injection, IsInjective
  <2>6. Cardinality(C) <= Cardinality(LiveIn(m))
    BY <2>4, <2>5, FS_Injection
  <2>7. Cardinality(C) >= PerManifest
    BY FullChunk DEF C
  <2>8. Cardinality(C) \in Nat /\ Cardinality(LiveIn(m)) \in Nat /\ PerManifest \in Nat
    BY <2>1, <2>4, FS_CardinalityType, ManifestsAssumption
  <2> QED
    BY <2>6, <2>7, <2>8
<1>5. \A x \in LiveIn(m), y \in LiveIn(n) : Before(x, y)
  BY <1>3
<1> QED
  BY <1>4, <1>5 DEF Fills

LEMMA PackingSettled ==
    ASSUME NEW manifests, NEW last \in Nat, SoundManifests(manifests, last), NEW after \in Repacked(manifests)
    PROVE  Settled(after)
<1> DEFINE bucket(m) == Bucket(manifests, <<m.spec, m.kind>>)
           i(m, x) == Position(x, bucket(m)) \div PerManifest
<1>1. PICK w \in Written(Packed(manifests)) : after = (manifests \ Undersized(manifests)) \cup w
  BY DEF Repacked
<1>2. \A m \in Undersized(after) : m \in w /\ m \in after
  BY <1>1 DEF Undersized
<1>3. ASSUME NEW m \in Undersized(after)
      PROVE  \E e \in bucket(m) :
                /\ m.entries = {Existing(x) : x \in Class(bucket(m), e)}
                /\ LiveIn(m) = {Existing(x) : x \in Class(bucket(m), e)}
                /\ Existing(e) \in LiveIn(m)
  <2>1. PICK small \in [Packed(manifests) -> BOOLEAN] :
          w = {[spec |-> d.spec, kind |-> d.kind, small |-> small[d], entries |-> d.entries] : d \in Packed(manifests)}
    BY WrittenDrafts
  <2>2. PICK d \in Packed(manifests) : m.spec = d.spec /\ m.kind = d.kind /\ m.entries = d.entries
    BY <1>2, <2>1
  <2>3. PICK e \in bucket(m) : m.entries = {Existing(x) : x \in Class(bucket(m), e)}
    BY <2>2, DraftChunk
  <2>4. bucket(m) \subseteq Entry
    BY FiniteBucket
  <2>5. \A x \in Class(bucket(m), e) : x \in Entry /\ Existing(x).status # "deleted"
    BY <2>4, Carried DEF Class
  <2>6. LiveIn(m) = m.entries
    BY <2>3, <2>5 DEF LiveIn
  <2>7. e \in Class(bucket(m), e)
    BY DEF Class
  <2> QED
    BY <2>3, <2>6, <2>7
<1>4. ASSUME NEW m \in Undersized(after), NEW n \in Undersized(after), m # n, m.spec = n.spec, m.kind = n.kind
      PROVE  Fills(m, n) \/ Fills(n, m)
  <2> DEFINE B == bucket(m)
  <2>1. PICK d \in B : /\ m.entries = {Existing(x) : x \in Class(B, d)}
                       /\ LiveIn(m) = {Existing(x) : x \in Class(B, d)}
                       /\ Existing(d) \in LiveIn(m)
    BY <1>3
  <2>2. bucket(n) = B
    BY <1>4
  <2>3. PICK e \in B : LiveIn(n) = {Existing(x) : x \in Class(B, e)}
    BY <1>3, <2>2
  <2>4. Listed(B)
    BY ListedBucket
  <2> DEFINE j(x) == Position(x, B) \div PerManifest
  <2>5. j(d) # j(e)
    <3> SUFFICES ASSUME j(d) = j(e) PROVE FALSE
      OBVIOUS
    <3>1. Class(B, d) = Class(B, e)
      BY DEF Class
    <3>2. Existing(d) \in LiveIn(n)
      BY <2>1, <2>3, <3>1
    <3>3. SoundManifests(after, last)
      BY RepackedRows
    <3> QED
      BY <1>2, <1>4, <2>1, <3>2, <3>3 DEF SoundManifests
  <2>6. j(d) \in Int /\ j(e) \in Int
    BY <2>4, PositionOrder, ManifestsAssumption
  <2> HIDE DEF B
  <2>7. CASE j(d) < j(e)
    BY <2>1, <2>3, <2>4, <2>7, ChunkFills
  <2>8. CASE j(e) < j(d)
    BY <2>1, <2>3, <2>4, <2>8, ChunkFills
  <2> QED
    BY <2>5, <2>6, <2>7, <2>8
<1>5. \A m \in Undersized(after) : LiveIn(m) # {}
  BY <1>3
<1> QED
  BY <1>4, <1>5 DEF Settled

(* Two entries with a full manifest's worth between them are in different   *)
(* chunks.                                                                  *)
LEMMA ApartByManifest ==
    ASSUME NEW B, Listed(B), NEW m, NEW n, Fills(m, n), LiveIn(m) \subseteq B, LiveIn(n) \subseteq B,
           NEW d \in LiveIn(m), \A x \in LiveIn(m) : ~Before(x, d), NEW e \in LiveIn(n)
    PROVE  Position(d, B) \div PerManifest # Position(e, B) \div PerManifest
<1> DEFINE first(x) == {y \in B : Before(y, x)}
           i == Position(d, B)
           j == Position(e, B)
           size == Cardinality(LiveIn(m))
<1>1. \A x \in LiveIn(m) : Before(x, e)
  BY DEF Fills
<1>2. IsFiniteSet(first(d)) /\ IsFiniteSet(first(e)) /\ IsFiniteSet(LiveIn(m))
  BY FS_Subset DEF Listed
<1>3. first(d) \cap LiveIn(m) = {}
  OBVIOUS
<1>4. first(d) \cup LiveIn(m) \subseteq first(e)
  <2>1. \A y \in first(d) : Before(y, e)
    <3> SUFFICES ASSUME NEW y \in B, Before(y, d) PROVE Before(y, e)
      OBVIOUS
    <3>1. d \in B /\ e \in B /\ Before(d, e)
      BY <1>1
    <3> DEFINE a == Position(y, B)
    <3>2. a \in Nat /\ i \in Nat /\ j \in Nat /\ a < i /\ i < j
      BY <3>1, PositionOrder
    <3>3. Before(e, y) => j < a
      BY <3>1, PositionOrder
    <3>4. y # e => Before(y, e) \/ Before(e, y)
      BY <3>1, PositionOrder
    <3>5. y # e
      BY <3>2
    <3> HIDE DEF a, i, j
    <3> QED
      BY <3>2, <3>3, <3>4, <3>5
  <2> QED
    BY <1>1, <2>1
<1>5. i = Cardinality(first(d)) /\ j = Cardinality(first(e))
  BY DEF Position
<1> HIDE DEF first, i, j
<1>6. Cardinality(first(d) \cup LiveIn(m)) = Cardinality(first(d)) + size - Cardinality({})
  BY <1>2, <1>3, FS_Union
<1>7. Cardinality(first(d) \cup LiveIn(m)) <= Cardinality(first(e))
  BY <1>2, <1>4, FS_Subset
<1>8. Cardinality({}) = 0 /\ i \in Nat /\ j \in Nat /\ size \in Nat
  BY <1>2, <1>5, FS_EmptySet, FS_CardinalityType
<1>9. size >= PerManifest /\ PerManifest \in Nat \ {0}
  BY ManifestsAssumption DEF Fills
<1> HIDE DEF size
<1>10. i + PerManifest <= j
  BY <1>5, <1>6, <1>7, <1>8, <1>9
<1>11. i \div PerManifest # j \div PerManifest
  BY <1>8, <1>9, <1>10
<1> QED
  BY <1>11 DEF i, j

(* Packing a settled table leaves at least as many manifests as there were. *)
LEMMA NothingLeftToPack ==
    ASSUME NEW manifests, NEW last \in Nat, SoundManifests(manifests, last), Settled(manifests),
           NEW after \in Repacked(manifests)
    PROVE  ~WorthPacking(manifests, after)
<1> DEFINE U == Undersized(manifests)
           kept == manifests \ U
           bucket(m) == Bucket(manifests, <<m.spec, m.kind>>)
           head(m) == CHOOSE x \in LiveIn(m) : \A y \in LiveIn(m) : ~Before(y, x)
           draft(m) == DraftOf(manifests, <<m.spec, m.kind>>, head(m))
<1>1. PICK w \in Written(Packed(manifests)) : after = kept \cup w
  BY DEF Repacked
<1>2. PICK small \in [Packed(manifests) -> BOOLEAN] :
        w = {[spec |-> d.spec, kind |-> d.kind, small |-> small[d], entries |-> d.entries] : d \in Packed(manifests)}
  BY WrittenDrafts
<1> DEFINE M(d) == [spec |-> d.spec, kind |-> d.kind, small |-> small[d], entries |-> d.entries]
           f == [m \in U |-> M(draft(m))]
<1>3. ASSUME NEW m \in U
      PROVE  /\ Listed(bucket(m)) /\ LiveIn(m) \subseteq bucket(m) /\ LiveIn(m) # {}
             /\ <<m.spec, m.kind>> \in Buckets(manifests)
  <2>1. Listed(bucket(m))
    BY ListedBucket
  <2>2. LiveIn(m) \subseteq bucket(m)
    BY BucketEntries
  <2>3. <<m.spec, m.kind>> \in Buckets(manifests)
    BY DEF Buckets
  <2>4. LiveIn(m) # {}
    BY DEF Settled
  <2> QED
    BY <2>1, <2>2, <2>3, <2>4
<1>4. ASSUME NEW m \in U
      PROVE  head(m) \in LiveIn(m) /\ \A y \in LiveIn(m) : ~Before(y, head(m))
  <2> DEFINE B == bucket(m)
  <2>1. Listed(B) /\ LiveIn(m) \in SUBSET B /\ LiveIn(m) # {}
    BY <1>3
  <2> HIDE DEF B
  <2>2. PICK z \in LiveIn(m) : \A x \in LiveIn(m) : Position(z, B) <= Position(x, B)
    BY <2>1, Ends
  <2>3. \A y \in LiveIn(m) : ~Before(y, z)
    <3> SUFFICES ASSUME NEW y \in LiveIn(m), Before(y, z) PROVE FALSE
      OBVIOUS
    <3>1. Position(y, B) < Position(z, B) /\ Position(y, B) \in Nat
      BY <2>1, PositionOrder
    <3>2. Position(z, B) \in Nat /\ Position(z, B) <= Position(y, B)
      BY <2>1, <2>2, PositionOrder
    <3> QED
      BY <3>1, <3>2
  <2> QED
    BY <2>3
<1> HIDE DEF head
<1>5. ASSUME NEW m \in U
      PROVE  /\ draft(m) \in Packed(manifests) /\ draft(m).spec = m.spec /\ draft(m).kind = m.kind
             /\ draft(m).entries = {Existing(x) : x \in Class(bucket(m), head(m))}
  <2>1. head(m) \in bucket(m)
    BY <1>3, <1>4
  <2>2. draft(m) \in Packed(manifests)
    BY <1>3, <2>1, PackedDrafts
  <2> QED
    BY <2>2 DEF DraftOf, Draft
<1> HIDE DEF draft
<1>6. ASSUME NEW m \in U, NEW n \in U, m # n, f[m] = f[n] PROVE FALSE
  <2>1. m.spec = n.spec /\ m.kind = n.kind /\ draft(m).entries = draft(n).entries
    BY <1>5, <1>6
  <2> DEFINE B == bucket(m)
  <2>2. bucket(n) = B
    BY <2>1
  <2>3. Listed(B) /\ LiveIn(m) \subseteq B /\ LiveIn(n) \subseteq B
    BY <1>3, <2>2
  <2>4. head(m) \in B /\ head(n) \in B
    BY <1>4, <2>3
  <2>5. Position(head(m), B) \div PerManifest # Position(head(n), B) \div PerManifest
    <3> HIDE DEF B
    <3>1. Fills(m, n) \/ Fills(n, m)
      BY <1>6, <2>1 DEF Settled
    <3>2. CASE Fills(m, n)
      BY <1>4, <2>3, <3>2, ApartByManifest
    <3>3. CASE Fills(n, m)
      BY <1>4, <2>3, <3>3, ApartByManifest
    <3> QED
      BY <3>1, <3>2, <3>3
  <2>6. head(m) \in Class(B, head(m))
    BY <2>4 DEF Class
  <2>7. Existing(head(m)) \in {Existing(x) : x \in Class(B, head(n))}
    BY <1>5, <2>1, <2>2, <2>6
  <2>8. PICK x \in Class(B, head(n)) : Existing(head(m)) = Existing(x)
    BY <2>7
  <2>9. x \in B /\ Position(x, B) \div PerManifest = Position(head(n), B) \div PerManifest
    BY <2>8 DEF Class
  <2>10. x \in Entry /\ head(m) \in Entry
    BY <2>3, <2>4, <2>9 DEF Listed
  <2>11. x.file = head(m).file
    BY <2>8, <2>10, Carried
  <2>12. x = head(m)
    BY <2>3, <2>4, <2>9, <2>11 DEF Listed
  <2> QED
    BY <2>5, <2>9, <2>12
<1>7. IsFiniteSet(manifests) /\ IsFiniteSet(U) /\ IsFiniteSet(kept)
  BY FS_Subset DEF SoundManifests, Undersized
<1>8. IsFiniteSet(w)
  <2>1. SoundManifests(after, last)
    BY RepackedRows
  <2>2. w \subseteq after /\ IsFiniteSet(after)
    BY <1>1, <2>1 DEF SoundManifests
  <2> QED
    BY <2>2, FS_Subset
<1>9. Cardinality(U) <= Cardinality(w)
  <2>1. \A m \in U : f[m] \in w
    BY <1>2, <1>5
  <2> HIDE DEF f, U, M
  <2>2. f = [m \in U |-> f[m]]
    BY DEF f
  <2>3. f \in Injection(U, w)
    BY <1>6, <2>1, <2>2 DEF Injection, IsInjective
  <2> QED
    BY <1>8, <2>3, FS_Injection
<1>10. kept \cap w = {}
  <2> SUFFICES ASSUME NEW m \in kept, m \in w PROVE FALSE
    OBVIOUS
  <2>1. PICK d \in Packed(manifests) : m.spec = d.spec /\ m.kind = d.kind /\ m.entries = d.entries
    BY <1>2
  <2>2. PICK e \in bucket(m) : m.entries = {Existing(x) : x \in Class(bucket(m), e)}
    BY <2>1, DraftChunk
  <2>3. PICK u \in U : e \in LiveIn(u)
    BY BucketEntries
  <2>4. e \in Entry /\ e \in Class(bucket(m), e)
    BY FiniteBucket DEF Class
  <2>5. Existing(e) \in LiveIn(m) /\ Existing(e).file = e.file
    BY <2>2, <2>4, Carried DEF LiveIn
  <2>6. m = u
    BY <2>3, <2>5 DEF SoundManifests, Undersized
  <2> QED
    BY <2>6
<1>11. Cardinality(after) = Cardinality(kept) + Cardinality(w) - Cardinality({})
  <2> HIDE DEF kept
  <2> QED
    BY <1>1, <1>7, <1>8, <1>10, FS_Union
<1>12. Cardinality(manifests) = Cardinality(kept) + Cardinality(U) - Cardinality({})
  <2>1. kept \cup U = manifests /\ kept \cap U = {}
    BY DEF Undersized
  <2> HIDE DEF kept, U
  <2> QED
    BY <1>7, <2>1, FS_Union
<1>13. /\ Cardinality(kept) \in Nat /\ Cardinality(w) \in Nat /\ Cardinality(U) \in Nat
       /\ Cardinality({}) = 0
  BY <1>7, <1>8, FS_CardinalityType, FS_EmptySet
<1> HIDE DEF kept, U
<1> QED
  BY <1>9, <1>11, <1>12, <1>13 DEF WorthPacking

-----------------------------------------------------------------------------
(* What a producer asks for *)

Retention == {DefaultRetention, "configured", "altered"}
Totals == {NoTotals} \cup [dataFiles : Nat, deleteFiles : Nat]
Table == [format : Formats, version : Nat, seq : Nat, manifests : SUBSET Manifest, spec : Specs,
          retention : Retention, totals : Totals, by : {"foreground", "manifests", "files"}]
Request == [base : Nat, manifests : SUBSET Manifest, retention : Retention, totals : Totals,
            by : {"manifests", "files"}, seq : Nat]

TotalsOf(rows) ==
    [dataFiles |-> Cardinality({r \in rows : r.content = "data"}),
     deleteFiles |-> Cardinality({r \in rows : r.content = "deletes"})]

(* Data rows of one partition are exchanged for a newer one with their      *)
(* tuple, or for none if deletes hid them all, and deletes go that apply to *)
(* none that stays.                                                         *)
Exchanges(before, after) ==
    LET gone == before \ after
        new == after \ before
        data == {e \in gone : e.content = "data"}
    IN  /\ gone # {}
        /\ \A d, e \in data : d.spec = e.spec /\ d.tuple = e.tuple
        /\ \A n \in new : /\ \A l \in before : n.seq > l.seq /\ n.file # l.file
                          /\ n.content = "data" /\ \E e \in data : n.tuple = e.tuple
        /\ new = {} => \A e \in data : \E d \in before : d.content = "deletes" /\ Hides(d, e)
        /\ \A d \in gone, e \in before \ gone : d.content = "deletes" /\ e.content = "data" => ~ Hides(d, e)

(* What is not listed yet has a number of its own.                          *)
Numbers(before, after, number) == \A r \in after : r \in before \/ r.file = number

(* The request does to the manifests it was made from what it should.       *)
Faithful(manifests, request) ==
    \/ /\ request.by = "manifests" /\ request.totals = NoTotals
       /\ request.manifests \in Repacked(manifests) /\ WorthPacking(manifests, request.manifests)
       /\ LiveEntriesOf(request.manifests) = LiveEntriesOf(manifests)
    \/ /\ request.by = "files"
       /\ Exchanges(LiveEntriesOf(manifests), LiveEntriesOf(request.manifests))
       /\ Numbers(LiveEntriesOf(manifests), LiveEntriesOf(request.manifests), request.seq)
       /\ request.totals = TotalsOf(LiveEntriesOf(request.manifests))

Proposal(view, request) ==
    /\ request \in Request
    /\ request.base = view.version /\ request.seq = view.seq + 1
    /\ request.retention \in Retentions(view)
    /\ SoundManifests(request.manifests, request.seq)
    /\ Faithful(view.manifests, request)

LEMMA Numbered ==
    ASSUME NEW manifests, NEW last \in Nat, SoundManifests(manifests, last)
    PROVE  SoundManifests(manifests, last + 1)
<1>1. \A m \in manifests : \A e \in LiveIn(m) : e.file \in Nat /\ e.seq \in Nat /\ e.file <= last /\ e.seq <= last
  BY DEF SoundManifests, Manifest, LiveIn, Entry
<1>2. \A m \in manifests : \A e \in LiveIn(m) : e.file <= last + 1 /\ e.seq <= last + 1
  BY <1>1
<1> QED
  BY <1>2 DEF SoundManifests

LEMMA RetentionsTyped ==
    ASSUME NEW view \in Table
    PROVE  Retentions(view) \subseteq Retention
  BY DEF Retentions, Table, Retention

LEMMA PackedProposal ==
    ASSUME NEW view \in Table, SoundManifests(view.manifests, view.seq),
           NEW after \in Repacked(view.manifests), WorthPacking(view.manifests, after),
           NEW retention \in Retentions(view)
    PROVE  Proposal(view, Install(view, after, retention, NoTotals, "manifests"))
<1> DEFINE q == Install(view, after, retention, NoTotals, "manifests")
<1>1. view.seq \in Nat /\ view.version \in Nat
  BY DEF Table
<1>2. SoundManifests(after, view.seq) /\ LiveEntriesOf(after) = LiveEntriesOf(view.manifests)
  BY <1>1, RepackedRows
<1>3. SoundManifests(after, view.seq + 1)
  BY <1>1, <1>2, Numbered
<1>4. /\ q.base = view.version /\ q.manifests = after /\ q.retention = retention /\ q.totals = NoTotals
      /\ q.by = "manifests" /\ q.seq = view.seq + 1
  BY DEF Install
<1>5. q \in Request
  <2>1. after \in SUBSET Manifest
    BY <1>2 DEF SoundManifests
  <2>2. retention \in Retention /\ NoTotals \in Totals
    BY RetentionsTyped DEF Totals
  <2> QED
    BY <1>1, <2>1, <2>2 DEF Install, Request
<1> HIDE DEF q
<1>6. Proposal(view, q)
  BY <1>2, <1>3, <1>4, <1>5 DEF Proposal, Faithful
<1> QED
  BY <1>6 DEF q

(* The totals, counted before the commit, are those of the rows it leaves.  *)
LEMMA SwappedTotals ==
    ASSUME NEW rows, IsFiniteSet(rows), NEW removed, NEW new, IsFiniteSet(new),
           \A n \in new : n.content = "data" /\ \A r \in rows : n.file # r.file
    PROVE  /\ TotalsOf(Swapped(rows, removed, new)) =
                [dataFiles |-> Cardinality({r \in rows : r.file \notin removed /\ r.content = "data"})
                                  + Cardinality(new),
                 deleteFiles |-> Cardinality({r \in rows : r.file \notin removed /\ r.content = "deletes"})]
           /\ TotalsOf(Swapped(rows, removed, new)) \in Totals
<1> DEFINE data == {r \in rows : r.file \notin removed /\ r.content = "data"}
           deletes == {r \in rows : r.file \notin removed /\ r.content = "deletes"}
<1>1. {r \in Swapped(rows, removed, new) : r.content = "data"} = data \cup new
  BY DEF Swapped
<1>2. {r \in Swapped(rows, removed, new) : r.content = "deletes"} = deletes
  BY DEF Swapped
<1>3. data \cap new = {}
  OBVIOUS
<1>4. IsFiniteSet(data) /\ IsFiniteSet(deletes)
  BY FS_Subset
<1> HIDE DEF data, deletes
<1>5. Cardinality(data \cup new) = Cardinality(data) + Cardinality(new)
  <2>1. Cardinality(data \cup new) = Cardinality(data) + Cardinality(new) - Cardinality(data \cap new)
    BY <1>4, FS_Union
  <2>2. Cardinality(data \cap new) = 0
    BY <1>3, FS_EmptySet
  <2>3. Cardinality(data) \in Nat /\ Cardinality(new) \in Nat
    BY <1>4, FS_CardinalityType
  <2> QED
    BY <2>1, <2>2, <2>3
<1>6. Cardinality(data) + Cardinality(new) \in Nat /\ Cardinality(deletes) \in Nat
  BY <1>4, FS_CardinalityType
<1>7. TotalsOf(Swapped(rows, removed, new)) =
        [dataFiles |-> Cardinality(data) + Cardinality(new), deleteFiles |-> Cardinality(deletes)]
  BY <1>1, <1>2, <1>5 DEF TotalsOf
<1>8. [dataFiles |-> Cardinality(data) + Cardinality(new), deleteFiles |-> Cardinality(deletes)] \in Totals
  BY <1>6 DEF Totals
<1> QED
  BY <1>7, <1>8 DEF data, deletes

LEMMA RowsAreTyped ==
    ASSUME NEW manifests, NEW last \in Nat, SoundManifests(manifests, last)
    PROVE  \A r \in LiveEntriesOf(manifests) :
               /\ r.tuple \in Tuples /\ r.file \in Nat /\ r.seq \in Nat /\ r.file <= last /\ r.seq <= last
<1>1. \A m \in manifests : \A e \in LiveIn(m) :
        e.tuple \in Tuples /\ e.file \in Nat /\ e.seq \in Nat /\ e.file <= last /\ e.seq <= last
  BY DEF SoundManifests, Manifest, LiveIn, Entry
<1> SUFFICES ASSUME NEW r \in LiveEntriesOf(manifests)
             PROVE  /\ r.tuple \in Tuples /\ r.file \in Nat /\ r.seq \in Nat /\ r.file <= last /\ r.seq <= last
  OBVIOUS
<1>2. PICK m \in manifests : \E e \in LiveIn(m) : r = Row(m.spec, e)
  BY Rows
<1>3. PICK e \in LiveIn(m) : r = Row(m.spec, e)
  BY <1>2
<1>4. r.tuple = e.tuple /\ r.file = e.file /\ r.seq = e.seq
  BY <1>3 DEF Row
<1> QED
  BY <1>1, <1>4

(* The rows of these files.                                                 *)
Named(rows, files) == {r \in rows : r.file \in files}

(* What a producer asks for in exchange for some files of its view, if they *)
(* are data files of one partition, the added one has their tuple, none is  *)
(* added only if deletes hide them, and the delete files among them apply   *)
(* to no data file that stays.                                              *)
LEMMA ReplacedProposal ==
    ASSUME NEW view \in Table, SoundManifests(view.manifests, view.seq),
           NEW retention \in Retentions(view), NEW removed, NEW added, Additions(added, view.seq),
           NEW after \in WriteManifests(view, removed, added),
           NEW rows, rows = LiveEntriesOf(view.manifests), NEW old, old = Named(rows, removed),
           old # {},
           \A d, e \in old : d.content = "data" /\ e.content = "data" => d.spec = e.spec /\ d.tuple = e.tuple,
           \A x \in added : x.content = "data" /\ \E e \in old : e.content = "data" /\ x.tuple = e.tuple,
           added = {} => \A e \in old : e.content = "data" =>
                            \E d \in rows : d.content = "deletes" /\ Hides(d, e),
           \A d \in old, e \in rows \ old : d.content = "deletes" /\ e.content = "data" => ~ Hides(d, e)
    PROVE  Proposal(view, Install(view, after, retention, Summary(view, removed, added), "files"))
<1> DEFINE q == Install(view, after, retention, Summary(view, removed, added), "files")
           new == RowsOfAdded(view.spec, added)
<1>1. view.seq \in Nat /\ view.version \in Nat /\ view.spec \in Specs
  BY DEF Table
<1>2. \A r \in rows : /\ r.tuple \in Tuples /\ r.file \in Nat /\ r.seq \in Nat
                      /\ r.file <= view.seq /\ r.seq <= view.seq
  BY <1>1, RowsAreTyped
<1>3. SoundManifests(after, view.seq + 1) /\ LiveEntriesOf(after) = Swapped(rows, removed, new)
  BY <1>1, RewrittenRows
<1>4. \A n \in new : /\ n.file = view.seq + 1 /\ n.seq = view.seq + 1 /\ n.content = "data"
                     /\ \E e \in old : e.content = "data" /\ n.tuple = e.tuple
  BY DEF RowsOfAdded, Row, Additions, Fresh
<1>5. new = {} => added = {}
  BY DEF RowsOfAdded
<1>6. Cardinality(new) = Cardinality(added) /\ IsFiniteSet(new)
  <2>1. CASE added = {}
    <3>1. new = {}
      BY <2>1 DEF RowsOfAdded
    <3> QED
      BY <2>1, <3>1, FS_EmptySet
  <2>2. CASE added # {}
    <3>1. PICK x : added = {x}
      BY <2>2 DEF Additions
    <3>2. new = {Row(view.spec, x)}
      BY <3>1 DEF RowsOfAdded
    <3> HIDE DEF new
    <3>3. Cardinality({x}) = 1 /\ Cardinality({Row(view.spec, x)}) = 1 /\ IsFiniteSet({Row(view.spec, x)})
      BY FS_Singleton
    <3> QED
      BY <3>1, <3>2, <3>3
  <2> QED
    BY <2>1, <2>2
<1> HIDE DEF new
<1>7. \A n \in new : \A r \in rows : n.seq > r.seq /\ n.file # r.file
  BY <1>1, <1>2, <1>4
<1>8. /\ rows \ LiveEntriesOf(after) = old
      /\ LiveEntriesOf(after) \ rows = new
  BY <1>3, <1>7 DEF Swapped, Named
<1>9. Exchanges(rows, LiveEntriesOf(after))
  <2>1. new = {} => \A e \in old : e.content = "data" => \E d \in rows : d.content = "deletes" /\ Hides(d, e)
    BY <1>5
  <2> QED
    BY <1>4, <1>7, <1>8, <2>1 DEF Exchanges
<1>10. Numbers(rows, LiveEntriesOf(after), view.seq + 1)
  BY <1>4, <1>8 DEF Numbers
<1>11. /\ Summary(view, removed, added) = TotalsOf(LiveEntriesOf(after))
       /\ Summary(view, removed, added) \in Totals
  <2>1. IsFiniteSet(rows)
    BY <1>1, FiniteRows
  <2>3. Summary(view, removed, added) =
          [dataFiles |-> Cardinality({r \in rows : r.file \notin removed /\ r.content = "data"}) + Cardinality(added),
           deleteFiles |-> Cardinality({r \in rows : r.file \notin removed /\ r.content = "deletes"})]
    BY DEF Summary, Surviving
  <2>4. \A n \in new : n.content = "data" /\ \A r \in rows : n.file # r.file
    BY <1>4, <1>7
  <2> QED
    BY <1>3, <1>6, <2>1, <2>3, <2>4, SwappedTotals
<1>12. /\ q.base = view.version /\ q.manifests = after /\ q.retention = retention
       /\ q.totals = Summary(view, removed, added) /\ q.by = "files" /\ q.seq = view.seq + 1
  BY DEF Install
<1>13. q \in Request
  <2>1. after \in SUBSET Manifest
    BY <1>3 DEF SoundManifests
  <2>2. retention \in Retention
    BY RetentionsTyped
  <2> QED
    BY <1>1, <1>11, <2>1, <2>2 DEF Install, Request
<1> HIDE DEF q
<1>14. Proposal(view, q)
  BY <1>3, <1>9, <1>10, <1>11, <1>12, <1>13 DEF Proposal, Faithful
<1> QED
  BY <1>14 DEF q

(* The rows of the files of some rows are those rows.                       *)
LEMMA NamedRows ==
    ASSUME NEW manifests, NEW last, SoundManifests(manifests, last), NEW g \in SUBSET LiveEntriesOf(manifests)
    PROVE  Named(LiveEntriesOf(manifests), {e.file : e \in g}) = g
<1>1. ASSUME NEW r \in LiveEntriesOf(manifests), r.file \in {e.file : e \in g} PROVE r \in g
  <2>1. PICK e \in g : e.file = r.file
    BY <1>1
  <2> QED
    BY <2>1, RowsAreDistinct
<1> QED
  BY <1>1 DEF Named

(* What a rewrite of a group's files asks for.                              *)
LEMMA GroupProposal ==
    ASSUME NEW view \in Table, SoundManifests(view.manifests, view.seq), NEW wanted,
           NEW group, group = Selected(view, wanted), group # {},
           \A d, e \in group : d.spec = e.spec /\ d.tuple = e.tuple,
           NEW retention \in Retentions(view), NEW added \in Outputs(view, group),
           NEW removed, removed = {e.file : e \in group \cup Retired(view, group)},
           NEW after \in WriteManifests(view, removed, added)
    PROVE  Proposal(view, Install(view, after, retention, Summary(view, removed, added), "files"))
<1> DEFINE rows == LiveEntriesOf(view.manifests)
           old == group \cup Retired(view, group)
<1>1. /\ \A e \in group : e \in rows /\ e.content = "data"
      /\ \A d \in Retired(view, group) : /\ d \in rows /\ d.content = "deletes"
                                         /\ \A e \in Data(view) \ group : ~ Hides(d, e)
      /\ \A e \in rows : e.content = "data" => e \in Data(view)
      /\ \A d \in Deletes(view) : d \in rows /\ d.content = "deletes"
  BY DEF Selected, Data, Deletes, Retired
<1>2. PICK first \in group : first = CHOOSE e \in group : TRUE
  OBVIOUS
<1>3. view.seq \in Nat
  BY DEF Table
<1>4. first.tuple \in Tuples
  BY <1>1, <1>3, RowsAreTyped
<1> DEFINE x == [file |-> view.seq + 1, content |-> "data", tuple |-> first.tuple,
                 seq |-> view.seq + 1, status |-> "added"]
<1>5. Fresh(x, view.seq) /\ x.content = "data" /\ x.tuple = first.tuple
  BY <1>3, <1>4 DEF Fresh, Entry, Contents
<1>6. /\ added \in {{}, {x}}
      /\ added = {} => \A e \in group : \E d \in Deletes(view) : Hides(d, e)
  BY <1>2 DEF Outputs
<1> HIDE DEF x
<1>7. Additions(added, view.seq) /\ \A y \in added : y.content = "data" /\ y.tuple = first.tuple
  BY <1>5, <1>6 DEF Additions
<1>8. Named(rows, removed) = old
  <2>1. old \in SUBSET rows /\ removed = {e.file : e \in old}
    BY <1>1
  <2> HIDE DEF old
  <2> QED
    BY <2>1, NamedRows
<1>9. /\ old # {} /\ first \in old /\ first.content = "data"
      /\ \A d, e \in old : d.content = "data" /\ e.content = "data" => d.spec = e.spec /\ d.tuple = e.tuple
  BY <1>1
<1>10. added = {} => \A e \in old : e.content = "data" => \E d \in rows : d.content = "deletes" /\ Hides(d, e)
  BY <1>1, <1>6
<1>11. \A d \in old, e \in rows \ old : d.content = "deletes" /\ e.content = "data" => ~ Hides(d, e)
  BY <1>1
<1>12. \A y \in added : y.content = "data" /\ \E e \in old : e.content = "data" /\ y.tuple = e.tuple
  BY <1>7, <1>9
<1> HIDE DEF old
<1> QED
  BY <1>7, <1>8, <1>9, <1>10, <1>11, <1>12, ReplacedProposal

(* What the pass over dangling deletes asks for.                            *)
LEMMA DanglingProposal ==
    ASSUME NEW view \in Table, SoundManifests(view.manifests, view.seq), Dangling(view) # {},
           NEW retention \in Retentions(view),
           NEW removed, removed = {d.file : d \in Dangling(view)},
           NEW after \in WriteManifests(view, removed, {})
    PROVE  Proposal(view, Install(view, after, retention, Summary(view, removed, {}), "files"))
<1> DEFINE rows == LiveEntriesOf(view.manifests)
           old == Dangling(view)
<1>1. /\ \A d \in old : /\ d \in rows /\ d.content = "deletes"
                        /\ \A e \in rows : e.content = "data" => ~ Hides(d, e)
  BY DEF Dangling, Data, Deletes
<1>2. Named(rows, removed) = old
  BY <1>1, NamedRows
<1>3. Additions({}, view.seq)
  BY DEF Additions
<1> HIDE DEF old
<1>4. old # {}
  BY DEF old
<1>5. \A d \in old : d.content # "data"
  BY <1>1
<1> QED
  BY <1>1, <1>2, <1>3, <1>4, <1>5, ReplacedProposal

-----------------------------------------------------------------------------
(* The inductive invariant *)

Run == [pc : {"idle", "loaded", "sent", "backoff"}, op : {"none", "manifests", "files", "dangling"}, id : Nat,
        view : {NoView} \cup Table, wanted : SUBSET Nat, attempt : Nat]

TypeOK ==
    /\ table \in Table
    /\ run \in [Replicas -> Run]
    /\ inflight \subseteq [from : Replicas, id : Nat, request : Request]
    /\ counts \in [edits : Nat, runs : Nat]

(* What a run has loaded is a table the catalog held, and the present one   *)
(* if the version is still the same: its spec and its retention may have    *)
(* changed since, its manifests have not.                                   *)
ViewsOK ==
    \A p \in Replicas : run[p].pc = "loaded" =>
        /\ run[p].view \in Table
        /\ SoundManifests(run[p].view.manifests, run[p].view.seq)
        /\ run[p].view.version <= table.version
        /\ run[p].view.version = table.version =>
               run[p].view.manifests = table.manifests /\ run[p].view.seq = table.seq

(* A request the catalog would still accept was made from the manifests it  *)
(* replaces.                                                                *)
RequestsOK ==
    \A r \in inflight :
        /\ SoundManifests(r.request.manifests, r.request.seq)
        /\ r.request.base <= table.version
        /\ Applies(r.request) => r.request.seq = table.seq + 1 /\ Faithful(table.manifests, r.request)

TableOK ==
    /\ SoundManifests(table.manifests, table.seq)
    /\ table.totals # NoTotals => table.totals = TotalsOf(LiveEntriesOf(table.manifests))
    /\ table.by = "manifests" => Settled(table.manifests)

(* The files of a group were of one partition as it was planned, and what   *)
(* has come since has numbers above theirs: whatever is left of a group, in *)
(* the table or in a view, is of one partition still.                       *)
Alike(manifests, wanted) ==
    \A x, y \in LiveEntriesOf(manifests) : x.file \in wanted /\ y.file \in wanted => x.tuple = y.tuple

GroupsOK ==
    \A p \in Replicas :
        /\ \A f \in run[p].wanted : f <= table.seq
        /\ Alike(table.manifests, run[p].wanted)
        /\ run[p].pc = "loaded" => Alike(run[p].view.manifests, run[p].wanted)

Inv == TypeOK /\ TableOK /\ ViewsOK /\ RequestsOK /\ GroupsOK

LEMMA InitInv == Init => Inv
<1> SUFFICES ASSUME Init PROVE Inv
  OBVIOUS
<1>1. SeedSeq \in Nat /\ SoundManifests(SeedManifests, SeedSeq) /\ FirstSpec \in Specs
  BY SeedAssumption, ManifestsAssumption
<1>2. PICK f \in Formats :
        table = [format |-> f, version |-> 0, seq |-> SeedSeq, manifests |-> SeedManifests, spec |-> FirstSpec,
                 retention |-> "configured", totals |-> NoTotals, by |-> "foreground"]
  BY DEF Init
<1>3. table \in Table
  <2>1. SeedManifests \in SUBSET Manifest
    BY <1>1 DEF SoundManifests
  <2>2. "configured" \in Retention /\ NoTotals \in Totals
    BY DEF Retention, Totals
  <2> QED
    BY <1>1, <1>2, <2>1, <2>2 DEF Table
<1>4. /\ table.manifests = SeedManifests /\ table.seq = SeedSeq /\ table.totals = NoTotals
      /\ table.by = "foreground"
  BY <1>2
<1>5. Idle \in Run /\ Idle.pc = "idle" /\ Idle.wanted = {}
  BY DEF Idle, Run
<1>6. run = [p \in Replicas |-> Idle] /\ inflight = {} /\ counts = [edits |-> 0, runs |-> 0]
  BY DEF Init
<1>7. TypeOK
  BY <1>3, <1>5, <1>6 DEF TypeOK
<1>8. TableOK
  BY <1>1, <1>4 DEF TableOK
<1>9. ViewsOK /\ RequestsOK
  BY <1>5, <1>6 DEF ViewsOK, RequestsOK
<1>10. GroupsOK
  BY <1>5, <1>6 DEF GroupsOK, Alike
<1> QED
  BY <1>7, <1>8, <1>9, <1>10 DEF Inv

(* Ending a run touches nothing else.                                       *)
LEMMA DoneKeeps ==
    ASSUME Inv, NEW p \in Replicas, Done(p)
    PROVE  /\ run' \in [Replicas -> Run]
           /\ \A q \in Replicas : run'[q].pc = "loaded" => run'[q] = run[q]
           /\ \A q \in Replicas : run'[q].wanted \in {run[q].wanted, {}}
<1>1. Idle \in Run /\ Idle.pc = "idle" /\ Idle.wanted = {}
  BY DEF Idle, Run
<1> QED
  BY <1>1 DEF Inv, TypeOK, Done

(* A group that is planned is of one partition.                             *)
LEMMA PlannedAlike ==
    ASSUME Inv, NEW wanted \in {{}} \cup Groups(table)
    PROVE  /\ wanted \in SUBSET Nat /\ \A f \in wanted : f <= table.seq
           /\ Alike(table.manifests, wanted)
<1>1. table.seq \in Nat /\ SoundManifests(table.manifests, table.seq)
  BY DEF Inv, TypeOK, TableOK, Table
<1>2. CASE wanted = {}
  BY <1>2 DEF Alike
<1>3. CASE wanted \in Groups(table)
  <2>1. PICK g \in SUBSET LiveEntriesOf(table.manifests) :
          wanted = {e.file : e \in g} /\ \A d, e \in g : d.tuple = e.tuple
    BY <1>3 DEF Groups, Data
  <2>2. \A e \in g : e.file \in Nat /\ e.file <= table.seq
    BY <1>1, RowsAreTyped
  <2>3. \A r \in LiveEntriesOf(table.manifests) : r.file \in wanted => r \in g
    BY <1>1, <2>1, NamedRows DEF Named
  <2> QED
    BY <2>1, <2>2, <2>3 DEF Alike
<1> QED
  BY <1>2, <1>3

(* Steps of a run that leave the table and send nothing.                    *)
LEMMA RunKeeps ==
    ASSUME Inv, run' \in [Replicas -> Run], UNCHANGED table,
           inflight' \subseteq inflight, counts' \in [edits : Nat, runs : Nat],
           \A q \in Replicas : run'[q].pc = "loaded" => run'[q] = run[q] \/ run'[q].view = table,
           \A q \in Replicas : run'[q].wanted = run[q].wanted \/ run'[q].wanted \in {{}} \cup Groups(table)
    PROVE  Inv'
<1>1. TypeOK'
  BY DEF Inv, TypeOK
<1>2. TableOK'
  BY DEF Inv, TableOK
<1>3. ViewsOK'
  <2> SUFFICES ASSUME NEW q \in Replicas, run'[q].pc = "loaded"
               PROVE  /\ run'[q].view \in Table
                      /\ SoundManifests(run'[q].view.manifests, run'[q].view.seq)
                      /\ run'[q].view.version <= table.version
                      /\ run'[q].view.version = table.version =>
                           run'[q].view.manifests = table.manifests /\ run'[q].view.seq = table.seq
    BY DEF ViewsOK
  <2>1. CASE run'[q] = run[q]
    BY <2>1 DEF Inv, ViewsOK
  <2>2. CASE run'[q].view = table
    <3>1. table.version \in Nat
      BY DEF Inv, TypeOK, Table
    <3> QED
      BY <2>2, <3>1 DEF Inv, TypeOK, TableOK
  <2> QED
    BY <2>1, <2>2
<1>4. RequestsOK'
  BY DEF Inv, RequestsOK, Applies
<1>5. GroupsOK'
  <2> SUFFICES ASSUME NEW q \in Replicas
               PROVE  /\ \A f \in run'[q].wanted : f <= table.seq
                      /\ Alike(table.manifests, run'[q].wanted)
                      /\ run'[q].pc = "loaded" => Alike(run'[q].view.manifests, run'[q].wanted)
    BY DEF GroupsOK, Alike
  <2>1. /\ \A f \in run'[q].wanted : f <= table.seq
        /\ Alike(table.manifests, run'[q].wanted)
    BY PlannedAlike DEF Inv, GroupsOK
  <2>2. CASE run'[q] = run[q]
    BY <2>1, <2>2 DEF Inv, GroupsOK
  <2> QED
    BY <2>1, <2>2
<1> QED
  BY <1>1, <1>2, <1>3, <1>4, <1>5 DEF Inv

LEMMA BeginKeeps ==
    ASSUME Inv, NEW p \in Replicas, Begin(p)
    PROVE  Inv'
<1>1. PICK op \in {"manifests", "files", "dangling"}, wanted \in {{}} \cup Groups(table) :
        run' = [run EXCEPT ![p] = [pc |-> "loaded", op |-> op, id |-> counts.runs + 1, view |-> table,
                                   wanted |-> wanted, attempt |-> 0]]
  BY DEF Begin
<1> DEFINE begun == [pc |-> "loaded", op |-> op, id |-> counts.runs + 1, view |-> table,
                     wanted |-> wanted, attempt |-> 0]
<1>2. begun \in Run /\ begun.view = table /\ begun.wanted = wanted
  BY PlannedAlike DEF Run, Inv, TypeOK
<1>3. counts' \in [edits : Nat, runs : Nat]
  BY DEF Begin, Inv, TypeOK
<1>4. run' = [run EXCEPT ![p] = begun]
  BY <1>1
<1> HIDE DEF begun
<1>5. /\ run' \in [Replicas -> Run]
      /\ \A q \in Replicas : run'[q].pc = "loaded" => run'[q] = run[q] \/ run'[q].view = table
      /\ \A q \in Replicas : run'[q].wanted = run[q].wanted \/ run'[q].wanted \in {{}} \cup Groups(table)
  BY <1>2, <1>4 DEF Inv, TypeOK
<1>6. UNCHANGED table /\ inflight' \subseteq inflight
  BY DEF Begin
<1> QED
  BY <1>3, <1>5, <1>6, RunKeeps

LEMMA ReloadKeeps ==
    ASSUME Inv, NEW p \in Replicas, Reload(p)
    PROVE  Inv'
<1>1. run' = [run EXCEPT ![p].pc = "loaded", ![p].view = table]
  BY DEF Reload
<1> DEFINE loaded == [run[p] EXCEPT !.pc = "loaded", !.view = table]
<1>2. run' = [run EXCEPT ![p] = loaded]
  BY <1>1 DEF Inv, TypeOK
<1>3. loaded \in Run /\ loaded.view = table /\ loaded.wanted = run[p].wanted
  <2>1. run[p] \in Run /\ table \in Table
    BY DEF Inv, TypeOK
  <2> QED
    BY <2>1 DEF Run
<1> HIDE DEF loaded
<1>4. /\ run' \in [Replicas -> Run]
      /\ \A q \in Replicas : run'[q].pc = "loaded" => run'[q] = run[q] \/ run'[q].view = table
      /\ \A q \in Replicas : run'[q].wanted = run[q].wanted
  BY <1>2, <1>3 DEF Inv, TypeOK
<1>5. /\ UNCHANGED table /\ inflight' \subseteq inflight /\ counts' \in [edits : Nat, runs : Nat]
  BY DEF Reload, Inv, TypeOK
<1> QED
  BY <1>4, <1>5, RunKeeps

LEMMA EndKeeps ==
    ASSUME Inv, NEW p \in Replicas, Refuse(p) \/ NothingToPack(p) \/ Drop(p)
    PROVE  Inv'
<1>1. Done(p) /\ UNCHANGED <<table, inflight, counts>>
  BY DEF Refuse, NothingToPack, Drop
<1>2. /\ run' \in [Replicas -> Run]
      /\ \A q \in Replicas : run'[q].pc = "loaded" => run'[q] = run[q]
      /\ \A q \in Replicas : run'[q].wanted \in {run[q].wanted, {}}
  BY <1>1, DoneKeeps
<1>3. counts' \in [edits : Nat, runs : Nat] /\ inflight' \subseteq inflight /\ UNCHANGED table
  BY <1>1 DEF Inv, TypeOK
<1> QED
  BY <1>2, <1>3, RunKeeps

(* What a run sends is a proposal for the view it loaded.                   *)
LEMMA SendKeeps ==
    ASSUME Inv, NEW p \in Replicas, run[p].pc = "loaded", NEW request, Proposal(run[p].view, request),
           Send(p, request)
    PROVE  Inv'
<1> DEFINE sent == [run[p] EXCEPT !.pc = "sent", !.view = NoView]
           r0 == [from |-> p, id |-> run[p].id, request |-> request]
<1>1. run' = [run EXCEPT ![p] = sent]
  BY DEF Send, Inv, TypeOK
<1>2. run[p] \in Run
  BY DEF Inv, TypeOK
<1>3. sent \in Run /\ sent.pc = "sent" /\ sent.wanted = run[p].wanted
  BY <1>2 DEF Run
<1>4. /\ r0 \in [from : Replicas, id : Nat, request : Request]
      /\ r0.request = request
  BY <1>2 DEF Run, Proposal
<1>5. inflight' = inflight \cup {r0} /\ UNCHANGED <<table, counts>>
  BY DEF Send
<1> HIDE DEF sent, r0
<1>6. TypeOK'
  BY <1>1, <1>3, <1>4, <1>5 DEF Inv, TypeOK
<1>7. TableOK'
  BY <1>5 DEF Inv, TableOK
<1>8. \A q \in Replicas : run'[q].pc = "loaded" => run'[q] = run[q]
  BY <1>1, <1>3 DEF Inv, TypeOK
<1>9. ViewsOK'
  BY <1>5, <1>8 DEF Inv, ViewsOK
<1>10. RequestsOK'
  <2> SUFFICES ASSUME NEW r \in inflight'
               PROVE  /\ SoundManifests(r.request.manifests, r.request.seq)
                      /\ r.request.base <= table.version
                      /\ r.request.base = table.version =>
                            r.request.seq = table.seq + 1 /\ Faithful(table.manifests, r.request)
    BY <1>5 DEF RequestsOK, Applies
  <2>1. CASE r \in inflight
    BY <2>1 DEF Inv, RequestsOK, Applies
  <2>2. CASE r = r0
    <3>1. /\ request.base = run[p].view.version /\ request.seq = run[p].view.seq + 1
          /\ SoundManifests(request.manifests, request.seq)
          /\ Faithful(run[p].view.manifests, request)
      BY DEF Proposal
    <3>2. /\ run[p].view.version <= table.version
          /\ run[p].view.version = table.version =>
               run[p].view.manifests = table.manifests /\ run[p].view.seq = table.seq
      BY DEF Inv, ViewsOK
    <3> QED
      BY <1>4, <2>2, <3>1, <3>2
  <2> QED
    BY <1>5, <2>1, <2>2
<1>11. GroupsOK'
  <2>1. \A q \in Replicas : run'[q].wanted = run[q].wanted
    BY <1>1, <1>3 DEF Inv, TypeOK
  <2> QED
    BY <1>5, <1>8, <2>1 DEF Inv, GroupsOK, Alike
<1> QED
  BY <1>6, <1>7, <1>9, <1>10, <1>11 DEF Inv

LEMMA RewriteSends ==
    ASSUME Inv, NEW p \in Replicas, RewriteManifests(p) \/ RewriteFiles(p) \/ DropDangling(p)
    PROVE  /\ run[p].pc = "loaded"
           /\ \E request : Proposal(run[p].view, request) /\ Send(p, request)
<1> DEFINE view == run[p].view
<1>1. run[p].pc = "loaded"
  BY DEF RewriteManifests, RewriteFiles, DropDangling
<1>2. view \in Table /\ SoundManifests(view.manifests, view.seq)
  BY <1>1 DEF Inv, ViewsOK
<1>3. CASE RewriteManifests(p)
  <2>1. PICK after \in Repacked(view.manifests), retention \in Retentions(view) :
          /\ WorthPacking(view.manifests, after)
          /\ Send(p, Install(view, after, retention, NoTotals, "manifests"))
    BY <1>3 DEF RewriteManifests
  <2>2. Proposal(view, Install(view, after, retention, NoTotals, "manifests"))
    BY <1>2, <2>1, PackedProposal
  <2> QED
    BY <1>1, <2>1, <2>2
<1>4. CASE RewriteFiles(p)
  <2> DEFINE group == Selected(view, run[p].wanted)
             removed == {e.file : e \in group \cup Retired(view, group)}
  <2>1. PICK added \in Outputs(view, group) : Replace(p, removed, added)
    BY <1>4 DEF RewriteFiles
  <2>2. group # {} /\ \A d, e \in group : d.spec = e.spec
    BY <1>4 DEF RewriteFiles
  <2>3. \A d, e \in group : d.tuple = e.tuple
    <3>1. \A e \in group : e \in LiveEntriesOf(view.manifests) /\ e.file \in run[p].wanted
      BY DEF Selected, Data
    <3> HIDE DEF group
    <3> QED
      BY <1>1, <3>1 DEF Inv, GroupsOK, Alike
  <2>4. PICK after \in WriteManifests(view, removed, added), retention \in Retentions(view) :
          Send(p, Install(view, after, retention, Summary(view, removed, added), "files"))
    BY <2>1 DEF Replace
  <2>5. Proposal(view, Install(view, after, retention, Summary(view, removed, added), "files"))
    BY <1>2, <2>2, <2>3, GroupProposal
  <2> QED
    BY <1>1, <2>4, <2>5
<1>5. CASE DropDangling(p)
  <2> DEFINE removed == {d.file : d \in Dangling(view)}
  <2>1. Dangling(view) # {} /\ Replace(p, removed, {})
    BY <1>5 DEF DropDangling
  <2>2. PICK after \in WriteManifests(view, removed, {}), retention \in Retentions(view) :
          Send(p, Install(view, after, retention, Summary(view, removed, {}), "files"))
    BY <2>1 DEF Replace
  <2>3. Proposal(view, Install(view, after, retention, Summary(view, removed, {}), "files"))
    BY <1>2, <2>1, DanglingProposal
  <2> QED
    BY <1>1, <2>2, <2>3
<1> QED
  BY <1>3, <1>4, <1>5

(* A new version leaves every request in flight, and every view, behind.    *)
LEMMA NewVersion ==
    ASSUME Inv, table' \in Table, TableOK', table'.version = table.version + 1, table'.seq = table.seq + 1,
           Numbers(LiveEntriesOf(table.manifests), LiveEntriesOf(table'.manifests), table.seq + 1),
           run' \in [Replicas -> Run], inflight' \subseteq inflight, counts' \in [edits : Nat, runs : Nat],
           \A q \in Replicas : run'[q].pc = "loaded" => run'[q] = run[q],
           \A q \in Replicas : run'[q].wanted \in {run[q].wanted, {}}
    PROVE  Inv'
<1>1. TypeOK'
  BY DEF Inv, TypeOK
<1>2. table.version \in Nat
  BY DEF Inv, TypeOK, Table
<1>3. ViewsOK'
  <2> SUFFICES ASSUME NEW q \in Replicas, run'[q].pc = "loaded"
               PROVE  /\ run'[q].view \in Table
                      /\ SoundManifests(run'[q].view.manifests, run'[q].view.seq)
                      /\ run'[q].view.version <= table'.version
                      /\ run'[q].view.version # table'.version
    BY DEF ViewsOK
  <2>1. /\ run[q].view \in Table /\ run[q].view.version <= table.version
        /\ SoundManifests(run[q].view.manifests, run[q].view.seq)
    BY DEF Inv, ViewsOK
  <2>2. run[q].view.version \in Nat
    BY <2>1 DEF Table
  <2> QED
    BY <1>2, <2>1, <2>2
<1>4. RequestsOK'
  <2> SUFFICES ASSUME NEW r \in inflight
               PROVE  /\ SoundManifests(r.request.manifests, r.request.seq)
                      /\ r.request.base <= table'.version
                      /\ r.request.base # table'.version
    BY DEF RequestsOK, Applies
  <2>1. r.request.base <= table.version /\ SoundManifests(r.request.manifests, r.request.seq)
    BY DEF Inv, RequestsOK
  <2>2. r.request.base \in Nat
    BY DEF Inv, TypeOK, Request
  <2> QED
    BY <1>2, <2>1, <2>2
<1>5. GroupsOK'
  <2> SUFFICES ASSUME NEW q \in Replicas
               PROVE  /\ \A f \in run'[q].wanted : f <= table'.seq
                      /\ Alike(table'.manifests, run'[q].wanted)
                      /\ run'[q].pc = "loaded" => Alike(run'[q].view.manifests, run'[q].wanted)
    BY DEF GroupsOK, Alike
  <2>1. /\ \A f \in run[q].wanted : f \in Nat /\ f <= table.seq
        /\ Alike(table.manifests, run[q].wanted)
        /\ table.seq \in Nat
    BY DEF Inv, GroupsOK, TypeOK, Run, Table
  <2>2. \A f \in run'[q].wanted : f \in run[q].wanted
    OBVIOUS
  <2>3. \A f \in run'[q].wanted : f <= table'.seq /\ f # table.seq + 1
    BY <2>1, <2>2
  <2>4. \A x \in LiveEntriesOf(table'.manifests) :
          x.file \in run'[q].wanted => x \in LiveEntriesOf(table.manifests)
    BY <2>3 DEF Numbers
  <2>5. Alike(table'.manifests, run'[q].wanted)
    BY <2>1, <2>2, <2>4 DEF Alike
  <2>6. run'[q].pc = "loaded" => Alike(run'[q].view.manifests, run'[q].wanted)
    BY DEF Inv, GroupsOK
  <2> QED
    BY <2>3, <2>5, <2>6
<1> QED
  BY <1>1, <1>3, <1>4, <1>5 DEF Inv

(* A commit replaces fields of the table, and counts its version.           *)
Moved(t, manifests, retention, totals, by) ==
    [t EXCEPT !.version = @ + 1, !.seq = @ + 1, !.manifests = manifests,
        !.retention = retention, !.totals = totals, !.by = by]

LEMMA Replaced ==
    ASSUME NEW t \in Table, NEW manifests \in SUBSET Manifest, NEW retention \in Retention, NEW totals \in Totals,
           NEW by \in {"foreground", "manifests", "files"}
    PROVE  LET u == Moved(t, manifests, retention, totals, by)
           IN  /\ u \in Table
               /\ u.version = t.version + 1 /\ u.seq = t.seq + 1 /\ u.manifests = manifests
               /\ u.retention = retention /\ u.totals = totals /\ u.by = by
<1> DEFINE u == Moved(t, manifests, retention, totals, by)
           version == t.version + 1
           seq == t.seq + 1
<1>1. version \in Nat /\ seq \in Nat
  BY DEF Table
<1>2. u = [t EXCEPT !.version = version, !.seq = seq, !.manifests = manifests,
               !.retention = retention, !.totals = totals, !.by = by]
  BY DEF Moved
<1> HIDE DEF version, seq, u
<1>3. /\ u \in Table
      /\ u.version = version /\ u.seq = seq /\ u.manifests = manifests
      /\ u.retention = retention /\ u.totals = totals /\ u.by = by
  BY <1>1, <1>2 DEF Table
<1> QED
  BY <1>3 DEF version, seq, u

LEMMA Waiting ==
    ASSUME NEW r \in Run, NEW w, w = [r EXCEPT !.pc = "backoff", !.attempt = @ + 1]
    PROVE  w \in Run /\ w.pc = "backoff" /\ w.wanted = r.wanted
<1> DEFINE attempt == r.attempt + 1
<1>1. attempt \in Nat
  BY DEF Run
<1>2. w = [r EXCEPT !.pc = "backoff", !.attempt = attempt]
  OBVIOUS
<1> HIDE DEF attempt
<1> QED
  BY <1>1, <1>2 DEF Run

(* What an accepted commit makes of the table.                              *)
LEMMA CommitInstalls ==
    ASSUME Inv, NEW r \in inflight, Commit(r)
    PROVE  /\ table' \in Table /\ TableOK'
           /\ table'.version = table.version + 1 /\ table'.seq = table.seq + 1
           /\ table'.manifests = r.request.manifests
           /\ Numbers(LiveEntriesOf(table.manifests), LiveEntriesOf(table'.manifests), table.seq + 1)
           /\ table'.retention = r.request.retention /\ table'.by = r.request.by
           /\ Faithful(table.manifests, r.request)
           /\ UNCHANGED counts
<1> DEFINE q == r.request
<1>1. q \in Request /\ table \in Table
  BY DEF Inv, TypeOK
<1>2. Applies(q)
  BY DEF Commit
<1>3. q.seq = table.seq + 1 /\ Faithful(table.manifests, q) /\ SoundManifests(q.manifests, q.seq)
  BY <1>2 DEF Inv, RequestsOK
<1>4. table' = Moved(table, q.manifests, q.retention, q.totals, q.by)
  BY DEF Commit, Moved
<1> HIDE DEF q
<1>5. q.manifests \in SUBSET Manifest /\ q.retention \in Retention /\ q.totals \in Totals
      /\ q.by \in {"foreground", "manifests", "files"}
  BY <1>1 DEF Request
<1>6. /\ table' \in Table
      /\ table'.version = table.version + 1 /\ table'.seq = table.seq + 1 /\ table'.manifests = q.manifests
      /\ table'.retention = q.retention /\ table'.totals = q.totals /\ table'.by = q.by
  BY <1>1, <1>4, <1>5, Replaced
<1>7. TableOK'
  <2>1. q.by = "manifests" => Settled(q.manifests)
    <3>1. table.seq \in Nat /\ SoundManifests(table.manifests, table.seq)
      BY DEF Inv, TypeOK, TableOK, Table
    <3> QED
      BY <1>3, <3>1, PackingSettled DEF Faithful
  <2> QED
    BY <1>3, <1>6, <2>1 DEF TableOK, Faithful
<1>8. UNCHANGED counts
  BY DEF Commit
<1>9. Numbers(LiveEntriesOf(table.manifests), LiveEntriesOf(q.manifests), table.seq + 1)
  BY <1>3 DEF Faithful, Numbers
<1>10. Numbers(LiveEntriesOf(table.manifests), LiveEntriesOf(table'.manifests), table.seq + 1)
  BY <1>6, <1>9
<1> QED
  BY <1>3, <1>6, <1>7, <1>8, <1>10 DEF q

LEMMA CommitKeeps ==
    ASSUME Inv, NEW r \in inflight, Commit(r)
    PROVE  Inv'
<1>1. /\ table' \in Table /\ TableOK' /\ table'.version = table.version + 1 /\ UNCHANGED counts
      /\ table'.seq = table.seq + 1
      /\ Numbers(LiveEntriesOf(table.manifests), LiveEntriesOf(table'.manifests), table.seq + 1)
  BY CommitInstalls
<1>2. \/ r.from \in Replicas /\ Done(r.from)
      \/ UNCHANGED run
  BY DEF Commit, Inv, TypeOK
<1>3. /\ run' \in [Replicas -> Run]
      /\ \A q \in Replicas : run'[q].pc = "loaded" => run'[q] = run[q]
      /\ \A q \in Replicas : run'[q].wanted \in {run[q].wanted, {}}
  <2>1. CASE r.from \in Replicas /\ Done(r.from)
    BY <2>1, DoneKeeps
  <2>2. CASE UNCHANGED run
    BY <2>2 DEF Inv, TypeOK
  <2> QED
    BY <1>2, <2>1, <2>2
<1>4. inflight' \subseteq inflight
  BY DEF Commit
<1>5. counts' \in [edits : Nat, runs : Nat]
  BY <1>1 DEF Inv, TypeOK
<1> QED
  BY <1>1, <1>3, <1>4, <1>5, NewVersion

LEMMA AnswerKeeps ==
    ASSUME Inv, NEW r \in inflight, Conflict(r) \/ Lose(r)
    PROVE  Inv'
<1>1. UNCHANGED <<table, counts>> /\ inflight' \subseteq inflight
  BY DEF Conflict, Lose
<1>2. counts' \in [edits : Nat, runs : Nat]
  BY <1>1 DEF Inv, TypeOK
<1>3. r.from \in Replicas
  BY DEF Inv, TypeOK
<1>4. \/ UNCHANGED run
      \/ run' = [run EXCEPT ![r.from].pc = "backoff", ![r.from].attempt = @ + 1]
      \/ Done(r.from)
  BY DEF Conflict, Lose
<1>5. /\ run' \in [Replicas -> Run]
      /\ \A q \in Replicas : run'[q].pc = "loaded" => run'[q] = run[q]
      /\ \A q \in Replicas : run'[q].wanted \in {run[q].wanted, {}}
  <2>1. CASE UNCHANGED run
    BY <2>1 DEF Inv, TypeOK
  <2>2. CASE run' = [run EXCEPT ![r.from].pc = "backoff", ![r.from].attempt = @ + 1]
    <3> DEFINE waiting == [run[r.from] EXCEPT !.pc = "backoff", !.attempt = @ + 1]
    <3>1. run' = [run EXCEPT ![r.from] = waiting]
      BY <1>3, <2>2 DEF Inv, TypeOK
    <3>2. run[r.from] \in Run
      BY <1>3 DEF Inv, TypeOK
    <3>3. waiting \in Run /\ waiting.pc = "backoff" /\ waiting.wanted = run[r.from].wanted
      BY <3>2, Waiting
    <3> HIDE DEF waiting
    <3> QED
      BY <1>3, <3>1, <3>3 DEF Inv, TypeOK
  <2>3. CASE Done(r.from)
    BY <1>3, <2>3, DoneKeeps
  <2> QED
    BY <1>4, <2>1, <2>2, <2>3
<1> QED
  BY <1>1, <1>2, <1>5, RunKeeps

(* A foreground commit of sound manifests.                                  *)
LEMMA EditKeeps ==
    ASSUME Inv, NEW manifests, SoundManifests(manifests, table.seq + 1), Edit(manifests),
           Numbers(LiveEntriesOf(table.manifests), LiveEntriesOf(manifests), table.seq + 1)
    PROVE  /\ Inv' /\ table'.manifests = manifests /\ counts'.edits = counts.edits + 1
           /\ table'.retention = table.retention /\ table'.by = "foreground"
           /\ UNCHANGED <<run, inflight>>
<1>1. table \in Table /\ counts \in [edits : Nat, runs : Nat]
  BY DEF Inv, TypeOK
<1>2. manifests \in SUBSET Manifest /\ NoTotals \in Totals
  BY DEF SoundManifests, Totals
<1>3. table' = [table EXCEPT !.version = @ + 1, !.seq = @ + 1, !.manifests = manifests,
                   !.totals = NoTotals, !.by = "foreground"]
  BY DEF Edit
<1>4. /\ table' \in Table
      /\ table'.version = table.version + 1 /\ table'.seq = table.seq + 1 /\ table'.manifests = manifests
      /\ table'.totals = NoTotals /\ table'.retention = table.retention /\ table'.by = "foreground"
  <2>1. table.retention \in Retention
    BY <1>1 DEF Table
  <2>2. table' = Moved(table, manifests, table.retention, NoTotals, "foreground")
    BY <1>1, <1>3 DEF Table, Moved
  <2> QED
    BY <1>1, <1>2, <2>1, <2>2, Replaced
<1>5. TableOK'
  BY <1>4 DEF TableOK
<1>6. UNCHANGED <<run, inflight>> /\ counts' = [counts EXCEPT !.edits = @ + 1]
  BY DEF Edit
<1>7. counts' \in [edits : Nat, runs : Nat] /\ counts'.edits = counts.edits + 1
  BY <1>1, <1>6
<1>8. /\ run' \in [Replicas -> Run] /\ \A q \in Replicas : run'[q].pc = "loaded" => run'[q] = run[q]
      /\ \A q \in Replicas : run'[q].wanted \in {run[q].wanted, {}}
  BY <1>6 DEF Inv, TypeOK
<1>9. Inv'
  BY <1>4, <1>5, <1>6, <1>7, <1>8, NewVersion
<1> QED
  BY <1>4, <1>6, <1>7, <1>9

(* A writer's commit is one, and adds a row newer than all there are.       *)
LEMMA WriteAdds ==
    ASSUME Inv, Write
    PROVE  \E manifests, new :
               /\ Edit(manifests) /\ SoundManifests(manifests, table.seq + 1)
               /\ LiveEntriesOf(manifests) = LiveEntriesOf(table.manifests) \cup {new}
               /\ \A l \in LiveEntriesOf(table.manifests) : new.seq > l.seq /\ new.file # l.file
               /\ Numbers(LiveEntriesOf(table.manifests), LiveEntriesOf(manifests), table.seq + 1)
<1> DEFINE x(content, tuple) == [file |-> table.seq + 1, content |-> content, tuple |-> tuple,
                                 seq |-> table.seq + 1, status |-> "added"]
<1>1. PICK content \in Contents, tuple \in Tuples :
        \E w \in Written({Draft(table.spec, content, {x(content, tuple)})}) : Edit(table.manifests \cup w)
  BY DEF Write
<1>2. PICK w \in Written({Draft(table.spec, content, {x(content, tuple)})}) : Edit(table.manifests \cup w)
  BY <1>1
<1>3. table.seq \in Nat /\ table.spec \in Specs
  BY DEF Inv, TypeOK, Table
<1>4. SoundManifests(table.manifests, table.seq)
  BY DEF Inv, TableOK
<1>5. Fresh(x(content, tuple), table.seq)
  BY <1>3 DEF Fresh, Entry
<1> DEFINE e == x(content, tuple)
           new == Row(table.spec, e)
<1>6. w \in NewManifests(table.spec, content, e) /\ Fresh(e, table.seq)
  BY <1>5 DEF NewManifests
<1>7. new.seq = table.seq + 1 /\ new.file = table.seq + 1
  BY DEF Row
<1> DEFINE before == table.manifests
<1>8. /\ SoundManifests(table.manifests \cup w, table.seq + 1)
      /\ LiveEntriesOf(table.manifests \cup w) = LiveEntriesOf(table.manifests) \cup {new}
  <2>1. SoundManifests(before, table.seq)
    BY <1>4
  <2> HIDE DEF e, before
  <2>2. /\ SoundManifests(before \cup w, table.seq + 1)
        /\ LiveEntriesOf(before \cup w) = LiveEntriesOf(before) \cup {Row(table.spec, e)}
    BY <1>3, <1>6, <2>1, AddedRows
  <2> QED
    BY <2>2 DEF before
<1>9. \A l \in LiveEntriesOf(table.manifests) : /\ l.seq \in Nat /\ l.file \in Nat
                                                /\ l.seq <= table.seq /\ l.file <= table.seq
  BY <1>3, <1>4, RowsAreTyped
<1> HIDE DEF new
<1>10. \A l \in LiveEntriesOf(table.manifests) : new.seq > l.seq /\ new.file # l.file
  BY <1>3, <1>7, <1>9
<1>11. Numbers(LiveEntriesOf(table.manifests), LiveEntriesOf(table.manifests \cup w), table.seq + 1)
  BY <1>7, <1>8 DEF Numbers
<1> QED
  BY <1>2, <1>8, <1>10, <1>11

(* A removal is one that drops a row there is.                              *)
LEMMA RemoveDrops ==
    ASSUME Inv, Remove
    PROVE  \E manifests : \E old \in LiveEntriesOf(table.manifests) :
               /\ Edit(manifests) /\ SoundManifests(manifests, table.seq + 1)
               /\ LiveEntriesOf(manifests) = LiveEntriesOf(table.manifests) \ {old}
               /\ Numbers(LiveEntriesOf(table.manifests), LiveEntriesOf(manifests), table.seq + 1)
<1>1. PICK m \in table.manifests : \E gone \in LiveIn(m) : Edit((table.manifests \ {m}) \cup {Marked(m, gone)})
  BY DEF Remove, Marked
<1>2. PICK gone \in LiveIn(m) : Edit((table.manifests \ {m}) \cup {Marked(m, gone)})
  BY <1>1
<1>3. table.seq \in Nat /\ SoundManifests(table.manifests, table.seq)
  BY DEF Inv, TypeOK, TableOK, Table
<1> DEFINE after == (table.manifests \ {m}) \cup {Marked(m, gone)}
<1>4. /\ SoundManifests(after, table.seq + 1)
      /\ LiveEntriesOf(after) = LiveEntriesOf(table.manifests) \ {Row(m.spec, gone)}
      /\ Row(m.spec, gone) \in LiveEntriesOf(table.manifests)
  BY <1>3, RemovedRows
<1> HIDE DEF after
<1>5. Numbers(LiveEntriesOf(table.manifests), LiveEntriesOf(after), table.seq + 1)
  BY <1>4 DEF Numbers
<1> QED
  BY <1>2, <1>4, <1>5 DEF after

(* A change of the table's spec or retention leaves its manifests alone.    *)
LEMMA AlterKeeps ==
    ASSUME Inv, EvolveSpec \/ AlterRetention
    PROVE  /\ Inv' /\ table'.manifests = table.manifests /\ counts'.edits = counts.edits + 1
           /\ table'.retention \in {table.retention, "altered"} /\ table'.version = table.version
           /\ UNCHANGED <<run, inflight>>
<1>1. table \in Table /\ counts \in [edits : Nat, runs : Nat]
  BY DEF Inv, TypeOK
<1>2. \/ \E s \in Specs : table' = [table EXCEPT !.spec = s]
      \/ table' = [table EXCEPT !.retention = "altered"]
  BY DEF EvolveSpec, AlterRetention
<1>3. "altered" \in Retention
  BY DEF Retention
<1>4. /\ table' \in Table
      /\ table'.version = table.version /\ table'.seq = table.seq /\ table'.manifests = table.manifests
      /\ table'.totals = table.totals /\ table'.retention \in {table.retention, "altered"}
      /\ table'.by = table.by
  BY <1>1, <1>2, <1>3 DEF Table
<1>5. UNCHANGED <<run, inflight>> /\ counts' = [counts EXCEPT !.edits = @ + 1]
  BY DEF EvolveSpec, AlterRetention
<1>6. counts' \in [edits : Nat, runs : Nat] /\ counts'.edits = counts.edits + 1
  BY <1>1, <1>5
<1>7. TypeOK'
  BY <1>4, <1>5, <1>6 DEF Inv, TypeOK
<1>8. TableOK'
  BY <1>4 DEF Inv, TableOK
<1>9. ViewsOK'
  BY <1>4, <1>5 DEF Inv, ViewsOK
<1>10. RequestsOK'
  BY <1>4, <1>5 DEF Inv, RequestsOK, Applies
<1>11. GroupsOK'
  BY <1>4, <1>5 DEF Inv, GroupsOK, Alike
<1> QED
  BY <1>4, <1>5, <1>6, <1>7, <1>8, <1>9, <1>10, <1>11 DEF Inv

LEMMA NextInv == Inv /\ [Next]_vars => Inv'
<1> SUFFICES ASSUME Inv, [Next]_vars PROVE Inv'
  OBVIOUS
<1>1. ASSUME NEW p \in Replicas, Maintain(p) PROVE Inv'
  <2>1. CASE Begin(p)
    BY <2>1, BeginKeeps
  <2>2. CASE Refuse(p) \/ NothingToPack(p) \/ Drop(p)
    BY <2>2, EndKeeps
  <2>3. CASE RewriteManifests(p) \/ RewriteFiles(p) \/ DropDangling(p)
    BY <2>3, RewriteSends, SendKeeps
  <2>4. CASE Reload(p)
    BY <2>4, ReloadKeeps
  <2> QED
    BY <1>1, <2>1, <2>2, <2>3, <2>4 DEF Maintain
<1>2. ASSUME NEW r \in inflight, Commit(r) \/ Conflict(r) \/ Lose(r) PROVE Inv'
  BY <1>2, CommitKeeps, AnswerKeeps
<1>3. CASE Write
  BY <1>3, WriteAdds, EditKeeps
<1>4. CASE Remove
  BY <1>4, RemoveDrops, EditKeeps
<1>5. CASE EvolveSpec \/ AlterRetention
  BY <1>5, AlterKeeps
<1>6. CASE UNCHANGED vars
  <2>1. \A q \in Replicas : run'[q] = run[q]
    BY <1>6 DEF vars
  <2>2. run' \in [Replicas -> Run] /\ counts' \in [edits : Nat, runs : Nat]
    BY <1>6 DEF Inv, TypeOK, vars
  <2>3. UNCHANGED table /\ inflight' \subseteq inflight
    BY <1>6 DEF vars
  <2> QED
    BY <2>1, <2>2, <2>3, RunKeeps
<1> QED
  BY <1>1, <1>2, <1>3, <1>4, <1>5, <1>6 DEF Next

LEMMA Invariant == Spec => []Inv
  BY InitInv, NextInv, PTL DEF Spec

-----------------------------------------------------------------------------
(* Theorems *)

(* The table, the runs, the requests and the counters keep their types,     *)
(* whatever commits, is lost or is dropped.                                 *)
THEOREM TypeCorrect == Spec => []TypeOK
<1>1. Inv => TypeOK
  BY DEF Inv
<1> QED
  BY <1>1, Invariant, PTL

(* A live file is listed by one manifest only, and the totals in the        *)
(* summary of a file rewrite are those of the table its snapshot leaves,    *)
(* for any manifests, groups, retired and dangling deletes, replicas and    *)
(* losses.                                                                  *)
THEOREM SummariesTrue == Spec => []SummaryIsTrue
<1>1. Inv => SummaryIsTrue
  <2> SUFFICES ASSUME Inv PROVE SummaryIsTrue
    OBVIOUS
  <2>1. \A m, n \in table.manifests : m # n => Files(m) \cap Files(n) = {}
    <3> SUFFICES ASSUME NEW m \in table.manifests, NEW n \in table.manifests, NEW f \in Files(m), f \in Files(n)
                 PROVE  m = n
      OBVIOUS
    <3>1. PICK d \in LiveIn(m) : f = d.file
      BY DEF Files
    <3>2. PICK e \in LiveIn(n) : f = e.file
      BY DEF Files
    <3> QED
      BY <3>1, <3>2 DEF Inv, TableOK, SoundManifests
  <2>2. table.totals # NoTotals => table.totals = TotalsOf(LiveEntriesOf(table.manifests))
    BY DEF Inv, TableOK
  <2> QED
    BY <2>1, <2>2 DEF SummaryIsTrue, TotalsOf
<1> QED
  BY <1>1, Invariant, PTL

(* A commit of a manifest rewrite changes no row, and that of a file        *)
(* rewrite exchanges its group; only the foreground adds or drops others.   *)
LEMMA StepsOfLive ==
    ASSUME Inv, [Next]_vars
    PROVE  [Live!Next]_<<LiveEntriesOf(table.manifests), counts.edits>>
<1> DEFINE rows == LiveEntriesOf(table.manifests)
<1>1. CASE UNCHANGED <<table.manifests, counts.edits>>
  BY <1>1 DEF LiveEntriesOf, LiveIn
<1>2. ASSUME NEW p \in Replicas, Maintain(p)
      PROVE  UNCHANGED <<table.manifests, counts.edits>>
  BY <1>2 DEF Maintain, Begin, Refuse, NothingToPack, RewriteManifests, RewriteFiles, DropDangling, Replace,
              Reload, Drop, Send, Inv, TypeOK
<1>3. ASSUME NEW r \in inflight, Conflict(r) \/ Lose(r)
      PROVE  UNCHANGED <<table.manifests, counts.edits>>
  BY <1>3 DEF Conflict, Lose
<1>4. ASSUME NEW r \in inflight, Commit(r)
      PROVE  [Live!Next]_<<LiveEntriesOf(table.manifests), counts.edits>>
  <2>1. Faithful(table.manifests, r.request) /\ table'.manifests = r.request.manifests /\ UNCHANGED counts
    BY <1>4, CommitInstalls
  <2>2. rows' = LiveEntriesOf(r.request.manifests)
    BY <2>1 DEF LiveEntriesOf, LiveIn
  <2>3. CASE rows' = rows
    BY <2>1, <2>3
  <2>4. CASE Exchanges(rows, LiveEntriesOf(r.request.manifests))
    <3>1. Exchanges(rows, rows')
      BY <2>2, <2>4
    <3> HIDE DEF rows
    <3>3. Live!Exchange
      BY <2>1, <3>1 DEF Exchanges, Hides, Live!Exchange, Live!IsNewest, Live!Hides, rows
    <3> QED
      BY <3>3 DEF Live!Next
  <2> QED
    BY <2>1, <2>2, <2>3, <2>4 DEF Faithful
<1>5. CASE Write
  <2>1. PICK manifests, new :
               /\ Edit(manifests) /\ SoundManifests(manifests, table.seq + 1)
               /\ Numbers(rows, LiveEntriesOf(manifests), table.seq + 1)
               /\ LiveEntriesOf(manifests) = rows \cup {new}
               /\ \A l \in rows : new.seq > l.seq /\ new.file # l.file
    BY <1>5, WriteAdds
  <2>2. table'.manifests = manifests /\ counts'.edits = counts.edits + 1
    BY <2>1, EditKeeps
  <2>3. rows' = LiveEntriesOf(manifests)
    BY <2>2 DEF LiveEntriesOf, LiveIn
  <2> HIDE DEF rows
  <2>4. Live!Edit
    BY <2>1, <2>2, <2>3 DEF Live!Edit, Live!Add, Live!IsNewest, rows
  <2> QED
    BY <2>4 DEF Live!Next
<1>6. CASE Remove
  <2>0. PICK manifests : \E old \in rows :
               /\ Edit(manifests) /\ SoundManifests(manifests, table.seq + 1)
               /\ Numbers(rows, LiveEntriesOf(manifests), table.seq + 1)
               /\ LiveEntriesOf(manifests) = rows \ {old}
    BY <1>6, RemoveDrops
  <2>1. PICK old \in rows :
               /\ Edit(manifests) /\ SoundManifests(manifests, table.seq + 1)
               /\ Numbers(rows, LiveEntriesOf(manifests), table.seq + 1)
               /\ LiveEntriesOf(manifests) = rows \ {old}
    BY <2>0
  <2>2. table'.manifests = manifests /\ counts'.edits = counts.edits + 1
    BY <2>1, EditKeeps
  <2>3. rows' = LiveEntriesOf(manifests)
    BY <2>2 DEF LiveEntriesOf, LiveIn
  <2> HIDE DEF rows
  <2>4. Live!Edit
    BY <2>1, <2>2, <2>3 DEF Live!Edit, Live!Drop, rows
  <2> QED
    BY <2>4 DEF Live!Next
<1>7. CASE EvolveSpec \/ AlterRetention
  <2>1. table'.manifests = table.manifests /\ counts'.edits = counts.edits + 1
    BY <1>7, AlterKeeps
  <2>2. rows' = rows
    BY <2>1 DEF LiveEntriesOf, LiveIn
  <2>3. Live!Edit
    BY <2>1, <2>2 DEF Live!Edit
  <2> QED
    BY <2>3 DEF Live!Next
<1>8. CASE UNCHANGED vars
  <2>1. UNCHANGED <<table.manifests, counts.edits>>
    BY <1>8 DEF vars
  <2> QED
    BY <1>1, <2>1
<1> QED
  BY <1>1, <1>2, <1>3, <1>4, <1>5, <1>6, <1>7, <1>8 DEF Next

(* The producer implements LiveEntries: no live entry is restamped,         *)
(* refiled, lost or resurrected by packing, a file rewrite exchanges what   *)
(* is left of its group, whatever was committed since the group was         *)
(* planned, for a newer file of the same tuple, or for none if deletes hid  *)
(* it all, and a delete file goes only if it applies to nothing that stays. *)
THEOREM EntriesKept == Spec => EntriesUntouched
<1>1. Init => Live!Init
  BY DEF Init, Live!Init
<1>2. Inv /\ [Next]_vars => [Live!Next]_<<LiveEntriesOf(table.manifests), counts.edits>>
  BY StepsOfLive
<1> QED
  BY <1>1, <1>2, Invariant, PTL DEF Spec, EntriesUntouched, Live!Spec

(* A step that adds a snapshot by packing is a commit of a packing of what  *)
(* the table held.                                                          *)
LEMMA PacksWhatIsThere ==
    ASSUME Inv, Next, Packs
    PROVE  /\ table'.manifests \in Repacked(table.manifests)
           /\ WorthPacking(table.manifests, table'.manifests)
<1>1. ASSUME NEW p \in Replicas, Maintain(p) PROVE FALSE
  BY <1>1 DEF Packs, Maintain, Begin, Refuse, NothingToPack, RewriteManifests, RewriteFiles, DropDangling, Replace,
              Reload, Drop, Send
<1>2. ASSUME NEW r \in inflight, Conflict(r) \/ Lose(r) PROVE FALSE
  BY <1>2 DEF Packs, Conflict, Lose
<1>3. CASE Write \/ Remove
  <2>1. table'.by = "foreground"
    BY <1>3, WriteAdds, RemoveDrops, EditKeeps
  <2> QED
    BY <2>1 DEF Packs
<1>4. CASE EvolveSpec \/ AlterRetention
  BY <1>4, AlterKeeps DEF Packs
<1>5. ASSUME NEW r \in inflight, Commit(r)
      PROVE  /\ table'.manifests \in Repacked(table.manifests)
             /\ WorthPacking(table.manifests, table'.manifests)
  BY <1>5, CommitInstalls DEF Packs, Faithful
<1> QED
  BY <1>1, <1>2, <1>3, <1>4, <1>5 DEF Next

(* Packing keeps manifest pruning whatever the order of the partitions, the *)
(* number of entries a manifest holds and the manifests that are packed:    *)
(* of two it writes for one spec and kind, one covers partitions no later   *)
(* than the other's.                                                        *)
THEOREM PruningSurvives == Spec => PruningKept
<1> DEFINE kept == Packs =>
        LET new == table'.manifests \ table.manifests
        IN  \A m, n \in new :
                (m.spec = n.spec /\ m.kind = n.kind /\ m # n) =>
                    Max(Ranks(m)) <= Min(Ranks(n)) \/ Max(Ranks(n)) <= Min(Ranks(m))
<1>1. Inv /\ [Next]_vars => [kept]_vars
  <2> SUFFICES ASSUME Inv, Next, Packs PROVE kept
    BY DEF vars
  <2>1. table.seq \in Nat /\ SoundManifests(table.manifests, table.seq)
    BY DEF Inv, TypeOK, TableOK, Table
  <2>2. table'.manifests \in Repacked(table.manifests)
    BY PacksWhatIsThere
  <2> QED
    BY <2>1, <2>2, PackedApart
<1> QED
  BY <1>1, Invariant, PTL DEF Spec, PruningKept

(* A quiet table is left alone, however many entries fit a manifest and     *)
(* whichever manifests turn out undersized: after a packing no packing is   *)
(* worth a commit until somebody else has committed.                        *)
THEOREM PackingEnds == Spec => PackingSettles
<1>1. Inv /\ [Next]_vars => [Packs => table.by # "manifests"]_vars
  <2> SUFFICES ASSUME Inv, Next, Packs, table.by = "manifests" PROVE FALSE
    OBVIOUS
  <2>1. table.seq \in Nat /\ SoundManifests(table.manifests, table.seq) /\ Settled(table.manifests)
    BY DEF Inv, TypeOK, TableOK, Table
  <2>2. /\ table'.manifests \in Repacked(table.manifests)
        /\ WorthPacking(table.manifests, table'.manifests)
    BY PacksWhatIsThere
  <2> QED
    BY <2>1, <2>2, NothingLeftToPack
<1> QED
  BY <1>1, Invariant, PTL DEF Spec, PackingSettles
=============================================================================
