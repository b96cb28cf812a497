---------------------------- MODULE IcebergFiles ----------------------------
(***************************************************************************)
(* The files of one Iceberg table and the relation between its data files  *)
(* and its delete files: which delete applies to which data file, which    *)
(* rows a reader sees, and which delete files can apply to nothing.        *)
(*                                                                         *)
(* A row is an identity with a key; row contents are never looked at.      *)
(* The path of a file carries the partition the file was written into: a   *)
(* path is never reused, so it determines the partition for good.          *)
(***************************************************************************)
EXTENDS Naturals, FiniteSets, FiniteSetsExt

CONSTANTS
    Rows,      \* row identities
    Keys,      \* values of the equality columns
    KeyOf,     \* the key of a row
    Specs,     \* partition specs
    Tuples,    \* partition tuples
    NoTuple,   \* the empty tuple of an unpartitioned spec
    TupleOf    \* the tuple of a row under a spec

ASSUME FilesAssumption ==
    /\ KeyOf \in [Rows -> Keys]
    /\ NoTuple \in Tuples
    /\ TupleOf \in [Specs -> [Rows -> Tuples]]
    /\ \A s \in Specs : \A q, r \in Rows : TupleOf[s][q] = NoTuple => TupleOf[s][r] = NoTuple

Sizes == {"small", "target", "large"}
DeleteKinds == {"position", "equality"}

Partition == [spec : Specs, tuple : Tuples]
Path == [name : Nat, part : Partition]

(* One manifest entry. Data files hold rows; an equality delete names keys; *)
(* a positional delete names rows of the files in "at".                     *)
File == [path : Path, kind : DeleteKinds \cup {"data"}, seq : Nat, size : Sizes,
         rows : SUBSET Rows, keys : SUBSET Keys, at : SUBSET Path]

DataFile(name, part, seq, size, rows) ==
    [path |-> [name |-> name, part |-> part], kind |-> "data", seq |-> seq,
     size |-> size, rows |-> rows, keys |-> {}, at |-> {}]

EqualityDelete(name, part, seq, keys) ==
    [path |-> [name |-> name, part |-> part], kind |-> "equality", seq |-> seq,
     size |-> "small", rows |-> {}, keys |-> keys, at |-> {}]

PositionDelete(name, part, seq, at, rows) ==
    [path |-> [name |-> name, part |-> part], kind |-> "position", seq |-> seq,
     size |-> "small", rows |-> rows, keys |-> {}, at |-> at]

DataFiles(live) == {f \in live : f.kind = "data"}
DeleteFiles(live) == {d \in live : d.kind \in DeleteKinds}
Unpartitioned(s) == \A r \in Rows : TupleOf[s][r] = NoTuple

(* An equality delete with the empty tuple is global; every other delete   *)
(* reaches the data files of its own spec and tuple.                       *)
IsGlobal(d) == d.kind = "equality" /\ d.path.part.tuple = NoTuple
Reaches(d, f) == IsGlobal(d) \/ d.path.part = f.path.part

(* The deletes a scan attaches to a data file. *)
Applies(d, f) ==
    /\ Reaches(d, f)
    /\ IF d.kind = "equality" THEN d.seq > f.seq ELSE d.seq >= f.seq

DeletesOf(f, live) == {d \in DeleteFiles(live) : Applies(d, f)}

Hides(d, f, r) ==
    /\ Applies(d, f)
    /\ IF d.kind = "equality" THEN KeyOf[r] \in d.keys
                              ELSE f.path \in d.at /\ r \in d.rows

Surviving(f, live) ==
    LET deletes == DeletesOf(f, live)
    IN  {r \in f.rows : \A d \in deletes : ~Hides(d, f, r)}

(* What a reader of the snapshot sees, with the partition each row is filed *)
(* under: pruning and partition-scoped deletes both depend on it.           *)
Visible(live) ==
    UNION {Surviving(f, live) \X {f.path.part} : f \in DataFiles(live)}

(* Mutant: an equality delete at the floor is taken to be alive. *)
DeadStrictlyBelow(d, live) ==
    LET seqs == {f.seq : f \in {g \in DataFiles(live) : Reaches(d, g)}}
    IN  seqs = {} \/ d.seq < Min(seqs)

(* The sequence-number argument for a dead delete file. *)
DeadBySequence(d, live) ==
    LET seqs == {f.seq : f \in {g \in DataFiles(live) : Reaches(d, g)}}
    IN  seqs = {} \/ IF d.kind = "equality" THEN d.seq <= Min(seqs)
                                            ELSE d.seq < Min(seqs)

StillApplied(live) == {d \in DeleteFiles(live) : \E f \in DataFiles(live) : Applies(d, f)}

DanglingDeleteFiles(live) ==
    {d \in DeleteFiles(live) : d \notin StillApplied(live) /\ DeadBySequence(d, live)}
=============================================================================
