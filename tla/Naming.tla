------------------------------- MODULE Naming -------------------------------
(***************************************************************************)
(* How bergman writes names down to compare them: tables and the patterns  *)
(* that match them, partition tuples, and object paths.  Two things that   *)
(* differ must never be written alike.                                     *)
(*                                                                         *)
(* A text is a sequence of tokens: single characters and, where the code   *)
(* treats them as a whole, the words "null" and "absent", the rests of     *)
(* their escapes, and the glob "**".                                       *)
(***************************************************************************)
EXTENDS Integers, Sequences, SequencesExt

CONSTANTS
    Tokens,  \* the tokens a text may hold
    Null     \* a partition value that is null

(* What is written for another token, or in its place, is a token.  A null  *)
(* is no text.                                                              *)
ASSUME NamingAssumption ==
    /\ {"/", "%", "2", "5", "F", "6", "E", "ull", "1", "bsent", "null", "absent", "unpartitioned", "=", ".", "\\"} \subseteq Tokens
    /\ Null \notin Seq(Tokens)

Join(texts) ==
    FlattenSeq([i \in DOMAIN texts |-> (IF i = 1 THEN <<>> ELSE <<"/">>) \o texts[i]])

-----------------------------------------------------------------------------
(* Tables and patterns *)

(* Mutant: an escape is not told from one that is part of the name. *)
EncodedOnce(token) == IF token = "/" THEN <<"%", "2", "F">> ELSE <<token>>

EncodedToken(token) ==
    CASE token = "%" -> <<"%", "2", "5">>
      [] token = "/" -> <<"%", "2", "F">>
      [] OTHER -> <<token>>

Encode(text) == FlattenSeq([i \in DOMAIN text |-> EncodedToken(text[i])])

(* A table is the sequence of its segments: catalog, namespace and name. *)
Render(table) == Join([i \in DOMAIN table |-> Encode(table[i])])

(* A dot separates segments, but for one a backslash makes part of a name. *)
Translate(pattern) ==
    LET escapes(i) == i \in DOMAIN pattern /\ pattern[i] = "\\" /\ i < Len(pattern) /\ pattern[i + 1] = "."
        token(i) == IF escapes(i) THEN <<>>
                    ELSE IF pattern[i] # "." THEN EncodedToken(pattern[i])
                    ELSE IF escapes(i - 1) THEN <<".">> ELSE <<"/">>
    IN  FlattenSeq([i \in DOMAIN pattern |-> token(i)])

(* How far into a text one token of a glob may get from a place in it: "*"  *)
(* stops at a separator, "**" does not.                                     *)
Advance(token, text, places) ==
    {j \in 0 .. Len(text) : \E k \in places :
        CASE token = "**" -> k <= j
          [] token = "*" -> k <= j /\ \A n \in k + 1 .. j : text[n] # "/"
          [] OTHER -> j = k + 1 /\ text[j] = token}

(* The glob matcher: the whole glob gets from the start to the end. *)
GlobMatches(glob, text) ==
    LET reached[i \in 0 .. Len(glob)] ==
            IF i = 0 THEN {0} ELSE Advance(glob[i], text, reached[i - 1])
    IN  Len(text) \in reached[Len(glob)]

Matches(pattern, table) == GlobMatches(Translate(pattern), Render(table))

-----------------------------------------------------------------------------
(* Partition keys *)

(* Mutant: a value that spells a reserved word is left as it is. *)
EscapedSeparators(value) == Encode(value)

(* No value is written like another value, a field, a null or an absence. *)
Escape(value) ==
    CASE Encode(value) = <<"null">> -> <<"%", "6", "E", "ull">>
      [] Encode(value) = <<"absent">> -> <<"%", "6", "1", "bsent">>
      [] OTHER -> Encode(value)

(* The fields of a spec with the values of a tuple that may be too short. *)
PartitionPath(fields, tuple) ==
    LET rendered(i) == IF i > Len(tuple) THEN <<"absent">>
                       ELSE IF tuple[i] = Null THEN <<"null">> ELSE Escape(tuple[i])
    IN  IF fields = <<>> THEN <<"unpartitioned">>
        ELSE Join([i \in DOMAIN fields |-> <<fields[i], "=">> \o rendered(i)])

PartitionKey(spec, tuple) == [spec |-> spec.id, value |-> PartitionPath(spec.fields, tuple)]

-----------------------------------------------------------------------------
(* Object paths *)

Canonical(scheme) == IF scheme \in {"s3", "s3a", "s3n"} THEN "s3" ELSE scheme

CollapseSlashes(text) ==
    LET kept(i) == \/ text[i] # "/"
                   \/ /\ i = 1 \/ text[i - 1] # "/"
                      /\ \E k \in i + 1 .. Len(text) : text[k] # "/"
    IN  FlattenSeq([i \in DOMAIN text |-> IF kept(i) THEN <<text[i]>> ELSE <<>>])

(* Mutant: a path is compared as it is spelled. *)
AsSpelled(path) == path

Normalize(path) == [scheme |-> Canonical(path.scheme), key |-> CollapseSlashes(path.key)]
=============================================================================
