------------------------------ MODULE MCSurvey ------------------------------
(* A catalog with a namespace below itself and one listed twice, tables      *)
(* whose names hold separators and escapes, and rules that spell them.       *)
EXTENDS Survey

TokensOf == STRING

NA == << <<"a">> >>
NB == << <<"a">>, <<"b">> >>
NC == << <<"a", "b">> >>
ND == << <<"d">> >>
NamespacesOf == {NA, NB, NC, ND}
RootsOf == {NA, NC, ND}
ChildrenOf == [ns \in NamespacesOf |-> CASE ns = NA -> {NB} [] ns = NB -> {NA} [] ns = NC -> {NB} [] OTHER -> {}]

P == <<"p">>
Nested == <<P>> \o NB \o << <<"c">> >>
Slashed == <<P>> \o NA \o << <<"b", "/", "c">> >>
Escaped == <<P>> \o NA \o << <<"b", "%", "2", "F", "c">> >>
Dotted == <<P>> \o NA \o << <<"b", ".", "c">> >>
Joined == <<P>> \o NC \o << <<"c">> >>
Late == <<P>> \o ND \o << <<"c">> >>
SeedTablesOf == {Nested, Slashed, Escaped, Dotted, Joined}
TablesOf == SeedTablesOf \cup {Late}

SettingsOf == {"target", "maxAge", "orphanAge"}
PropertyOf == [target |-> "positive", maxAge |-> "natural", orphanAge |-> "none"]
LeastOf == [target |-> 1, maxAge |-> 0, orphanAge |-> 2]
DocumentedOf == [target |-> 5, maxAge |-> 5, orphanAge |-> 7]

Nothing == [set |-> [s \in SettingsOf |-> Unset], sort |-> Unset]
Sets(setting, value) == [Nothing EXCEPT !.set[setting] = value]
Ascending(c) == [name |-> c, plain |-> TRUE, descending |-> FALSE, nullsFirst |-> TRUE]
Descending(c) == [name |-> c, plain |-> TRUE, descending |-> TRUE, nullsFirst |-> FALSE]
Layers == {Nothing, [Nothing EXCEPT !.sort = <<Ascending("z")>>], [Nothing EXCEPT !.sort = <<Ascending("y")>>],
           [Nothing EXCEPT !.sort = <<>>],
           Sets("target", 0), Sets("target", 8), Sets("maxAge", 0), Sets("orphanAge", 1), Sets("orphanAge", 2)}

Rule(pattern, skip, layer) == [pattern |-> pattern, skip |-> skip, layer |-> layer]
BelowA == <<"p", ".", "a", ".", "**">>
Directly == <<"p", ".", "a", ".", "*">>
All == <<"**">>
Patterns == {Literal(t) : t \in SeedTablesOf} \cup {BelowA, Directly, All}

(* Every pair of patterns and every combination of layers in a quiet        *)
(* catalog, and two policies in one that changes.                           *)
Config(rules, default, others) == [rules |-> rules, defaults |-> default, changes |-> others]

ConfigsOf ==
    {Config(<<Rule(p, TRUE, Nothing), Rule(q, FALSE, Nothing)>>, Nothing, 0) : p, q \in Patterns}
    \cup {Config(<<Rule(All, FALSE, layer)>>, default, 0) : layer, default \in Layers}
    \cup {Config(<<Rule(All, TRUE, layer)>>, Nothing, 0) : layer \in Layers}
    \cup {Config(<<Rule(Literal(Dotted), TRUE, Nothing), Rule(q, FALSE, Nothing)>>, Nothing, 1) : q \in {BelowA, All}}

Bucket(c) == [Ascending(c) EXCEPT !.plain = FALSE]
Orders == {<<>>, <<Ascending("x"), Descending("y")>>, <<Descending("x"), Bucket("y"), Ascending("z")>>}
Says(properties, order) == [properties |-> properties, sort |-> order]
FactsOf == {Says(Sets("target", v).set, <<>>) : v \in {Unset, Malformed, 0, 2}}
    \cup {Says(Sets("maxAge", v).set, <<>>) : v \in {Malformed, 0}}
    \cup {Says(Nothing.set, o) : o \in Orders}

SchemasOf == {[id |-> 1, fields |-> <<"f", "g">>, known |-> TRUE], [id |-> 2, fields |-> <<"f">>, known |-> TRUE],
              [id |-> 3, fields |-> <<"f">>, known |-> FALSE]}
Values == {Null, <<"null">>, <<"%", "6", "E", "ull">>, <<"absent">>, <<"x">>,
           <<"x", "/", "g", "=", "y">>, <<"x", "%", "2", "F", "g", "=", "y">>}
TuplesOf == {<<v>> : v \in Values} \cup {<< <<"x">>, v>> : v \in {Null, <<"null">>, <<"absent">>, <<"y">>}}

Path(scheme, key) == [scheme |-> scheme, key |-> key]
PathsOf == {Path("s3", <<"b", "/", "f">>), Path("s3a", <<"b", "/", "f">>),
            Path("s3", <<"b", "/", "/", "f">>), Path("s3n", <<"b", "/", "g", "/">>)}

(* Deletes on one column, on two, on others, with nulls; one that names no  *)
(* field and one whose field was dropped.                                   *)
ColumnsOf == [id \in {1, 2} |-> IF id = 1 THEN "x" ELSE "y"]
XY(x, y) == "x" :> x @@ "y" :> y
Matching(ids, rows) == [ids |-> ids, rows |-> rows]
DeleteFileOf == <<Matching(<<1>>, {"x" :> 0}), Matching(<<1, 2>>, {XY(1, Null)}),
                  Matching(<<2>>, {XY(7, Null)}), Matching(<<>>, {}), Matching(<<3>>, {"w" :> 0})>>

Filed(tuple, rows, deletes) == [tuple |-> tuple, rows |-> rows, deletes |-> deletes]
Older == <<XY(1, Null), XY(0, 1), XY(1, 1), XY(0, 1)>>
Newer == <<XY(0, Null), XY(Null, 1), XY(1, 0)>>
GroupsOf ==
    {<<Filed("u", Older, ds), Filed("u", Newer, es)>> : ds, es \in SUBSET (1 .. 3)}
    \cup {<<Filed("u", Older, {1}), Filed(tuple, Newer, {d})>> : tuple \in {"u", "v", Absent}, d \in 1 .. 5}
StudiedOf == {Config(<<Rule(All, FALSE, layer)>>, Nothing, 0) :
                layer \in {Nothing, [Nothing EXCEPT !.sort = <<Ascending("y")>>]}}
=============================================================================
