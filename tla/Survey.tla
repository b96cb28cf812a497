------------------------------- MODULE Survey -------------------------------
(***************************************************************************)
(* From a policy to what is done to one table: the policy is compiled, the *)
(* catalog's namespaces are walked level by level while others create,     *)
(* drop and move what is in them, each table found is matched to its rule, *)
(* its files are grouped by partition, a group is rewritten in the order   *)
(* decided, and paths that dropped out of its references are cleaned up.   *)
(***************************************************************************)
EXTENDS Policy, GroupRewrite

CONSTANTS
    Namespaces,     \* sequences of segments, the catalog's name left out
    Roots,          \* the namespaces a walk starts from
    SeedChildren,   \* what each namespace lists below it, at first
    Tables,         \* every table there may be, each a sequence of segments
    SeedTables,     \* those there are at first
    Configs,        \* a sequence of rules, a default, and as a bound how often
                    \* others change the catalog during the walk
    Facts,          \* what a table may say of itself: properties, a sort order
    Schemas,        \* partition specs: an id, field names, and whether the
                    \* metadata still has it
    Tuples,         \* partition tuples of data files
    Paths,          \* spellings of object paths
    Groups,         \* sequences of tasks
    Studied,        \* as a bound, the configurations under which the contents
                    \* of tables are looked at
    Concurrency,    \* namespaces listed at once
    NoDecision

VARIABLES
    config,     \* the rules and the default
    catalog,    \* its tables, what each namespace lists below it
    steady,     \* what of both was there ever since the walk began
    walk,       \* the state of the walk
    decision,   \* the last table decided, with its facts
    seen,       \* what was found, deleted or written last
    changes

ASSUME SurveyAssumption ==
    /\ Roots \subseteq Namespaces /\ SeedTables \subseteq Tables
    /\ Tables \subseteq Seq(Seq(Tokens)) \ {<<>>}
    /\ SeedChildren \in [Namespaces -> SUBSET Namespaces]
    /\ Configs \subseteq [rules : Seq(PolicyRule), defaults : Layer, changes : Nat]
    /\ Facts \subseteq TableFacts
    /\ Schemas \subseteq [id : Nat, fields : Seq(Tokens), known : BOOLEAN]
    /\ \A r, s \in Schemas : r.id = s.id => r = s
    /\ Tuples \subseteq Seq({Null} \cup Seq(Tokens))
    /\ Paths \subseteq [scheme : STRING, key : Seq(Tokens)]
    /\ Groups \subseteq Seq(Task)

vars == <<config, catalog, steady, walk, decision, seen, changes>>

NamespaceOf(table) == SubSeq(table, 2, Len(table) - 1)

-----------------------------------------------------------------------------
(* Walking the catalog *)

(* Mutant: a namespace is listed as often as it is reported. *)
AnyQueued(queue, listed) == queue

Fresh(queue, listed) == queue \ listed

Start ==
    /\ walk.pc = "compiled"
    /\ walk' = [walk EXCEPT !.pc = "walking", !.queue = Roots]
    /\ steady' = catalog
    /\ UNCHANGED <<config, catalog, decision, seen, changes>>

Compile ==
    /\ walk.pc = "config"
    /\ walk' = [walk EXCEPT !.pc = IF Compiles(config.rules, config.defaults) THEN "compiled" ELSE "rejected"]
    /\ UNCHANGED <<config, catalog, steady, decision, seen, changes>>

(* The next level: what was reported below the last and was never listed.   *)
(* With none, the walk is over.                                             *)
Descend ==
    /\ walk.pc = "walking" /\ walk.level = {}
    /\ LET level == Fresh(walk.queue, walk.listed)
       IN  walk' = IF level = {} THEN [walk EXCEPT !.pc = "decide", !.queue = {}]
                   ELSE [walk EXCEPT !.level = level, !.listed = @ \cup level, !.queue = {}]
    /\ UNCHANGED <<config, catalog, steady, decision, seen, changes>>

HasPermit(started) == Cardinality(started) < Concurrency

(* A namespace's tables are listed first.  Twice stands for more often.     *)
ListTables(ns) ==
    /\ walk.pc = "walking" /\ ns \in walk.level \ walk.started /\ HasPermit(walk.started)
    /\ walk' = [walk EXCEPT
            !.started = @ \cup {ns},
            !.found = [t \in Tables |->
                IF t \in catalog.tables /\ NamespaceOf(t) = ns THEN Min({2, @[t] + 1}) ELSE @[t]]]
    /\ UNCHANGED <<config, catalog, steady, decision, seen, changes>>

(* Mutant: the last namespace answered replaces what others reported. *)
LastChildren(queue, children) == children

Queued(queue, children) == queue \cup children

(* Then what is below it. *)
ListChildren(ns) ==
    /\ walk.pc = "walking" /\ ns \in walk.started
    /\ walk' = [walk EXCEPT
            !.level = @ \ {ns}, !.started = @ \ {ns},
            !.queue = Queued(@, catalog.children[ns])]
    /\ UNCHANGED <<config, catalog, steady, decision, seen, changes>>

(* Either listing fails, and the pass with it. *)
ListingFails ==
    /\ walk.pc = "walking" /\ walk.level # {}
    /\ walk' = [walk EXCEPT !.pc = "failed"]
    /\ UNCHANGED <<config, catalog, steady, decision, seen, changes>>

-----------------------------------------------------------------------------
(* Deciding and examining *)

DecideOn(table) ==
    /\ walk.pc = "decide" /\ walk.found[table] > 0
    /\ \E facts \in Facts :
        decision' = [table |-> table, facts |-> facts,
                     outcome |-> Decide(config.rules, config.defaults, table, facts)]
    /\ UNCHANGED <<config, catalog, steady, walk, seen, changes>>

Maintained == decision # NoDecision /\ decision.outcome.verdict = "maintain"

LooksInside == walk.pc = "decide" /\ Maintained /\ config \in Studied

(* Malformed metadata holds tuples shorter than their spec, never longer. *)
Under(spec) == {t \in Tuples : Len(t) <= Len(spec.fields)}

(* The files of a spec that the metadata no longer has share one key. *)
FileKey(spec, tuple) ==
    IF spec.known THEN PartitionKey(spec, tuple) ELSE [spec |-> spec.id, value |-> PartitionPath(<<>>, tuple)]

(* The manifests list files of several specs and tuples; they are grouped   *)
(* by the key of their partition.                                           *)
Examine ==
    /\ LooksInside
    /\ \E s1, s2 \in Schemas : \E t1 \in Under(s1), t2 \in Under(s2) :
        seen' = {[spec |-> s1, tuple |-> t1, key |-> FileKey(s1, t1)],
                 [spec |-> s2, tuple |-> t2, key |-> FileKey(s2, t2)]}
    /\ walk' = [walk EXCEPT !.pc = "examined"]
    /\ decision' = NoDecision
    /\ UNCHANGED <<config, catalog, steady, changes>>

(* Files referenced before an expiration and not after it are deleted under *)
(* the name they were compared by.                                          *)
Gone(before, after) == {Normalize(p) : p \in before} \ {Normalize(p) : p \in after}

CleanUp ==
    /\ LooksInside
    /\ \E before, after \in SUBSET Paths :
        seen' = {[after |-> after, deleted |-> Gone(before, after)]}
    /\ walk' = [walk EXCEPT !.pc = "cleaned"]
    /\ decision' = NoDecision
    /\ UNCHANGED <<config, catalog, steady, changes>>

(* A group is rewritten, in the order the policy or the table asks for. *)
Rewrite ==
    /\ LooksInside
    /\ \E tasks \in Groups, readAgain \in BOOLEAN :
        \E buckets \in BucketOrders(tasks) :
            LET sort == decision.outcome.sort.value
                written == RewriteGroup(tasks, buckets, sort, readAgain)
            IN  seen' = IF written = Refused THEN {} ELSE {[tasks |-> tasks, sort |-> sort, written |-> written]}
    /\ walk' = [walk EXCEPT !.pc = "rewritten"]
    /\ decision' = NoDecision
    /\ UNCHANGED <<config, catalog, steady, changes>>

-----------------------------------------------------------------------------
(* Others use the catalog *)

Changes(new) ==
    /\ walk.pc = "walking" /\ changes < config.changes
    /\ changes' = changes + 1
    /\ catalog' = new
    /\ steady' = [tables |-> steady.tables \cap new.tables,
                  children |-> [ns \in Namespaces |-> steady.children[ns] \cap new.children[ns]]]
    /\ UNCHANGED <<config, walk, decision, seen>>

Create(table) == table \notin catalog.tables /\ Changes([catalog EXCEPT !.tables = @ \cup {table}])
Drop(table) == table \in catalog.tables /\ Changes([catalog EXCEPT !.tables = @ \ {table}])
Mount(ns, child) == child \notin catalog.children[ns] /\ Changes([catalog EXCEPT !.children[ns] = @ \cup {child}])
Unmount(ns, child) == child \in catalog.children[ns] /\ Changes([catalog EXCEPT !.children[ns] = @ \ {child}])

-----------------------------------------------------------------------------
Init ==
    /\ config \in Configs
    /\ catalog = [tables |-> SeedTables, children |-> SeedChildren]
    /\ steady = catalog
    /\ walk = [pc |-> "config", queue |-> {}, level |-> {}, started |-> {}, listed |-> {},
               found |-> [t \in Tables |-> 0]]
    /\ decision = NoDecision
    /\ seen = {}
    /\ changes = 0

Pass ==
    \/ Compile \/ Start \/ Descend \/ ListingFails
    \/ \E ns \in Namespaces : ListTables(ns) \/ ListChildren(ns)

Next ==
    \/ Pass
    \/ \E t \in Tables : DecideOn(t) \/ Create(t) \/ Drop(t)
    \/ \E ns, child \in Namespaces : Mount(ns, child) \/ Unmount(ns, child)
    \/ Examine \/ CleanUp \/ Rewrite

(* Listings are answered; nothing is owed by others. *)
Spec == Init /\ [][Next]_vars /\ WF_vars(Pass)

-----------------------------------------------------------------------------
(* Properties *)

(* The namespaces below the roots in what was there ever since: those in    *)
(* every set that holds the roots and what is below its members.            *)
Reached ==
    {ns \in Namespaces :
        \A within \in SUBSET Namespaces :
            Roots \subseteq within /\ (\A m \in within : steady.children[m] \subseteq within) => ns \in within}

(* A table that was there all through the walk, below namespaces that were, *)
(* is found, whatever else came and went; and no table is found twice,      *)
(* however often its namespace is reported, so that no second copy of it    *)
(* competes with the first.                                                 *)
FoundExactlyOnce ==
    /\ \A t \in Tables : walk.found[t] <= 1
    /\ walk.pc = "decide" => \A t \in steady.tables : NamespaceOf(t) \in Reached => walk.found[t] = 1

(* A walk ends, also in a catalog that lists a namespace below itself. *)
WalkEnds == walk.pc = "walking" ~> walk.pc # "walking"

(* A rule refused as dead is dead: an earlier one matches all its tables. *)
RejectedRulesAreDead ==
    \A i \in DOMAIN config.rules : Shadowed(config.rules, i) =>
        \A t \in Tables : Matches(config.rules[i].pattern, t) =>
            \E j \in 1 .. i - 1 : Matches(config.rules[j].pattern, t)

Literal(table) ==
    LET escaped(text) == FlattenSeq([i \in DOMAIN text |-> IF text[i] = "." THEN <<"\\", ".">> ELSE <<text[i]>>])
    IN  FlattenSeq([i \in DOMAIN table |-> (IF i = 1 THEN <<>> ELSE <<".">>) \o escaped(table[i])])

(* A table whose name holds nothing that a glob gives a meaning. *)
Ordinary(table) == \A i \in DOMAIN table : \A n \in DOMAIN table[i] : table[i][n] \notin GlobTokens

(* A rule that spells out one table governs that table and no other: an     *)
(* exclusion neither leaks to a table of a like name nor misses its own.    *)
LiteralRulesNameOneTable ==
    walk.pc = "decide" /\ decision # NoDecision /\ config.rules # <<>> =>
        LET governed == decision.outcome.verdict # "unmatched" /\ decision.outcome.rule = 1
        IN  \A t \in Tables : Ordinary(t) /\ config.rules[1].pattern = Literal(t) =>
                (governed <=> decision.table = t)

(* A property of a table that the policy leaves the choice either governs   *)
(* or is warned of: none does nothing and looks like one that works.  And   *)
(* whichever layer supplies it, a setting that governs is not below what    *)
(* the policy is held to: no size is zero, no orphan age below its floor.   *)
PropertiesAreHeeded ==
    Maintained =>
        \A s \in Settings :
            /\ Property[s] # "none" /\ decision.facts.properties[s] # Unset =>
                    decision.outcome.set[s].from # "documented" \/ s \in decision.outcome.warnings
            /\ decision.outcome.set[s].value >= Least[s]

(* Files are grouped together only if they share spec and tuple; where the  *)
(* spec is lost, and no group is rewritten, at least the spec.              *)
PartitionsAreUnmistakable ==
    walk.pc = "examined" =>
        \A x, y \in seen : x.key = y.key => x.spec = y.spec /\ (x.spec.known => x.tuple = y.tuple)

Object(path) == [scheme |-> Canonical(path.scheme), key |-> path.key]

(* A cleanup deletes no object that is still referred to, in whatever       *)
(* spelling.                                                                *)
CleanupSparesLive ==
    walk.pc = "cleaned" =>
        \A c \in seen : {Object(p) : p \in c.after} \cap {Object(d) : d \in c.deleted} = {}

(* The rows of a group that a reader of the table sees: those that differ   *)
(* from each row of each delete of their task in one of the fields it names.*)
Scanned(tasks) ==
    {p \in PlacesOf(tasks) :
        \A d \in tasks[p[1]].deletes : \A deleted \in DeleteFile[d].rows :
            \E id \in Range(DeleteFile[d].ids) : RowAt(tasks, p)[ColumnOf[id]] # deleted[ColumnOf[id]]}

(* A rewrite writes the rows a reader saw before it, each as often, under   *)
(* the tuple they had, and sorted across all its files and not file by file:*)
(* nothing is deleted twice, restored, or merely looks clustered.           *)
RewriteIsTheScan ==
    walk.pc = "rewritten" =>
        \A r \in seen :
            LET after == FlattenSeq(r.written.files)
            IN  /\ \A row \in {RowAt(r.tasks, p) : p \in PlacesOf(r.tasks)} \cup Range(after) :
                      Cardinality({p \in Scanned(r.tasks) : RowAt(r.tasks, p) = row}) =
                      Cardinality({i \in DOMAIN after : after[i] = row})
                /\ \A t \in Range(r.tasks) : t.tuple = r.written.tuple
                /\ \A i, j \in DOMAIN after : i < j => ~ SortsBefore(r.sort, after[j], after[i])
=============================================================================
