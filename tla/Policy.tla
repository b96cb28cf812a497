------------------------------- MODULE Policy -------------------------------
(***************************************************************************)
(* Which rule governs a table, and which layer supplies its settings: the  *)
(* first rule that matches, then the rule, the defaults, the table's own   *)
(* properties and the documented default, in this order.                   *)
(*                                                                         *)
(* A setting is one of three sorts: a size or a count, whose zero would     *)
(* turn the operation against the table; an age that may be zero; and one  *)
(* with a floor below it that tables have no property for.                 *)
(***************************************************************************)
EXTENDS Naming

CONSTANTS
    Unset,          \* a setting a layer does not make
    Malformed,      \* a property whose value does not parse
    Settings,       \* the names of the settings
    Property,       \* how a setting's property is parsed: "positive", "natural"
                    \* or, if there is none, "none"
    Least,          \* the least value the policy may give a setting
    Documented      \* the documented default of a setting

(* A column to sort by; a plain one is sorted as it is, untransformed. *)
SortField == [name : STRING, plain : BOOLEAN, descending : BOOLEAN, nullsFirst : BOOLEAN]

(* What is no setting is told from every one. *)
ASSUME PolicyAssumption ==
    /\ Unset \notin Nat /\ Unset \notin Seq(SortField)
    /\ Property \in [Settings -> {"positive", "natural", "none"}]
    /\ Least \in [Settings -> Nat] /\ Documented \in [Settings -> Nat]
    /\ \A s \in Settings : Documented[s] >= Least[s]
    /\ \A s \in Settings : Property[s] = "positive" => Least[s] = 1
    /\ \A s \in Settings : Property[s] = "natural" => Least[s] = 0

(* A layer is a record of the settings it makes, and of a sort if it names  *)
(* one; a table says the same of itself, but may say it wrong.              *)
Layer == [set : [Settings -> Nat \cup {Unset}], sort : {Unset} \cup Seq(SortField)]
PolicyRule == [pattern : Seq(Tokens), skip : BOOLEAN, layer : Layer]
TableFacts == [properties : [Settings -> Nat \cup {Unset, Malformed}], sort : Seq(SortField)]

-----------------------------------------------------------------------------
(* Compiling rules *)

GlobTokens == {"*", "**", "?", "[", "]", "{", "}", "\\"}

(* Mutant: a name that begins with another is taken for one below it. *)
CoversByPrefix(broad, narrow) ==
    LET prefix == SubSeq(broad, 1, Len(broad) - 2)
    IN  /\ Len(broad) > 2 /\ broad[Len(broad)] = "**"
        /\ IsPrefix(prefix, narrow)

(* Whether one pattern provably matches all that another does: "**" itself, *)
(* or a literal prefix followed by ".**".                                   *)
Covers(broad, narrow) ==
    \/ broad = <<"**">>
    \/ LET prefix == SubSeq(broad, 1, Len(broad) - 2)
       IN  /\ Len(broad) >= 2 /\ SubSeq(broad, Len(broad) - 1, Len(broad)) = <<".", "**">>
           /\ \A i \in DOMAIN prefix : prefix[i] \notin GlobTokens
           /\ prefix = <<>> \/ IsPrefix(Append(prefix, "."), narrow)

Shadowed(rules, i) ==
    \E j \in 1 .. i - 1 : rules[j].pattern = rules[i].pattern \/ Covers(rules[j].pattern, rules[i].pattern)

Below(layer, property) ==
    \E s \in Settings : Property[s] = property /\ layer.set[s] # Unset /\ layer.set[s] < Least[s]

(* No size and no count is zero, and no sort is an empty list. *)
ValidSizes(layer) == ~ Below(layer, "positive") /\ layer.sort # <<>>

(* Orphans are no younger than the floor. *)
ValidOrphans(layer) == ~ Below(layer, "none")

ValidLayer(layer) == ValidSizes(layer) /\ ValidOrphans(layer)

SaysNothing(layer) == layer.sort = Unset /\ \A s \in Settings : layer.set[s] = Unset

Valid(rule) ==
    /\ ValidLayer(rule.layer)
    /\ rule.skip => SaysNothing(rule.layer)
    /\ rule.pattern # <<>>

Compiles(rules, defaults) ==
    /\ ValidLayer(defaults)
    /\ \A i \in DOMAIN rules : Valid(rules[i]) /\ ~ Shadowed(rules, i)

-----------------------------------------------------------------------------
(* Resolving one table's settings *)

ParsePositive(property) == IF property \in {Unset, Malformed, 0} THEN Unset ELSE property
ParseNatural(property) == IF property \in {Unset, Malformed} THEN Unset ELSE property

(* Mutant: a zero parses, whatever it is for. *)
ParsedNatural(setting, property) == IF Property[setting] = "none" THEN Unset ELSE ParseNatural(property)

Parse(setting, property) ==
    CASE Property[setting] = "positive" -> ParsePositive(property)
      [] Property[setting] = "natural" -> ParseNatural(property)
      [] Property[setting] = "none" -> Unset

FirstSet(layers) == layers[Min({i \in DOMAIN layers : layers[i].value # Unset})]

Resolve(setting, rule, defaults, properties) ==
    FirstSet(<<[from |-> "rule", value |-> rule.set[setting]],
               [from |-> "defaults", value |-> defaults.set[setting]],
               [from |-> "property", value |-> Parse(setting, properties[setting])],
               [from |-> "documented", value |-> Documented[setting]]>>)

(* Mutant: only what is no number is warned of. *)
Malformations(properties) == {s \in Settings : properties[s] = Malformed}

(* Properties that are set and, for what they say, not used. *)
Unparseable(properties) ==
    {s \in Settings : Property[s] # "none" /\ properties[s] # Unset /\ Parse(s, properties[s]) = Unset}

(* Of the table's sort order, what precedes the first field a rewrite       *)
(* cannot reproduce.                                                        *)
SortOrder(order) ==
    LET gaps == {i \in DOMAIN order : ~ order[i].plain}
    IN  IF gaps = {} THEN order ELSE SubSeq(order, 1, Min(gaps) - 1)

(* A sort the policy names governs; else the table's own does. *)
ResolveSort(rule, defaults, order) ==
    FirstSet(<<[from |-> "rule", value |-> rule.sort],
               [from |-> "defaults", value |-> defaults.sort],
               [from |-> "table", value |-> SortOrder(order)]>>)

Unmatched == [verdict |-> "unmatched"]
Skip(i) == [verdict |-> "skip", rule |-> i]

Decide(rules, defaults, table, facts) ==
    LET matching == {i \in DOMAIN rules : Matches(rules[i].pattern, table)}
        first == Min(matching)
        layer == rules[first].layer
    IN  IF matching = {} THEN Unmatched
        ELSE IF rules[first].skip THEN Skip(first)
        ELSE [verdict |-> "maintain", rule |-> first,
              set |-> [s \in Settings |-> Resolve(s, layer, defaults, facts.properties)],
              sort |-> ResolveSort(layer, defaults, facts.sort),
              warnings |-> Unparseable(facts.properties)]
=============================================================================
