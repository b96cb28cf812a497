------------------------------ MODULE MCUpkeep ------------------------------
(* Two partitions of a partitioned spec, and one of the unpartitioned spec   *)
(* the table may evolve to.                                                  *)
EXTENDS Upkeep

Key(spec, value) == [spec |-> spec, value |-> value]
PartitionsOf == {Key(1, "x"), Key(1, "y"), Key(0, "unpartitioned")}
SeedOf == [p \in PartitionsOf |-> CASE p.value = "x" -> <<5, 8>> [] p.value = "y" -> <<5>> [] OTHER -> <<>>]
ThirdOf == [num |-> 3, den |-> 10]
TenthOf == [num |-> 1, den |-> 10]
=============================================================================
