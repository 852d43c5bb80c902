------------------------ MODULE MCConfigDistribution ------------------------
(* Small instances of ConfigDistribution: two of the five keys, in the order *)
(* of distribute_all.                                                        *)
EXTENDS ConfigDistribution, TLC

MCKeyOrder == <<"sources", "parsers">>
MCOneKey == <<"parsers">>

MCMaxContent == [k \in Keys |-> IF k = "parsers" THEN 1 ELSE 0]

Symmetry == Permutations(Sessions) \cup Permutations(Readers)
=============================================================================
