--------------------------- MODULE MCAssetRegistry ---------------------------
(* Small instances of AssetRegistry: a source and a policy (a mapping is a   *)
(* policy that is never enabled or disabled).                                *)
EXTENDS AssetRegistry, TLC

CONSTANTS src, pol

MCKindOf == [a \in Assets |-> IF a = src THEN "source" ELSE "policy"]

Symmetry == Permutations(Sessions) \cup Permutations(Values)
=============================================================================
