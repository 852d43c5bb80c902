-------------------------- MODULE MCSchemaRegistry --------------------------
(* Small instances of SchemaRegistry.  The seeded name and label are not      *)
(* exchangeable with others.                                                  *)
EXTENDS SchemaRegistry, TLC

Symmetry == Permutations(Sessions) \cup Permutations(Names \ {Ues})
=============================================================================
