------------------------- MODULE MCParserLifecycle -------------------------
(* Small instances of ParserLifecycle: an administrator, a parser developer *)
(* and a parser.                                                            *)
EXTENDS ParserLifecycle, TLC

CONSTANTS admin, dev

MCHeldRoles == (admin :> {"ADMINISTRATOR"}) @@ (dev :> {"PARSER_DEVELOPER"})
============================================================================
