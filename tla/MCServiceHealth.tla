---------------------------- MODULE MCServiceHealth ----------------------------
(* Small instances of ServiceHealth: PostgreSQL and one of the modules M1 to  *)
(* M5, or OpenSearch alone.                                                   *)
EXTENDS ServiceHealth

CONSTANTS pg, m1, os

MCKindOf == [s \in Services |-> CASE s = pg -> "postgres" [] s = m1 -> "module"
                                  [] s = os -> "opensearch"]

\* For PostgreSQL, what is not an answer to the query is one and the same.
MCAnswers == [s \in Services |-> IF s = m1 THEN {"serving", "refusing", "down"}
                                 ELSE {"serving", "down"}]
=============================================================================
