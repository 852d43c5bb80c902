----------------------------- MODULE ParserFSM -----------------------------
(***************************************************************************)
(* What the parser registry promises: each parser is a state machine that  *)
(* starts absent or seeded and moves along the published transitions, one  *)
(* parser and one transition at a time.                                    *)
(***************************************************************************)
CONSTANT Parsers
VARIABLE status

Moves ==
    { <<"NONE", "DRAFT">>, <<"DRAFT", "PENDING_APPROVAL">>,
      <<"PENDING_APPROVAL", "APPROVED">>, <<"PENDING_APPROVAL", "DRAFT">>,
      <<"APPROVED", "ACTIVE">>,
      <<"ACTIVE", "DISABLED">>, <<"ACTIVE", "ROLLED_BACK">>,
      <<"ROLLED_BACK", "ACTIVE">>, <<"DISABLED", "ACTIVE">> }

Init == status \in [Parsers -> {"NONE", "DRAFT", "ACTIVE"}]

Reachable == {"DRAFT", "PENDING_APPROVAL", "APPROVED", "ACTIVE", "DISABLED", "ROLLED_BACK"}

Move(p, s) ==
    /\ <<status[p], s>> \in Moves
    /\ status' = [status EXCEPT ![p] = s]

Next == \E p \in Parsers, s \in Reachable : Move(p, s)

Spec == Init /\ [][Next]_status
============================================================================
