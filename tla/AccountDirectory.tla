-------------------------- MODULE AccountDirectory --------------------------
(***************************************************************************)
(* What the accounts of the control plane promise, without transactions,   *)
(* tables or races: a directory that starts empty, is founded by one       *)
(* administrator, and then grows by one whole account at a time, each with *)
(* a username and an e-mail of its own.                                    *)
(***************************************************************************)
CONSTANTS
    Founder,      \* the account of the seeded administrator
    Candidates    \* the accounts that may be enrolled

VARIABLE accounts

Init == accounts = {}

Found == accounts = {} /\ accounts' = {Founder}

Enrol(a) ==
    /\ accounts # {}
    /\ \A b \in accounts : a.username # b.username /\ a.email # b.email
    /\ accounts' = accounts \cup {a}

Next == Found \/ \E a \in Candidates : Enrol(a)

Spec == Init /\ [][Next]_accounts
=============================================================================
