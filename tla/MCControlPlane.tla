---------------------------- MODULE MCControlPlane ----------------------------
(* A small instance of ControlPlane.  Of the three bodies of POST /users the   *)
(* first two race for a role that does not exist, the first and the third for  *)
(* a username, the second and the third for an e-mail.                         *)
EXTENDS ControlPlane

CONSTANTS n1, n2, e1, e2

MCForms == { [username |-> n1, email |-> e1, role |-> "OPERATOR"],
             [username |-> n2, email |-> e2, role |-> "OPERATOR"],
             [username |-> n1, email |-> e2, role |-> "SECURITY_ANALYST"] }
=============================================================================
