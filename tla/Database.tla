------------------------------ MODULE Database ------------------------------
(***************************************************************************)
(* PostgreSQL as the control plane uses it: tables with unique keys, the   *)
(* committed rows, and one open transaction per process.  It is the state  *)
(* that the deployment scripts (Bootstrap), the accounts (UserAccounts)    *)
(* and the replay requests (ReplayRequests) share.                         *)
(*                                                                         *)
(* READ COMMITTED: a SELECT sees the committed rows and takes no lock.  An *)
(* INSERT whose unique key another open transaction has inserted waits for *)
(* that transaction, and fails once the key is committed.                  *)
(***************************************************************************)
EXTENDS Naturals, FiniteSets

CONSTANTS
    Scripts,         \* the processes that run migration and seed scripts
    Workers,         \* the API workers, each serving one request at a time
    AdminUsername,   \* settings.admin_username
    AdminEmail       \* settings.admin_email

ASSUME ProcsAssumption == Scripts \cap Workers = {}

VARIABLES
    schema,   \* the tables that exist
    rows,     \* the committed rows
    tx        \* tx[p]: the rows the open transaction of p has inserted

dbVars == <<schema, rows, tx>>

Procs == Scripts \cup Workers

----------------------------------------------------------------------------
(* Tables and rows.  A row has a key and one further column (the e-mail of *)
(* a user, the role of a user_roles row, the resource of an audit row, the *)
(* status of a replay); by is the process or the user that wrote it.       *)
(* unique lists the unique constraints: on the key, on the other column,   *)
(* or on the pair of them.                                                 *)

Table(name, unique, refs) == [name |-> name, unique |-> unique, refs |-> refs]

Row(table, key, val, by) == [table |-> table, key |-> key, val |-> val, by |-> by]

TableNames == {t.name : t \in schema}

RowsOf(table) == {r \in rows : r.table = table}

\* Two rows that the unique constraints do not allow together.
Clash(a, b) ==
    \E t \in schema :
        /\ t.name = a.table
        /\ t.name = b.table
        /\ \/ "key" \in t.unique /\ a.key = b.key
           \/ "val" \in t.unique /\ a.val = b.val
           \/ "pair" \in t.unique /\ a.key = b.key /\ a.val = b.val

\* The INSERT of the rows new by p has to wait for another transaction.
Locked(p, new) ==
    \E q \in Procs \ {p} : \E a \in tx[q], b \in new : Clash(a, b)

\* The INSERT of the rows new violates a unique constraint.
Taken(new) == \E a \in rows, b \in new : Clash(a, b)

\* The roles that the system knows by name.
ADMIN == "ADMINISTRATOR"
PARSER_DEV == "PARSER_DEVELOPER"
SEC_ANALYST == "SECURITY_ANALYST"
VIEWER == "VIEWER"
AllRoles == {ADMIN, PARSER_DEV, SEC_ANALYST, VIEWER}

----------------------------------------------------------------------------
(* The transaction of a process.                                           *)

Insert(p, new) ==
    /\ tx' = [tx EXCEPT ![p] = @ \cup new]
    /\ UNCHANGED <<schema, rows>>

\* The last rows of a transaction, and its commit.
CommitWith(p, new) ==
    /\ rows' = rows \cup tx[p] \cup new
    /\ tx' = [tx EXCEPT ![p] = {}]
    /\ UNCHANGED schema

Commit(p) == CommitWith(p, {})

Rollback(p) ==
    /\ tx' = [tx EXCEPT ![p] = {}]
    /\ UNCHANGED <<schema, rows>>

DatabaseInit ==
    /\ schema = {}
    /\ rows = {}
    /\ tx = [p \in Procs |-> {}]
=============================================================================
