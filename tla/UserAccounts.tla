---------------------------- MODULE UserAccounts ----------------------------
(***************************************************************************)
(* Authentication and accounts: login, the token and role check in front   *)
(* of every protected operation, and the creation of users, as requests    *)
(* of the API workers against the tables of Database.                      *)
(*                                                                         *)
(* A request is one transaction: dep_db commits it after the handler and   *)
(* before the response leaves (FastAPI 0.111), or rolls it back.  Every    *)
(* lookup is a SELECT, every flush an INSERT of its own.                   *)
(***************************************************************************)
EXTENDS Database

CONSTANTS
    Forms,    \* the bodies of POST /users: [username, email, role]
    Nobody    \* no user

\* A form is a record of three fields; no user is called like a script.
ASSUME FormsAssumption ==
    /\ \A f \in Forms : f = [username |-> f.username, email |-> f.email, role |-> f.role]
    /\ \A f \in Forms : f.username \notin Scripts
    /\ AdminUsername \notin Scripts

VARIABLES
    at,       \* at[w]: the next step of the request that worker w serves
    who,      \* who[w]: the user it logs in or acts for
    form,     \* form[w]: the body of its POST /users
    tokens    \* the users that have been given a token.  Its expiry is left out:
              \* it can only refuse a request that is allowed here.

accountVars == <<at, who, form, tokens>>

NoForm == [username |-> Nobody, email |-> Nobody, role |-> Nobody]

AccountSteps == {"idle", "login_commit",
                 "user", "role", "create_role", "assign"}

Users == {r.key : r \in RowsOf("users")}
RolesOf(u) == {r.val : r \in {l \in RowsOf("user_roles") : l.key = u}}

UserRow(f, u) == Row("users", f.username, f.email, u)
RoleRow(f, u) == Row("roles", f.role, "-", u)
LinkRow(f, u) == Row("user_roles", f.username, f.role, u)
AuditRow(action, resource, u) == Row("audit_logs", action, resource, u)

----------------------------------------------------------------------------
(* Requests.                                                               *)

Moves(w, step) ==
    /\ at' = [at EXCEPT ![w] = step]
    /\ UNCHANGED <<who, form, tokens>>

Answers(w) ==
    /\ at' = [at EXCEPT ![w] = "idle"]
    /\ who' = [who EXCEPT ![w] = Nobody]
    /\ form' = [form EXCEPT ![w] = NoForm]

\* Fault: the session is closed without a rollback.
FailsOpen(w) ==
    /\ Answers(w)
    /\ UNCHANGED <<tokens, dbVars>>

\* An error response: the connection is lost, or a constraint is violated.
Fails(w) ==
    /\ Answers(w)
    /\ Rollback(w)
    /\ UNCHANGED tokens

\* Fault: the roles are not checked.
AuthenticatedOnly(u, allowed) == u \in tokens /\ u \in Users

\* dep_current_user and require_roles: the token is valid, its user exists, and
\* is the superuser (only the seeded administrator is) or holds an allowed role.
Authorised(u, allowed) ==
    /\ u \in tokens
    /\ u \in Users
    /\ u = AdminUsername \/ RolesOf(u) \cap allowed # {}

----------------------------------------------------------------------------
(* POST /auth/login.                                                       *)

\* Fault: the client has the token before the login is committed.
LoginEarlyToken(w, u) ==
    /\ at[w] = "idle"
    /\ u \in Users \ tokens
    /\ "audit_logs" \in TableNames
    /\ Insert(w, {AuditRow("USER_LOGIN", u, u)})
    /\ tokens' = tokens \cup {u}
    /\ at' = [at EXCEPT ![w] = "login_commit"]
    /\ who' = [who EXCEPT ![w] = u]
    /\ UNCHANGED form

\* The user exists and the password is right; every other login is refused
\* without a trace, and so is one that finds no table for its audit row yet
\* (migrate.py creates that table late).  (The second login of a user would
\* leave nothing that the first has not left.)
Login(w, u) ==
    /\ at[w] = "idle"
    /\ u \in Users \ tokens
    /\ "audit_logs" \in TableNames
    /\ Insert(w, {AuditRow("USER_LOGIN", u, u)})
    /\ at' = [at EXCEPT ![w] = "login_commit"]
    /\ who' = [who EXCEPT ![w] = u]
    /\ UNCHANGED <<form, tokens>>

LoginCommit(w) ==
    /\ at[w] = "login_commit"
    /\ Commit(w)
    /\ tokens' = tokens \cup {who[w]}
    /\ Answers(w)

----------------------------------------------------------------------------
(* POST /auth/users.                                                       *)

\* 409 for a username or an e-mail that is taken, before anything is written.
\* (Users are never deleted: what a check would find later is found by the
\* unique constraints.)
CreateUser(w, u, f) ==
    /\ at[w] = "idle"
    /\ Authorised(u, {ADMIN})
    /\ \A r \in RowsOf("users") : r.key # f.username /\ r.val # f.email
    /\ at' = [at EXCEPT ![w] = "user"]
    /\ who' = [who EXCEPT ![w] = u]
    /\ form' = [form EXCEPT ![w] = f]
    /\ UNCHANGED <<tokens, dbVars>>

\* Fault: the user is committed by itself, before its role.
InsertUserCommitted(w) ==
    LET new == {UserRow(form[w], who[w])} IN
    /\ at[w] = "user"
    /\ ~ Locked(w, new)
    /\ IF Taken(new)
       THEN Fails(w)
       ELSE CommitWith(w, new) /\ Moves(w, "role")

InsertUser(w) ==
    LET new == {UserRow(form[w], who[w])} IN
    /\ at[w] = "user"
    /\ ~ Locked(w, new)
    /\ IF Taken(new)
       THEN Fails(w)
       ELSE Insert(w, new) /\ Moves(w, "role")

GetRole(w) ==
    /\ at[w] = "role"
    /\ IF \E r \in RowsOf("roles") : r.key = form[w].role
       THEN Moves(w, "assign")
       ELSE Moves(w, "create_role")
    /\ UNCHANGED dbVars

\* Fault: the new role is committed before the link that needs it.
CreateRoleCommitted(w) ==
    LET new == {RoleRow(form[w], who[w])} IN
    /\ at[w] = "create_role"
    /\ ~ Locked(w, new)
    /\ IF Taken(new)
       THEN Fails(w)
       ELSE CommitWith(w, new) /\ Moves(w, "assign")

\* A role that another request has created since GetRole violates the unique
\* name: the request fails, and its user with it.
CreateRole(w) ==
    LET new == {RoleRow(form[w], who[w])} IN
    /\ at[w] = "create_role"
    /\ ~ Locked(w, new)
    /\ IF Taken(new)
       THEN Fails(w)
       ELSE Insert(w, new) /\ Moves(w, "assign")

\* The link to the role, the audit row, and the commit.  (A user with a token
\* has logged in: there is a table for the audit row.)
AssignRole(w) ==
    LET f == form[w] IN
    /\ at[w] = "assign"
    /\ CommitWith(w, {LinkRow(f, who[w]), AuditRow("USER_CREATED", f.username, who[w])})
    /\ Answers(w)
    /\ UNCHANGED tokens

----------------------------------------------------------------------------
AccountsInit ==
    /\ at = [w \in Workers |-> "idle"]
    /\ who = [w \in Workers |-> Nobody]
    /\ form = [w \in Workers |-> NoForm]
    /\ tokens = {}

AccountStep(w) ==
    \/ LoginCommit(w)
    \/ InsertUser(w) \/ GetRole(w) \/ CreateRole(w) \/ AssignRole(w)

----------------------------------------------------------------------------
(* Properties.                                                             *)

\* Accounts are whole: every user has exactly one role, which exists; every
\* link belongs to a user; and the audit log names every user that a request
\* created, and no other (auth.py:87-113).
AccountsWhole ==
    /\ \A u \in Users : \E r \in RowsOf("roles") : RolesOf(u) = {r.key}
    /\ \A l \in RowsOf("user_roles") : l.key \in Users
    /\ \A u \in RowsOf("users") :
          u.by \in Scripts \/ AuditRow("USER_CREATED", u.key, u.by) \in rows
    /\ \A a \in RowsOf("audit_logs") :
          a.key = "USER_CREATED" => \E u \in RowsOf("users") : u.key = a.val /\ u.by = a.by

\* A role outlives no failed request: every role is a seeded one or was created
\* with a user that has it (auth.py:100-103).
RolesGranted ==
    \A r \in RowsOf("roles") :
        \/ r.by \in Scripts
        \/ \E l \in RowsOf("user_roles") : l.val = r.key /\ l.by = r.by
=============================================================================
