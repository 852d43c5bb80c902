-------------------------- MODULE ParserLifecycle --------------------------
(***************************************************************************)
(* The parser registry: registration, metadata updates and the approval    *)
(* lifecycle of parsers, as HTTP requests that run concurrently against    *)
(* one PostgreSQL database (uvicorn runs several workers, each serving     *)
(* many requests at once).                                                 *)
(*                                                                         *)
(* Every request is one database transaction (dep_db commits it after the  *)
(* handler, or rolls it back).  PostgreSQL runs it at READ COMMITTED: a    *)
(* SELECT sees the rows committed so far and takes no lock; an UPDATE      *)
(* waits for the row's lock and keeps it until the transaction ends; the   *)
(* ORM writes only the columns the handler changed with respect to what    *)
(* it had loaded.  A request is therefore four steps that others           *)
(* interleave with: load and check, flush the row, record the history and  *)
(* audit rows, commit.                                                     *)
(***************************************************************************)
EXTENDS Integers, FiniteSets

CONSTANTS
    Parsers,      \* the parser identifiers (unique column parser_id)
    Requests,     \* the database sessions that serve requests; each is reused
    Users,        \* the authenticated users
    Superusers,   \* users with is_superuser, who pass every role check
    HeldRoles,    \* HeldRoles[u]: the names of the roles of user u
    SeedAdmin,    \* the user the seed script creates parsers as
    Versions,     \* the values of a parser's editable columns
    NoUser,       \* NULL in approved_by
    NoVersion,    \* no editable columns: the parser does not exist
    Serial,       \* TRUE: requests are served one at a time
    MaxStamp      \* bound: at most this many history or audit stamps

Roles == {"ADMINISTRATOR", "PARSER_DEVELOPER", "SECURITY_ANALYST", "VIEWER"}

ASSUME UsersAssumption ==
    /\ NoUser \notin Users
    /\ Superusers \subseteq Users
    /\ SeedAdmin \in Superusers
    /\ HeldRoles \in [Users -> SUBSET Roles]

ASSUME VersionsAssumption == NoVersion \notin Versions

ASSUME BoundsAssumption == Serial \in BOOLEAN /\ MaxStamp \in Nat

VARIABLES
    parsers,          \* the committed row of each parser
    parser_versions,  \* the committed history rows of each parser
    audit_logs,       \* the committed audit rows about parsers
    tx,               \* the transaction of each session
    clock             \* the last time stamp given to a row

vars == <<parsers, parser_versions, audit_logs, tx, clock>>

----------------------------------------------------------------------------
(* The lifecycle and the operations.                                       *)

ParserStatus == {"DRAFT", "PENDING_APPROVAL", "APPROVED", "ACTIVE",
                 "DISABLED", "ROLLED_BACK"}

\* The statuses a parser is meant to reach only after an approval.
ApprovedStatus == {"APPROVED", "ACTIVE", "DISABLED", "ROLLED_BACK"}

\* Fault: a shortcut from submission to production.
ShortcutTransitions ==
    { <<"DRAFT", "PENDING_APPROVAL">>, <<"PENDING_APPROVAL", "APPROVED">>,
      <<"PENDING_APPROVAL", "ACTIVE">>, <<"APPROVED", "ACTIVE">>,
      <<"ACTIVE", "DISABLED">>, <<"ACTIVE", "ROLLED_BACK">>,
      <<"ROLLED_BACK", "ACTIVE">>, <<"DISABLED", "ACTIVE">> }

PARSER_TRANSITIONS ==
    { <<"DRAFT", "PENDING_APPROVAL">>,
      <<"PENDING_APPROVAL", "APPROVED">>, <<"PENDING_APPROVAL", "DRAFT">>,
      <<"APPROVED", "ACTIVE">>,
      <<"ACTIVE", "DISABLED">>, <<"ACTIVE", "ROLLED_BACK">>,
      <<"ROLLED_BACK", "ACTIVE">>, <<"DISABLED", "ACTIVE">> }

Lifecycle == {"submit", "approve", "activate", "disable", "rollback"}
Operations == Lifecycle \cup {"register", "update"}

Target(op) ==
    CASE op = "submit"   -> "PENDING_APPROVAL"
      [] op = "approve"  -> "APPROVED"
      [] op = "activate" -> "ACTIVE"
      [] op = "disable"  -> "DISABLED"
      [] op = "rollback" -> "ROLLED_BACK"

AllowedRoles(op) ==
    IF op \in {"approve", "activate", "rollback"}
    THEN {"ADMINISTRATOR"}
    ELSE {"ADMINISTRATOR", "PARSER_DEVELOPER"}

\* require_roles: a superuser, or a user with one of the operation's roles.
Permitted(u, op) ==
    u \in Superusers \/ HeldRoles[u] \cap AllowedRoles(op) # {}

Approvers == {u \in Users : Permitted(u, "approve")}

----------------------------------------------------------------------------
(* Rows and transactions.                                                  *)

Row == [status : ParserStatus, version : Versions, approved_by : Users \cup {NoUser}]
Absent == [status |-> "NONE", version |-> NoVersion, approved_by |-> NoUser]

SeedRows == {Absent} \cup
    [status : {"ACTIVE"}, version : Versions, approved_by : {SeedAdmin}] \cup
    [status : {"DRAFT"}, version : Versions, approved_by : {NoUser}]

VersionRow == [status : ParserStatus, version : Versions, at : Nat]
AuditRow == [actor : Users, action : Operations, parser : Parsers,
             before : ParserStatus \cup {"NONE"}, after : ParserStatus, at : Nat]

IdleTx == [pc |-> "idle"]
Tx == [pc : {"loaded", "flushed", "recorded"}, op : Operations, user : Users,
       parser : Parsers, version : Versions \cup {NoVersion},
       loaded : Row \cup {Absent}, seen : ParserStatus \cup {"NONE"}, at : Nat]

InFlight == {r \in Requests : tx[r].pc # "idle"}

\* Fault: update does not check that the parser was found.
AcceptsUnknownUpdate(op, row) ==
    CASE op = "register"   -> row = Absent
      [] op = "update"     -> TRUE
      [] op \in Lifecycle  -> <<row.status, Target(op)>> \in PARSER_TRANSITIONS

\* Fault: lifecycle operations skip _assert_transition.
AcceptsAnyStatus(op, row) ==
    CASE op = "register" -> row = Absent
      [] op # "register" -> row # Absent

\* The checks of each operation on the row it loads: register refuses a
\* parser_id in use, update one that is not found, and a lifecycle operation
\* what _assert_transition does not allow (which a missing row never is).
Accepts(op, row) ==
    CASE op = "register"   -> row = Absent
      [] op = "update"     -> row # Absent
      [] op \in Lifecycle  -> <<row.status, Target(op)>> \in PARSER_TRANSITIONS

\* The ORM object after the handler's assignments.
After(t) ==
    CASE t.op = "register"  -> [status |-> "DRAFT", version |-> t.version,
                                approved_by |-> NoUser]
      [] t.op = "update"    -> [t.loaded EXCEPT !.version = t.version]
      [] t.op \in Lifecycle -> [t.loaded EXCEPT
                                  !.status = Target(t.op),
                                  !.approved_by = IF t.op = "approve" THEN t.user ELSE @]

Dirty(t) == After(t) # t.loaded

\* Fault: the UPDATE writes every column of the loaded object.
WrittenWhole(row, t) == After(t)

\* The row after the UPDATE of t: only the columns that t changed are written.
Written(row, t) ==
    LET new == After(t) IN
    [status      |-> IF new.status # t.loaded.status THEN new.status ELSE row.status,
     version     |-> IF new.version # t.loaded.version THEN new.version ELSE row.version,
     approved_by |-> IF new.approved_by # t.loaded.approved_by
                     THEN new.approved_by ELSE row.approved_by]

\* Fault: the history row is written before the UPDATE, so outside its lock.
LocksLate(t, p) == t.pc = "recorded" /\ t.parser = p /\ Dirty(t)

\* Fault: the SELECT takes a shared lock that the UPDATE must upgrade.
LocksFromLoad(t, p) == t.pc \in {"loaded", "flushed", "recorded"} /\ t.parser = p /\ Dirty(t)

\* An UPDATE or INSERT locks its row, or its unique key, until the end.
Locks(t, p) == t.pc \in {"flushed", "recorded"} /\ t.parser = p /\ Dirty(t)

RowFree(r, p) == \A s \in Requests \ {r} : ~Locks(tx[s], p)

----------------------------------------------------------------------------
(* The steps of a request.                                                 *)

Init ==
    /\ parsers \in [Parsers -> SeedRows]
    /\ parser_versions = [p \in Parsers |-> {}]
    /\ audit_logs = {}
    /\ tx = [r \in Requests |-> IdleTx]
    /\ clock = 0

Arguments(op) == IF op \in {"register", "update"} THEN Versions ELSE {NoVersion}

\* The role check, the SELECT of the row and the operation's own check.
Begin(r, op, u, p) ==
    /\ tx[r] = IdleTx
    /\ Serial => InFlight = {}
    /\ clock + Cardinality(InFlight) < MaxStamp
    /\ Permitted(u, op)
    /\ Accepts(op, parsers[p])
    /\ \E v \in Arguments(op) :
          tx' = [tx EXCEPT ![r] =
                    [pc |-> "loaded", op |-> op, user |-> u, parser |-> p, version |-> v,
                     loaded |-> parsers[p], seen |-> "NONE", at |-> 0]]
    /\ UNCHANGED <<parsers, parser_versions, audit_logs, clock>>

\* The operations that are refused to some user on some parser at the moment.
Refused == {op \in Operations : \E u \in Users, p \in Parsers :
               ~Permitted(u, op) \/ ~Accepts(op, parsers[p])}

\* 403, 404, 409 or 400: the transaction is rolled back and nothing changes.
Reject(r) ==
    /\ tx[r] = IdleTx
    /\ Refused # {}
    /\ UNCHANGED vars

\* Fault: parser_id has no unique index.
FlushNotUnique(r) ==
    /\ tx[r].pc = "loaded"
    /\ Dirty(tx[r]) => RowFree(r, tx[r].parser)
    /\ tx' = [tx EXCEPT ![r].pc = "flushed"]
    /\ UNCHANGED <<parsers, parser_versions, audit_logs, clock>>

\* flush(): the UPDATE or INSERT; it waits for the lock of the row.
Flush(r) ==
    /\ tx[r].pc = "loaded"
    /\ Dirty(tx[r]) => RowFree(r, tx[r].parser)
    /\ tx[r].op = "register" => parsers[tx[r].parser] = Absent
    /\ tx' = [tx EXCEPT ![r].pc = "flushed"]
    /\ UNCHANGED <<parsers, parser_versions, audit_logs, clock>>

\* The INSERT meets a parser_id that was committed after the check.
ViolateUnique(r) ==
    /\ tx[r].pc = "loaded"
    /\ tx[r].op = "register"
    /\ RowFree(r, tx[r].parser)
    /\ parsers[tx[r].parser] # Absent
    /\ tx' = [tx EXCEPT ![r] = IdleTx]
    /\ UNCHANGED <<parsers, parser_versions, audit_logs, clock>>

\* add_version and the audit append, stamped with the current time; update
\* refreshes the object first, so that its audit row shows the row's status.
Record(r) ==
    /\ tx[r].pc = "flushed"
    /\ clock' = clock + 1
    /\ tx' = [tx EXCEPT ![r] =
                 [@ EXCEPT !.pc = "recorded",
                           !.seen = IF tx[r].op = "update" THEN parsers[tx[r].parser].status
                                                           ELSE After(tx[r]).status,
                           !.at = clock + 1]]
    /\ UNCHANGED <<parsers, parser_versions, audit_logs>>

\* Fault: the history row is built from the state before the assignments.
AddedVersionsBefore(t) ==
    IF t.op = "update" THEN {}
    ELSE {[status |-> IF t.op = "register" THEN "DRAFT" ELSE t.loaded.status,
           version |-> After(t).version, at |-> t.at]}

\* The history row of t; update writes none.
AddedVersions(t) ==
    IF t.op = "update" THEN {}
    ELSE {[status |-> After(t).status, version |-> After(t).version, at |-> t.at]}

\* Fault: after_state is the snapshot taken before the assignments.
AuditEntryBefore(t) ==
    [actor |-> t.user, action |-> t.op, parser |-> t.parser,
     before |-> t.loaded.status, after |-> IF t.op = "register" THEN "DRAFT"
                                                               ELSE t.loaded.status,
     at |-> t.at]

AuditEntry(t) ==
    [actor |-> t.user, action |-> t.op, parser |-> t.parser,
     before |-> t.loaded.status, after |-> t.seen, at |-> t.at]

Commit(r) ==
    LET t == tx[r] IN
    /\ t.pc = "recorded"
    /\ parsers' = [parsers EXCEPT ![t.parser] = Written(@, t)]
    /\ parser_versions' = [parser_versions EXCEPT ![t.parser] = @ \cup AddedVersions(t)]
    /\ audit_logs' = audit_logs \cup {AuditEntry(t)}
    /\ tx' = [tx EXCEPT ![r] = IdleTx]
    /\ UNCHANGED clock

\* An exception, a lost connection or the death of the worker at any point:
\* the transaction is rolled back.
Abort(r) ==
    /\ tx[r].pc # "idle"
    /\ tx' = [tx EXCEPT ![r] = IdleTx]
    /\ UNCHANGED <<parsers, parser_versions, audit_logs, clock>>

Progress(r) == Flush(r) \/ ViolateUnique(r) \/ Record(r) \/ Commit(r)

Next ==
    \E r \in Requests :
        \/ Progress(r)
        \/ Abort(r) \/ Reject(r)
        \/ \E op \in Operations, u \in Users, p \in Parsers : Begin(r, op, u, p)

\* A handler that can run is run.  A flush that waits for a lock is woken in the
\* order of PostgreSQL's lock queue, so that others cannot overtake it forever:
\* hence strong fairness.
Fairness == \A r \in Requests : SF_vars(Progress(r))

Spec == Init /\ [][Next]_vars /\ Fairness

----------------------------------------------------------------------------
(* Properties.                                                             *)

\* The shape of rows, history, audit rows and transactions.
TypeOK ==
    /\ parsers \in [Parsers -> Row \cup {Absent}]
    /\ parser_versions \in [Parsers -> SUBSET VersionRow]
    /\ audit_logs \subseteq AuditRow
    /\ tx \in [Requests -> Tx \cup {IdleTx}]
    /\ clock \in Nat

\* Whatever stale rows concurrent requests write, a parser that is APPROVED,
\* ACTIVE, DISABLED or ROLLED_BACK carries the name of a user who may approve.
ApprovalRecorded ==
    \A p \in Parsers :
        parsers[p].status \in ApprovedStatus => parsers[p].approved_by \in Approvers

\* GET /parsers/{id}/history sorts by created_at: its newest row shows the
\* parser's current status (seeded parsers start without history).
HistoryEndsAtStatus ==
    \A p \in Parsers : \A v \in parser_versions[p] :
        (\A w \in parser_versions[p] : w.at <= v.at) => v.status = parsers[p].status

\* Two racing registrations of one parser_id never both succeed, and none
\* succeeds for a parser that exists.
RegisteredOnce ==
    \A a, b \in audit_logs :
        a.action = "register" /\ b.action = "register" /\ a.parser = b.parser => a = b

\* No status changes without an audit row of the same commit that names the
\* new status and an actor whose roles allow the operation.
StatusChangesAudited ==
    [][\A p \in Parsers :
          parsers'[p].status # parsers[p].status =>
             \E e \in audit_logs' \ audit_logs :
                /\ e.parser = p
                /\ e.after = parsers'[p].status
                /\ Permitted(e.actor, e.action)]_vars

\* A PUT of metadata that loaded the parser before a lifecycle operation and
\* commits after it does not undo that operation.
UpdateKeepsLifecycle ==
    [][\A e \in audit_logs' \ audit_logs :
          e.action = "update" =>
             /\ parsers'[e.parser].status = parsers[e.parser].status
             /\ parsers'[e.parser].approved_by = parsers[e.parser].approved_by]_vars

\* The committed status only ever moves along PARSER_TRANSITIONS.
LegalTransitions ==
    [][\A p \in Parsers :
          parsers[p] # Absent /\ parsers'[p].status # parsers[p].status =>
             <<parsers[p].status, parsers'[p].status>> \in PARSER_TRANSITIONS]_vars

\* A history row shows the state of the parser when it was written.
HistoryRowIsParserState ==
    [][\A p \in Parsers : \A v \in parser_versions'[p] \ parser_versions[p] :
          v.status = parsers'[p].status /\ v.version = parsers'[p].version]_vars

\* A request that has passed its checks ends: waiting for row locks never
\* leaves it hanging.
RequestsEnd == \A r \in Requests : (tx[r].pc = "loaded") ~> (tx[r].pc = "idle")

\* What the registry promises when requests do not overlap: the lifecycle.
Lifecycle_FSM == INSTANCE ParserFSM WITH
    status <- [p \in Parsers |-> parsers[p].status]
RefinesFSM == Lifecycle_FSM!Spec
============================================================================
