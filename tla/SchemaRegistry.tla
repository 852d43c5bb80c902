---------------------------- MODULE SchemaRegistry ----------------------------
(***************************************************************************)
(* The schema registry: POST /schemas creates a named schema, with a first *)
(* version or without, and POST /schemas/{name}/versions adds one.  Neither*)
(* schemas.name nor (schema_id, version) has a unique index: uniqueness of *)
(* names rests on a SELECT before the INSERT and on get_by_name after it,  *)
(* which raises when it finds two rows.  Requests run in READ COMMITTED    *)
(* transactions: they see committed rows and their own.                    *)
(*                                                                         *)
(* No request is served before a seed script has committed the first       *)
(* account, and with it the schema ues, which no audit row reports.        *)
(***************************************************************************)
EXTENDS Integers, FiniteSets

CONSTANTS
    Sessions,    \* the database sessions that serve requests
    Names,       \* schema names
    Versions,    \* version labels
    NoVersion,   \* no version given
    Ues,         \* the name of the seeded schema
    UesVersion,  \* the label of its seeded version
    Serial,      \* TRUE: one request at a time
    MaxId        \* bound: rows ever inserted

ASSUME ParametersAssumption ==
    NoVersion \notin Versions /\ Serial \in BOOLEAN /\ MaxId \in Nat

ASSUME SessionsAssumption == IsFiniteSet(Sessions)
ASSUME SeedAssumption == Ues \in Names /\ UesVersion \in Versions

VARIABLES
    schemas,          \* the committed schemas rows
    schema_versions,  \* the committed schema_versions rows
    audit_logs,       \* the committed audit rows, each with the id of the row it reports
    tx,               \* the request each session serves
    last_id           \* the ids handed out so far

vars == <<schemas, schema_versions, audit_logs, tx, last_id>>

SchemaRow == [id : Nat, name : Names]
VersionRow == [id : Nat, schema : Nat, version : Versions]
AuditRow == [action : {"SCHEMA_CREATED", "SCHEMA_VERSION_ADDED"}, name : Names, row : Nat]

IdleTx == [pc |-> "idle"]
Tx == [pc : {"checked", "inserted", "ready"}, op : {"create", "add_version"}, name : Names,
       version : Versions \cup {NoVersion}, schema : Nat,
       schemas : SUBSET SchemaRow, versions : SUBSET VersionRow, audit : SUBSET AuditRow]

Busy == {s \in Sessions : tx[s] # IdleTx}

\* Fault: the lookup joins the versions, and loses schemas that have none.
NamedWithVersions(name) ==
    {r \in schemas : r.name = name /\ \E v \in schema_versions : v.schema = r.id}

\* The committed rows that a lookup by name finds.
Named(name) == {r \in schemas : r.name = name}

\* The rows of the seed scripts, which write no audit row.
SeededSchema == [id |-> 1, name |-> Ues]
SeededVersion == [id |-> 2, schema |-> 1, version |-> UesVersion]

Init ==
    /\ schemas = {SeededSchema}
    /\ schema_versions = {SeededVersion}
    /\ audit_logs = {}
    /\ tx = [s \in Sessions |-> IdleTx]
    /\ last_id = 2

----------------------------------------------------------------------------
(* The steps of a request.                                                 *)

\* A request under way has inserted nothing yet.
NewTx(pc, op, name, version, schema) ==
    [pc |-> pc, op |-> op, name |-> name, version |-> version, schema |-> schema,
     schemas |-> {}, versions |-> {}, audit |-> {}]

NameExists(name) == Named(name) # {}

\* create: the SELECT count that guards against a name in use.
BeginCreate(s, name, version) ==
    /\ tx[s] = IdleTx
    /\ Serial => Busy = {}
    /\ ~NameExists(name)
    /\ tx' = [tx EXCEPT ![s] = NewTx("checked", "create", name, version, 0)]
    /\ UNCHANGED <<schemas, schema_versions, audit_logs, last_id>>

\* add_version: get_by_name must find one row; the version label is not checked.
BeginAddVersion(s, name, version) ==
    /\ tx[s] = IdleTx
    /\ Serial => Busy = {}
    /\ \E r \in Named(name) :
          /\ Named(name) = {r}
          /\ tx' = [tx EXCEPT ![s] = NewTx("checked", "add_version", name, version, r.id)]
    /\ UNCHANGED <<schemas, schema_versions, audit_logs, last_id>>

Refused(op, name) ==
    \/ op = "create" /\ NameExists(name)
    \/ op = "add_version" /\ Cardinality(Named(name)) # 1

\* 409, 404, or the 500 of a name with several rows.
Reject(s, op, name) ==
    /\ tx[s] = IdleTx
    /\ Refused(op, name)
    /\ UNCHANGED vars

\* Fault: the initial version is inserted whether or not it is given.
InsertSchemaAlwaysVersioned(s) ==
    /\ tx[s].pc = "checked" /\ tx[s].op = "create"
    /\ last_id + 2 <= MaxId
    /\ LET t == tx[s]
       IN tx' = [tx EXCEPT ![s] =
                    [t EXCEPT !.pc = "inserted",
                              !.schemas = {[id |-> last_id + 1, name |-> t.name]},
                              !.versions = {[id |-> last_id + 2, schema |-> last_id + 1,
                                             version |-> t.version]},
                              !.audit = {[action |-> "SCHEMA_CREATED", name |-> t.name,
                                          row |-> last_id + 1]}]]
    /\ last_id' = last_id + 2
    /\ UNCHANGED <<schemas, schema_versions, audit_logs>>

\* Fault: audit rows are committed by a session of their own.
InsertSchemaAuditsAtOnce(s) ==
    /\ tx[s].pc = "checked" /\ tx[s].op = "create"
    /\ last_id + 2 <= MaxId
    /\ LET t == tx[s]
           first == IF t.version = NoVersion THEN {}
                    ELSE {[id |-> last_id + 2, schema |-> last_id + 1, version |-> t.version]}
       IN tx' = [tx EXCEPT ![s] =
                    [t EXCEPT !.pc = "inserted",
                              !.schemas = {[id |-> last_id + 1, name |-> t.name]},
                              !.versions = first]]
    /\ audit_logs' = audit_logs \cup
          {[action |-> "SCHEMA_CREATED", name |-> tx[s].name, row |-> last_id + 1]}
    /\ last_id' = last_id + 2
    /\ UNCHANGED <<schemas, schema_versions>>

\* create: the INSERTs of the schema, its initial version and the audit row.
InsertSchema(s) ==
    /\ tx[s].pc = "checked" /\ tx[s].op = "create"
    /\ last_id + 2 <= MaxId
    /\ LET t == tx[s]
           first == IF t.version = NoVersion THEN {}
                    ELSE {[id |-> last_id + 2, schema |-> last_id + 1, version |-> t.version]}
       IN tx' = [tx EXCEPT ![s] =
                    [t EXCEPT !.pc = "inserted",
                              !.schemas = {[id |-> last_id + 1, name |-> t.name]},
                              !.versions = first,
                              !.audit = {[action |-> "SCHEMA_CREATED", name |-> t.name,
                                          row |-> last_id + 1]}]]
    /\ last_id' = last_id + 2
    /\ UNCHANGED <<schemas, schema_versions, audit_logs>>

\* create ends with get_by_name, which sees its own row and the committed ones.
FetchSchema(s) ==
    /\ tx[s].pc = "inserted"
    /\ tx' = [tx EXCEPT ![s] =
                 IF Named(tx[s].name) = {} THEN [tx[s] EXCEPT !.pc = "ready"] ELSE IdleTx]
    /\ UNCHANGED <<schemas, schema_versions, audit_logs, last_id>>

\* add_version: the INSERTs of the version and the audit row.
InsertVersion(s) ==
    /\ tx[s].pc = "checked" /\ tx[s].op = "add_version"
    /\ last_id + 1 <= MaxId
    /\ LET t == tx[s]
       IN tx' = [tx EXCEPT ![s] =
                    [t EXCEPT !.pc = "ready",
                              !.versions = {[id |-> last_id + 1, schema |-> t.schema,
                                             version |-> t.version]},
                              !.audit = {[action |-> "SCHEMA_VERSION_ADDED", name |-> t.name,
                                          row |-> last_id + 1]}]]
    /\ last_id' = last_id + 1
    /\ UNCHANGED <<schemas, schema_versions, audit_logs>>

Commit(s) ==
    /\ tx[s].pc = "ready"
    /\ schemas' = schemas \cup tx[s].schemas
    /\ schema_versions' = schema_versions \cup tx[s].versions
    /\ audit_logs' = audit_logs \cup tx[s].audit
    /\ tx' = [tx EXCEPT ![s] = IdleTx]
    /\ UNCHANGED last_id

\* An exception, a lost connection or the death of the worker: rollback.
Abort(s) ==
    /\ tx[s] # IdleTx
    /\ tx' = [tx EXCEPT ![s] = IdleTx]
    /\ UNCHANGED <<schemas, schema_versions, audit_logs, last_id>>

Next ==
    \E s \in Sessions :
        \/ InsertSchema(s) \/ FetchSchema(s) \/ InsertVersion(s) \/ Commit(s) \/ Abort(s)
        \/ \E name \in Names :
              \/ \E op \in {"create", "add_version"} : Reject(s, op, name)
              \/ \E version \in Versions \cup {NoVersion} : BeginCreate(s, name, version)
              \/ \E version \in Versions : BeginAddVersion(s, name, version)

Spec == Init /\ [][Next]_vars

----------------------------------------------------------------------------
(* Properties.                                                             *)

\* The shape of rows and transactions.
TypeOK ==
    /\ schemas \subseteq SchemaRow
    /\ schema_versions \subseteq VersionRow
    /\ audit_logs \subseteq AuditRow
    /\ tx \in [Sessions -> Tx \cup {IdleTx}]
    /\ last_id \in Nat

\* How many rows a name may get when K creations of it overlap: the seeded
\* name has its row before any request is served.
Limit(K, name) == IF name = Ues THEN 1 ELSE K

\* Racing creations can give a name several rows, but never more than there
\* are sessions, and the seeded name none: no request that starts once a row
\* is committed adds another (schema_registry.py:24-26).
DuplicatesBounded ==
    \A name \in Names :
        Cardinality({r \in schemas : r.name = name}) <= Limit(Cardinality(Sessions), name)

\* The audit rows of an action.
Audited(action) == {e \in audit_logs : e.action = action}

\* The schemas that the audit log reports as created are the committed ones
\* that requests created, by id and name, whatever was rolled back: all but
\* the seeded one.  An added version that it reports is committed, under a
\* committed schema of the name it gives (schema_registry.py:26-41, 51-63).
CreationsAudited ==
    /\ {[id |-> e.row, name |-> e.name] : e \in Audited("SCHEMA_CREATED")}
          = schemas \ {SeededSchema}
    /\ \A e \in Audited("SCHEMA_VERSION_ADDED") :
          \E v \in schema_versions, r \in schemas :
              v.id = e.row /\ v.schema = r.id /\ r.name = e.name

\* GET /schemas/{name} finds at most the one row that get_by_name can return.
NameServed == \A name \in Names : Cardinality({r \in schemas : r.name = name}) <= 1
=============================================================================
