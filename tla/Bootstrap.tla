----------------------------- MODULE Bootstrap -----------------------------
(***************************************************************************)
(* The deployment scripts, which run beside the API and beside each other: *)
(*   migrate      scripts/migrate.py, one autocommitted CREATE TABLE IF    *)
(*                NOT EXISTS after the other                               *)
(*   alembic      alembic upgrade head, all tables in one transaction that *)
(*                ends with the stamp of revision 0001                     *)
(*   seed         scripts/seed.py, and                                     *)
(*   seed_direct  scripts/seed_direct.py: SELECT, then INSERT what is      *)
(*                missing, group by group, in one transaction.             *)
(* Each may be started at any time, as often as wanted, and may be killed  *)
(* at any step.                                                            *)
(***************************************************************************)
EXTENDS Database, Sequences

VARIABLES
    job,      \* job[s]: the script that process s runs, and where it is
    stamped   \* alembic_version holds revision 0001

bootVars == <<job, stamped>>

SeedKinds == {"seed", "seed_direct"}

\* pos is the table or the group in hand; phase tells the look at what exists
\* from the statement that creates it.
NoJob == [kind |-> "none", pos |-> 0, phase |-> "look"]
Job(kind, pos, phase) == [kind |-> kind, pos |-> pos, phase |-> phase]

First(i, set) == i \in set /\ \A j \in set : i <= j

Goes(s, kind, pos, phase) == job' = [job EXCEPT ![s] = Job(kind, pos, phase)]
Ends(s) == job' = [job EXCEPT ![s] = NoJob]

----------------------------------------------------------------------------
(* The tables of migrate.py and of revision 0001, in the order in which    *)
(* they are created.  Of the columns a table keeps its unique constraints  *)
(* and the tables its foreign keys refer to.                               *)

ScriptRoles == Table("roles", {"key"}, {})
\* Fault: the e-mail column is not UNIQUE.
ScriptUsersSharedEmail == Table("users", {"key"}, {})

ScriptUsers == Table("users", {"key", "val"}, {})

ScriptUserRoles == Table("user_roles", {"pair"}, {"users", "roles"})
ScriptAuditLogs == Table("audit_logs", {}, {})
ScriptReplayOperations == Table("replay_operations", {}, {})

\* Fault: the links of users and roles are created before the roles.
ScriptTablesMisordered ==
    << ScriptUsers, ScriptUserRoles, ScriptRoles,
       Table("sources", {"key"}, {}),
       Table("parsers", {"key"}, {}),
       Table("parser_versions", {}, {"parsers"}),
       Table("schemas", {}, {}),
       Table("schema_versions", {}, {"schemas"}),
       Table("mappings", {"key"}, {}),
       Table("mapping_versions", {}, {"mappings"}),
       Table("policies", {"key"}, {}),
       Table("policy_versions", {}, {"policies"}),
       Table("services", {"key"}, {}),
       Table("configuration_versions", {}, {}),
       ScriptAuditLogs, ScriptReplayOperations >>

ScriptTables ==
    << ScriptRoles, ScriptUsers, ScriptUserRoles,
       Table("sources", {"key"}, {}),
       Table("parsers", {"key"}, {}),
       Table("parser_versions", {}, {"parsers"}),
       Table("schemas", {}, {}),
       Table("schema_versions", {}, {"schemas"}),
       Table("mappings", {"key"}, {}),
       Table("mapping_versions", {}, {"mappings"}),
       Table("policies", {"key"}, {}),
       Table("policy_versions", {}, {"policies"}),
       Table("services", {"key"}, {}),
       Table("configuration_versions", {}, {}),
       ScriptAuditLogs, ScriptReplayOperations >>

AlembicRoles == Table("roles", {"key"}, {})
AlembicUsers == Table("users", {"key", "val"}, {})
AlembicUserRoles == Table("user_roles", {"pair"}, {"users", "roles"})
AlembicAuditLogs == Table("audit_logs", {}, {})
AlembicReplayOperations == Table("replay_operations", {}, {})

AlembicTables ==
    << AlembicRoles, AlembicUsers, AlembicUserRoles,
       Table("sources", {"key"}, {}),
       Table("parsers", {"key"}, {}),
       Table("parser_versions", {}, {"parsers"}),
       Table("schemas", {}, {}),
       Table("schema_versions", {}, {"schemas"}),
       Table("mappings", {"key"}, {}),
       Table("mapping_versions", {}, {"mappings"}),
       Table("policies", {"key"}, {}),
       Table("policy_versions", {}, {"policies"}),
       Table("services", {"key"}, {}),
       Table("configuration_versions", {}, {}),
       AlembicAuditLogs, AlembicReplayOperations >>

----------------------------------------------------------------------------
(* What the seed scripts insert, in their order: the four roles, the       *)
(* administrator with the link to its role, and the demonstration data,    *)
(* where one item stands for all the items of a table.  find is what the   *)
(* script looks up, along what it inserts with it.                         *)

Item(table, key, val) == [table |-> table, key |-> key, val |-> val]
Group(find, along) == [find |-> find, along |-> along]

SeedRoles == Group({Item("roles", r, "-") : r \in AllRoles}, {})
SeedAdmin == Group({Item("users", AdminUsername, AdminEmail)},
                   {Item("user_roles", AdminUsername, ADMIN)})
SeedSchemas == Group({Item("schemas", "ues", "-")},
                     {Item("schema_versions", "ues", "1.0.0")})

SeedGroups ==
    << SeedRoles, SeedAdmin,
       Group({Item("sources", "demo", "-")}, {}),
       Group({Item("parsers", "demo", "-")}, {}),
       SeedSchemas,
       Group({Item("mappings", "demo", "-")}, {}),
       Group({Item("policies", "demo", "-")}, {}),
       Group({Item("services", "demo", "-")}, {}) >>

DirectRoles == Group({Item("roles", r, "-") : r \in AllRoles}, {})
DirectAdmin == Group({Item("users", AdminUsername, AdminEmail)},
                     {Item("user_roles", AdminUsername, ADMIN)})
DirectSchemas == Group({Item("schemas", "ues", "-")},
                       {Item("schema_versions", "ues", "1.0.0")})

\* Fault: the administrator is inserted before the roles.
DirectGroupsMisordered ==
    << DirectAdmin, DirectRoles,
       Group({Item("sources", "demo", "-")}, {}),
       Group({Item("parsers", "demo", "-")}, {}),
       DirectSchemas,
       Group({Item("mappings", "demo", "-")}, {}),
       Group({Item("policies", "demo", "-")}, {}),
       Group({Item("services", "demo", "-")}, {}) >>

DirectGroups ==
    << DirectRoles, DirectAdmin,
       Group({Item("sources", "demo", "-")}, {}),
       Group({Item("parsers", "demo", "-")}, {}),
       DirectSchemas,
       Group({Item("mappings", "demo", "-")}, {}),
       Group({Item("policies", "demo", "-")}, {}),
       Group({Item("services", "demo", "-")}, {}) >>

Groups(kind) == IF kind = "seed" THEN SeedGroups ELSE DirectGroups

Items(g) == g.find \cup g.along
RowsFor(g, s) == {Row(i.table, i.key, i.val, s) : i \in Items(g)}

\* The tables that the statements about some items name.
TablesOf(items) == {i.table : i \in items}

\* The lookups of the group find all of it.  (A group is never found in part:
\* see SeedWhole.)
Found(g, s) ==
    \A i \in g.find : \E r \in rows \cup tx[s] : r.table = i.table /\ r.key = i.key

----------------------------------------------------------------------------
\* The process dies, or a statement fails: its open transaction is rolled back.
Kill(s) ==
    /\ job[s] # NoJob
    /\ Ends(s)
    /\ Rollback(s)
    /\ UNCHANGED stamped

----------------------------------------------------------------------------
(* migrate.py.                                                             *)

\* A table that a running alembic upgrade has created and not yet committed.
Pending(t) ==
    \E s \in Scripts :
        /\ job[s].kind = "alembic"
        /\ \E i \in 1..(job[s].pos - 1) : AlembicTables[i].name = t.name

\* The tables that CREATE TABLE IF NOT EXISTS does not find, from the i-th on.
\* (Tables are never dropped: those that exist are passed over in one step.)
MissingTables(i) ==
    {k \in i..Len(ScriptTables) : ScriptTables[k].name \notin TableNames}

\* The script finds a table to create; a run that finds none leaves no trace.
StartMigrate(s) ==
    /\ job[s] = NoJob
    /\ \E k \in 1..Len(ScriptTables) :
          First(k, MissingTables(1)) /\ Goes(s, "migrate", k, "write")
    /\ UNCHANGED <<stamped, dbVars>>

\* The next table that is not found, or none, and the end.
MigrateLook(s) ==
    /\ job[s].kind = "migrate"
    /\ job[s].phase = "look"
    /\ \/ MissingTables(job[s].pos) = {} /\ Ends(s)
       \/ \E k \in 1..Len(ScriptTables) :
             First(k, MissingTables(job[s].pos)) /\ Goes(s, "migrate", k, "write")
    /\ UNCHANGED <<stamped, dbVars>>

\* IF NOT EXISTS takes no lock: a table that another process has created since
\* the look makes the statement fail, and with it the script.  After the last
\* table come the indexes, which constrain nothing, and the end.
MigrateCreate(s) ==
    LET t == ScriptTables[job[s].pos] IN
    /\ job[s].kind = "migrate"
    /\ job[s].phase = "write"
    /\ ~ Pending(t)
    /\ schema' = IF t.name \in TableNames THEN schema ELSE schema \cup {t}
    /\ IF t.name \in TableNames \/ job[s].pos = Len(ScriptTables)
       THEN Ends(s)
       ELSE Goes(s, "migrate", job[s].pos + 1, "look")
    /\ UNCHANGED <<stamped, rows, tx>>

----------------------------------------------------------------------------
(* alembic upgrade head.                                                   *)

\* A stamped database is up to date.  The upgrade creates alembic_version first:
\* it waits for another upgrade that has done so, and fails, with no trace, when
\* that one has committed.  It fails without a trace, too, when migrate.py has
\* created the first of its tables.
StartAlembic(s) ==
    /\ job[s] = NoJob
    /\ ~ stamped
    /\ AlembicTables[1].name \notin TableNames
    /\ \A q \in Scripts : job[q].kind # "alembic"
    /\ Goes(s, "alembic", 1, "write")
    /\ UNCHANGED <<stamped, dbVars>>

\* op.create_table fails on a table that exists.
AlembicCreate(s) ==
    /\ job[s].kind = "alembic"
    /\ job[s].pos \in 1..Len(AlembicTables)
    /\ IF AlembicTables[job[s].pos].name \in TableNames
       THEN Ends(s)
       ELSE Goes(s, "alembic", job[s].pos + 1, "write")
    /\ UNCHANGED <<stamped, dbVars>>

AlembicCommit(s) ==
    /\ job[s].kind = "alembic"
    /\ job[s].pos = Len(AlembicTables) + 1
    /\ schema' = schema \cup {AlembicTables[i] : i \in 1..Len(AlembicTables)}
    /\ stamped' = TRUE
    /\ Ends(s)
    /\ UNCHANGED <<rows, tx>>

----------------------------------------------------------------------------
(* seed.py and seed_direct.py.                                             *)

Seeding(s) == job[s].kind \in SeedKinds
GroupAt(s) == Groups(job[s].kind)[job[s].pos]

\* The groups that the lookups do not find, from the i-th on; those that are
\* found are passed over in one step.  (No script deletes a row.  An
\* administrator may delete a seeded source by DELETE /api/v1/sources/{id}, which
\* is not modelled: what is said of seeds holds while nobody has done so.)
MissingGroups(s, kind, i) ==
    {k \in i..Len(Groups(kind)) : ~ Found(Groups(kind)[k], s)}

\* The lookup of the k-th group has its tables.
Selectable(kind, k) == TablesOf(Groups(kind)[k].find) \subseteq TableNames

\* The script finds something to insert.  A run that finds everything in place,
\* or no table, leaves no trace.
StartSeed(s, kind) ==
    /\ job[s] = NoJob
    /\ \E k \in 1..Len(Groups(kind)) :
          /\ First(k, MissingGroups(s, kind, 1))
          /\ Selectable(kind, k)
          /\ Goes(s, kind, k, "write")
    /\ UNCHANGED <<stamped, dbVars>>

SeedLook(s) ==
    LET kind == job[s].kind
        missing == MissingGroups(s, kind, job[s].pos)
    IN
    /\ Seeding(s)
    /\ job[s].phase = "look"
    /\ \/ missing = {} /\ Goes(s, kind, Len(Groups(kind)) + 1, "commit")
       \/ \E k \in 1..Len(Groups(kind)) :
             First(k, missing) /\ Selectable(kind, k) /\ Goes(s, kind, k, "write")
    /\ UNCHANGED <<stamped, dbVars>>

\* Fault: the script autocommits, like migrate.py.
SeedWriteAutocommitted(s) ==
    LET new == RowsFor(GroupAt(s), s) IN
    /\ Seeding(s)
    /\ job[s].phase = "write"
    /\ TablesOf(Items(GroupAt(s))) \subseteq TableNames
    /\ ~ Locked(s, new)
    /\ ~ Taken(new)
    /\ rows' = rows \cup new
    /\ Goes(s, job[s].kind, job[s].pos + 1, "look")
    /\ UNCHANGED <<stamped, schema, tx>>

SeedWrite(s) ==
    LET new == RowsFor(GroupAt(s), s) IN
    /\ Seeding(s)
    /\ job[s].phase = "write"
    /\ TablesOf(Items(GroupAt(s))) \subseteq TableNames
    /\ ~ Locked(s, new)
    /\ ~ Taken(new)
    /\ Insert(s, new)
    /\ Goes(s, job[s].kind, job[s].pos + 1, "look")
    /\ UNCHANGED stamped

\* Fault: the error is caught, and what was inserted is committed.
SeedFailsCommitted(s) ==
    LET new == RowsFor(GroupAt(s), s) IN
    /\ Seeding(s)
    /\ job[s].phase = "write"
    /\ \/ ~ TablesOf(Items(GroupAt(s))) \subseteq TableNames
       \/ ~ Locked(s, new) /\ Taken(new)
    /\ Ends(s)
    /\ Commit(s)
    /\ UNCHANGED stamped

\* A missing table or a unique key that is taken ends the script.
SeedFails(s) ==
    LET kind == job[s].kind
        new == RowsFor(GroupAt(s), s)
    IN
    /\ Seeding(s)
    /\ \/ /\ job[s].phase = "look"
          /\ \E k \in 1..Len(Groups(kind)) :
                First(k, MissingGroups(s, kind, job[s].pos)) /\ ~ Selectable(kind, k)
       \/ /\ job[s].phase = "write"
          /\ \/ ~ TablesOf(Items(GroupAt(s))) \subseteq TableNames
             \/ ~ Locked(s, new) /\ Taken(new)
    /\ Ends(s)
    /\ Rollback(s)
    /\ UNCHANGED stamped

SeedCommit(s) ==
    /\ Seeding(s)
    /\ job[s].phase = "commit"
    /\ Commit(s)
    /\ Ends(s)
    /\ UNCHANGED stamped

----------------------------------------------------------------------------
BootstrapInit == job = [s \in Scripts |-> NoJob] /\ stamped = FALSE

StartScript(s) ==
    StartMigrate(s) \/ StartAlembic(s) \/ \E kind \in SeedKinds : StartSeed(s, kind)

ScriptStep(s) ==
    \/ MigrateLook(s) \/ MigrateCreate(s)
    \/ AlembicCreate(s) \/ AlembicCommit(s)
    \/ SeedLook(s) \/ SeedWrite(s) \/ SeedFails(s) \/ SeedCommit(s)

JobType ==
    [kind : {"none", "migrate", "alembic"} \cup SeedKinds, pos : 0..17, phase : {"look", "write", "commit"}]

----------------------------------------------------------------------------
(* Properties.                                                             *)

\* The tables come in an order that their foreign keys allow, whichever
\* migrations ran together or died half-way, and a stamped database has all of
\* them (migrate.py:26-240, 0001_initial_schema.py:23-289).
MigrationClosed ==
    /\ \A t \in schema : t.refs \subseteq TableNames
    /\ stamped => \A i \in 1..Len(AlembicTables) : AlembicTables[i] \in schema

\* The rows of the seed scripts.
Seeded == {r \in rows : r.by \in Scripts}

\* Seeding is all or nothing: whatever scripts race, fail on a database that is
\* migrated only in part, or are killed, the roles, the administrator with its
\* role and the demonstration data are committed together or not at all
\* (seed.py:229, seed_direct.py:202).  Of the demonstration data an administrator
\* may delete the sources later (api/sources.py:87); this holds until then.
SeedWhole ==
    Seeded # {} =>
        \A i \in 1..Len(SeedGroups) : \A it \in Items(SeedGroups[i]) :
            \E r \in Seeded : r.table = it.table /\ r.key = it.key /\ r.val = it.val

\* Nothing is seeded twice, not even the schema ues, whose name has no unique
\* constraint: two racing seeds meet on the unique keys that come before it
\* (seed.py:192-202, seed_direct.py:119-141).  A seed that runs after a seeded
\* source was deleted (api/sources.py:87) inserts that source again and commits;
\* this holds until then.
SeededOnce ==
    \A a, b \in Seeded : a.table = b.table /\ a.key = b.key => a = b
=============================================================================
