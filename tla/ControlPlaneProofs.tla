-------------------------- MODULE ControlPlaneProofs --------------------------
(* Theorems about ControlPlane for any scripts, workers, bodies of requests    *)
(* and replay operations, and any number of processes at work.                 *)
EXTENDS ControlPlane, TLAPS

Tables == {ScriptTables[i] : i \in 1..16}

----------------------------------------------------------------------------
(* The steps, by who takes them.                                           *)

\* A step of a script.
BootStep(s) == StartScript(s) \/ ScriptStep(s) \/ Kill(s)

\* A step of a worker, its producer included.
ApiStep(w) ==
    \/ /\ \/ \E u \in Users : Login(w, u)
          \/ \E u \in tokens, f \in Forms : CreateUser(w, u, f)
          \/ AccountStep(w)
       /\ UNCHANGED replayVars
    \/ \E u \in tokens, id \in ReplayIds : RequestReplay(w, u, id)
    \/ ReplayStep(w)
    \/ Deliver(w) \/ TimeOut(w)
    \/ LoseConnection(w) \/ Crash(w)

LEMMA StepCases ==
    ASSUME [Next]_vars
    PROVE  \/ UNCHANGED vars
           \/ \E s \in Scripts : BootStep(s) /\ UNCHANGED <<accountVars, replayVars>>
           \/ \E w \in Workers : ApiStep(w) /\ UNCHANGED bootVars
<1>1. CASE Begin
  BY <1>1 DEF Begin, BootStep, ApiStep
<1>2. CASE Disturb
  BY <1>2 DEF Disturb, BootStep, ApiStep
<1>3. CASE \E s \in Scripts : ScriptGoes(s)
  BY <1>3 DEF ScriptGoes, BootStep
<1>4. CASE \E w \in Workers : RequestGoes(w) \/ ProducerGoes(w)
  BY <1>4 DEF RequestGoes, ProducerGoes, ApiStep
<1> QED BY <1>1, <1>2, <1>3, <1>4 DEF Next

----------------------------------------------------------------------------
(* The tables and the groups of rows of the scripts.                       *)

LEMMA TablesKnown ==
    /\ Len(ScriptTables) = 16 /\ AlembicTables = ScriptTables
  BY DEF ScriptTables, AlembicTables, ScriptRoles, ScriptUsers, ScriptUserRoles,
         ScriptAuditLogs, ScriptReplayOperations, AlembicRoles, AlembicUsers,
         AlembicUserRoles, AlembicAuditLogs, AlembicReplayOperations

LEMMA GroupsKnown ==
    /\ Len(SeedGroups) = 8
    /\ \A kind : Groups(kind) = SeedGroups
  BY DEF Groups, SeedGroups, DirectGroups, SeedRoles, SeedAdmin, SeedSchemas,
         DirectRoles, DirectAdmin, DirectSchemas

----------------------------------------------------------------------------
(* Types.                                                                  *)

\* Where a script can be.
JobOK(j) ==
    /\ j.kind = "migrate" /\ j.phase = "write" => j.pos \in 1..16
    /\ j.kind = "alembic" => j.pos \in 1..17
    /\ j.kind \in SeedKinds =>
          \/ j.phase = "write" /\ j.pos \in 1..8
          \/ j.phase = "look" /\ j.pos \in 2..9
          \/ j.phase = "commit" /\ j.pos = 9

TypeInv ==
    /\ TypeOK
    /\ DOMAIN tx = Procs
    /\ DOMAIN who = Workers
    /\ \A s \in Scripts : JobOK(job[s])
    /\ \A w \in Workers : at[w] \in ReplaySteps => replay[w] \in ReplayIds

\* What the steps of a script do to the rows, the types and the workers.
LEMMA BootTypes ==
    ASSUME TypeInv, NEW s \in Scripts, BootStep(s)
    PROVE  /\ schema' \subseteq Tables /\ schema \subseteq schema'
           /\ job' \in [Scripts -> JobType]
           /\ stamped' \in BOOLEAN
           /\ DOMAIN tx' = Procs
           /\ \A q \in Scripts : JobOK(job'[q])
           /\ \A p \in Procs \ {s} : tx'[p] = tx[p]
           /\ \A q \in Scripts \ {s} : job'[q] = job[q]
<1> USE DEF TypeInv, TypeOK, dbVars
<1>1. /\ job[s] \in JobType /\ JobOK(job[s])
      /\ schema \subseteq Tables /\ s \in Procs /\ s \in DOMAIN tx
      /\ ScriptTables = AlembicTables /\ Len(AlembicTables) = 16
      /\ \A kind : Len(Groups(kind)) = 8
  BY TablesKnown, GroupsKnown DEF Tables, Procs
<1>2. \A k \in 1..16 : Job("migrate", k, "write") \in JobType /\ JobOK(Job("migrate", k, "write"))
  BY DEF JobType, JobOK, Job, SeedKinds
<1>3. \A k \in 1..17 : Job("alembic", k, "write") \in JobType /\ JobOK(Job("alembic", k, "write"))
  BY DEF JobType, JobOK, Job, SeedKinds
<1>4. ASSUME NEW kind \in SeedKinds
      PROVE  /\ \A k \in 1..8 : Job(kind, k, "write") \in JobType /\ JobOK(Job(kind, k, "write"))
             /\ \A k \in 2..9 : Job(kind, k, "look") \in JobType /\ JobOK(Job(kind, k, "look"))
             /\ Job(kind, 9, "commit") \in JobType /\ JobOK(Job(kind, 9, "commit"))
  BY DEF JobType, JobOK, Job, SeedKinds
<1>5. NoJob \in JobType /\ JobOK(NoJob)
  BY DEF JobType, JobOK, NoJob, SeedKinds
<1>6. \A k \in 1..16 : Job("migrate", k + 1, "look") \in JobType /\ JobOK(Job("migrate", k + 1, "look"))
  BY DEF JobType, JobOK, Job, SeedKinds
<1>7. ASSUME NEW j \in JobType, JobOK(j), job' = [job EXCEPT ![s] = j]
      PROVE  /\ job' \in [Scripts -> JobType]
             /\ \A q \in Scripts : JobOK(job'[q])
             /\ \A q \in Scripts \ {s} : job'[q] = job[q]
  BY <1>7
<1>8. ASSUME NEW X, tx' = [tx EXCEPT ![s] = X]
      PROVE  DOMAIN tx' = Procs /\ \A p \in Procs \ {s} : tx'[p] = tx[p]
  BY <1>8
<1>9. CASE StartMigrate(s) \/ MigrateLook(s)
  BY <1>1, <1>2, <1>5, <1>7, <1>9 DEF StartMigrate, MigrateLook, Goes, Ends
<1>10. CASE MigrateCreate(s)
  <2>1. job[s].pos \in 1..16 /\ ScriptTables[job[s].pos] \in Tables
    BY <1>1, <1>10 DEF MigrateCreate, JobOK, Tables
  <2>2. /\ schema' \in {schema, schema \cup {ScriptTables[job[s].pos]}}
        /\ UNCHANGED <<stamped, rows, tx>>
        /\ Ends(s) \/ Goes(s, "migrate", job[s].pos + 1, "look")
    BY <1>10 DEF MigrateCreate
  <2>3. schema' \subseteq Tables /\ schema \subseteq schema'
    BY <1>1, <2>1, <2>2
  <2> QED BY <1>1, <1>5, <1>6, <1>7, <2>1, <2>2, <2>3 DEF Goes, Ends
<1>11. CASE StartAlembic(s) \/ AlembicCreate(s)
  BY <1>1, <1>3, <1>5, <1>7, <1>11 DEF StartAlembic, AlembicCreate, Goes, Ends
<1>12. CASE AlembicCommit(s)
  BY <1>1, <1>5, <1>7, <1>12 DEF AlembicCommit, Goes, Ends, Tables
<1>13. CASE (\E kind \in SeedKinds : StartSeed(s, kind)) \/ SeedLook(s)
  <2>1. UNCHANGED <<stamped, dbVars>>
    BY <1>13 DEF StartSeed, SeedLook
  <2>2. \E kind \in SeedKinds, k \in 1..8 :
           Goes(s, kind, k, "write") \/ Goes(s, kind, 9, "commit")
    <3>1. ASSUME NEW kind \in SeedKinds, StartSeed(s, kind)
          PROVE  \E k \in 1..8 : Goes(s, kind, k, "write")
      BY <1>1, <3>1 DEF StartSeed
    <3>2. ASSUME SeedLook(s)
          PROVE  \E k \in 1..8 : Goes(s, job[s].kind, k, "write") \/ Goes(s, job[s].kind, 9, "commit")
      <4>1. Len(Groups(job[s].kind)) = 8 /\ 8 + 1 = 9
        BY <1>1
      <4> QED BY <3>2, <4>1 DEF SeedLook
    <3>3. SeedLook(s) => job[s].kind \in SeedKinds
      BY DEF SeedLook, Seeding
    <3> QED BY <1>13, <3>1, <3>2, <3>3
  <2>3. \E j \in JobType : JobOK(j) /\ job' = [job EXCEPT ![s] = j]
    BY <1>4, <2>2 DEF Goes
  <2> QED BY <1>1, <1>7, <2>1, <2>3
<1>14. CASE SeedWrite(s)
  <2>1. job[s].pos \in 1..8 /\ job[s].kind \in SeedKinds
    BY <1>1, <1>14 DEF SeedWrite, Seeding, JobOK
  <2>2. job[s].pos + 1 \in 2..9
    BY <2>1
  <2> QED BY <1>1, <1>4, <1>7, <1>8, <1>14, <2>1, <2>2 DEF SeedWrite, Goes, Insert
<1>15. CASE SeedFails(s) \/ SeedCommit(s) \/ Kill(s)
  BY <1>1, <1>5, <1>7, <1>8, <1>15
     DEF SeedFails, SeedCommit, Kill, Ends, Rollback, Commit, CommitWith
<1> QED
  BY <1>9, <1>10, <1>11, <1>12, <1>13, <1>14, <1>15 DEF BootStep, StartScript, ScriptStep

\* What the steps of a worker do to the types and to everybody else.
LEMMA ApiTypes ==
    ASSUME TypeInv, NEW w \in Workers, ApiStep(w)
    PROVE  /\ UNCHANGED schema
           /\ at' \in [Workers -> AccountSteps \cup ReplaySteps]
           /\ form' \in [Workers -> Forms \cup {NoForm}]
           /\ replay' \in [Workers -> ReplayIds \cup {NoReplay}]
           /\ issued' \subseteq ReplayIds /\ UNCHANGED kafka_enabled
           /\ buffer' \in [Workers -> SUBSET ReplayIds]
           /\ topic' \subseteq ReplayIds /\ lost' \subseteq ReplayIds
           /\ DOMAIN tx' = Procs /\ DOMAIN who' = Workers
           /\ \A p \in Procs \ {w} : tx'[p] = tx[p]
           /\ \A v \in Workers \ {w} :
                 at'[v] = at[v] /\ who'[v] = who[v] /\ form'[v] = form[v] /\ replay'[v] = replay[v]
           /\ \A v \in Workers : at'[v] = "idle" => tx'[v] = {}
           /\ \A v \in Workers : at'[v] \in ReplaySteps => replay'[v] \in ReplayIds
<1> USE DEF TypeInv, TypeOK, dbVars, accountVars, replayVars, kafkaVars
<1>1. w \in Procs /\ w \in DOMAIN tx /\ w \in DOMAIN who /\ Workers \subseteq Procs
  BY DEF Procs
<1>2. CASE \E u \in Users : Login(w, u) /\ UNCHANGED replayVars
  BY <1>1, <1>2 DEF Login, Insert, AccountSteps, ReplaySteps
<1>3. CASE \E u \in tokens, f \in Forms : CreateUser(w, u, f) /\ UNCHANGED replayVars
  BY <1>1, <1>3 DEF CreateUser, AccountSteps, ReplaySteps
<1>4. CASE LoginCommit(w) /\ UNCHANGED replayVars
  BY <1>1, <1>4 DEF LoginCommit, Answers, Commit, CommitWith, AccountSteps, ReplaySteps
<1>5. CASE InsertUser(w) /\ UNCHANGED replayVars
  BY <1>1, <1>5 DEF InsertUser, Fails, Answers, Rollback, Insert, Moves, AccountSteps, ReplaySteps
<1>6. CASE GetRole(w) /\ UNCHANGED replayVars
  BY <1>1, <1>6 DEF GetRole, Moves, AccountSteps, ReplaySteps
<1>7. CASE CreateRole(w) /\ UNCHANGED replayVars
  BY <1>1, <1>7 DEF CreateRole, Fails, Answers, Rollback, Insert, Moves, AccountSteps, ReplaySteps
<1>8. CASE AssignRole(w) /\ UNCHANGED replayVars
  BY <1>1, <1>8 DEF AssignRole, Answers, CommitWith, AccountSteps, ReplaySteps
<1>9. CASE \E u \in tokens, id \in ReplayIds : RequestReplay(w, u, id)
  BY <1>1, <1>9 DEF RequestReplay, Insert, AccountSteps, ReplaySteps
<1>10. CASE PublishNowhere(w) \/ PublishFails(w)
  BY <1>1, <1>10 DEF PublishNowhere, PublishFails, MarkQueued, Moves, AccountSteps, ReplaySteps
<1>11. CASE Publish(w)
  BY <1>1, <1>11 DEF Publish, MarkQueued, Moves, AccountSteps, ReplaySteps
<1>12. CASE ReplayCommit(w)
  BY <1>1, <1>12 DEF ReplayCommit, ReplayAnswers, Answers, CommitWith, AccountSteps, ReplaySteps
<1>13. CASE Deliver(w) \/ TimeOut(w)
  BY <1>1, <1>13 DEF Deliver, TimeOut
<1>14. CASE LoseConnection(w) \/ Crash(w)
  BY <1>1, <1>14 DEF LoseConnection, Crash, ReplayAnswers, Answers, Rollback, AccountSteps, ReplaySteps
<1> QED
  BY <1>2, <1>3, <1>4, <1>5, <1>6, <1>7, <1>8, <1>9, <1>10, <1>11, <1>12, <1>13, <1>14
     DEF ApiStep, AccountStep, ReplayStep

\* Types, and where scripts and requests can be.
THEOREM TypeInvariant == Spec => []TypeInv
<1>1. Init => TypeInv
  <2>1. NoJob \in JobType /\ JobOK(NoJob)
    BY DEF NoJob, JobType, JobOK, SeedKinds
  <2>2. "idle" \in AccountSteps /\ "idle" \notin ReplaySteps
    BY DEF AccountSteps, ReplaySteps
  <2>3. ASSUME Init PROVE TypeOK
    BY <2>1, <2>2, <2>3
       DEF Init, DatabaseInit, BootstrapInit, AccountsInit, ReplayInit, TypeOK, Procs
  <2> QED
    BY <2>1, <2>2, <2>3
       DEF Init, DatabaseInit, BootstrapInit, AccountsInit, ReplayInit, TypeInv
<1>2. TypeInv /\ [Next]_vars => TypeInv'
  <2> SUFFICES ASSUME TypeInv, [Next]_vars PROVE TypeInv'
    OBVIOUS
  <2>1. {ScriptTables[i] : i \in 1..Len(ScriptTables)} = Tables
    BY TablesKnown DEF Tables
  <2>2. CASE UNCHANGED vars
    BY <2>2 DEF vars, dbVars, bootVars, accountVars, replayVars, TypeInv, TypeOK
  <2>3. ASSUME NEW s \in Scripts, BootStep(s), UNCHANGED <<accountVars, replayVars>>
        PROVE  TypeInv'
    <3>1. \A w \in Workers : tx'[w] = tx[w]
      BY <2>3, BootTypes, ProcsAssumption DEF Procs
    <3> QED BY <2>1, <2>3, <3>1, BootTypes DEF TypeInv, TypeOK, accountVars, replayVars
  <2>4. ASSUME NEW w \in Workers, ApiStep(w), UNCHANGED bootVars
        PROVE  TypeInv'
    BY <2>1, <2>4, ApiTypes DEF TypeInv, TypeOK, bootVars
  <2> QED BY <2>2, <2>3, <2>4, StepCases
<1> QED BY <1>1, <1>2, PTL DEF Spec

\* Tables, scripts, requests, producers and messages keep their shape, and an
\* idle worker has no open transaction.
THEOREM TypeCorrect == Spec => []TypeOK
<1>1. TypeInv => TypeOK
  BY DEF TypeInv
<1> QED BY <1>1, TypeInvariant, PTL

----------------------------------------------------------------------------
(* Migrations.                                                             *)

\* A table refers to earlier tables only.
LEMMA RefsEarlier ==
    \A i \in 1..16 : \A n \in ScriptTables[i].refs :
        \E j \in 1..16 : j < i /\ ScriptTables[j].name = n
<1> DEFINE T == ScriptTables
<1>1. /\ T[1].name = "roles" /\ T[2].name = "users" /\ T[5].name = "parsers"
      /\ T[7].name = "schemas" /\ T[9].name = "mappings" /\ T[11].name = "policies"
  BY DEF ScriptTables, ScriptRoles, ScriptUsers, Table
<1>2. /\ \A i \in {1, 2, 4, 5, 7, 9, 11, 13, 14, 15, 16} : T[i].refs = {}
      /\ T[3].refs = {"users", "roles"} /\ T[6].refs = {"parsers"} /\ T[8].refs = {"schemas"}
      /\ T[10].refs = {"mappings"} /\ T[12].refs = {"policies"}
  BY DEF ScriptTables, ScriptRoles, ScriptUsers, ScriptUserRoles, ScriptAuditLogs,
         ScriptReplayOperations, Table
<1> QED BY <1>1, <1>2

\* All tables before the one in hand exist.
MigrateOrdered ==
    \A s \in Scripts : job[s].kind = "migrate" =>
        \A j \in 1..16 : j < job[s].pos => ScriptTables[j].name \in TableNames

MigrationInv == MigrateOrdered /\ MigrationClosed

LEMMA MigrationStep ==
    ASSUME TypeInv, MigrationInv, NEW s \in Scripts, BootStep(s)
    PROVE  MigrationInv'
<1> USE DEF TypeInv, TypeOK, dbVars
<1>1. /\ job[s] \in JobType /\ JobOK(job[s]) /\ schema \subseteq schema'
      /\ Len(ScriptTables) = 16 /\ AlembicTables = ScriptTables
      /\ TableNames \subseteq TableNames'
  BY TablesKnown, BootTypes DEF TableNames
<1>2. ASSUME NEW n \in Nat, NEW k \in 1..16, First(k, MissingTables(n)),
             \A j \in 1..16 : j < n => ScriptTables[j].name \in TableNames
      PROVE  \A j \in 1..16 : j < k => ScriptTables[j].name \in TableNames
  BY <1>1, <1>2 DEF First, MissingTables
<1>3. MigrateOrdered'
  <2> SUFFICES job'[s].kind = "migrate" =>
                  \A j \in 1..16 : j < job'[s].pos => ScriptTables[j].name \in TableNames'
    BY <1>1, BootTypes DEF MigrationInv, MigrateOrdered
  <2>1. CASE StartMigrate(s)
    BY <1>1, <1>2, <2>1 DEF StartMigrate, Goes, Job
  <2>2. CASE MigrateLook(s)
    <3>1. \A j \in 1..16 : j < job[s].pos => ScriptTables[j].name \in TableNames
      BY <2>2 DEF MigrateLook, MigrationInv, MigrateOrdered
    <3>2. job[s].pos \in Nat
      BY <1>1 DEF JobType
    <3>3. CASE Ends(s)
      BY <1>1, <3>3 DEF Ends, NoJob
    <3>4. ASSUME NEW k \in 1..16, First(k, MissingTables(job[s].pos)), Goes(s, "migrate", k, "write")
          PROVE  \A j \in 1..16 : j < job'[s].pos => ScriptTables[j].name \in TableNames'
      <4>1. job'[s].pos = k
        BY <1>1, <3>4 DEF Goes, Job
      <4> QED BY <1>1, <1>2, <3>1, <3>2, <3>4, <4>1
    <3> QED BY <1>1, <2>2, <3>3, <3>4 DEF MigrateLook
  <2>3. CASE MigrateCreate(s)
    <3>1. job[s].pos \in 1..16
      BY <1>1, <2>3 DEF MigrateCreate, JobOK
    <3>2. \A j \in 1..16 : j < job[s].pos => ScriptTables[j].name \in TableNames'
      BY <1>1, <2>3 DEF MigrateCreate, MigrationInv, MigrateOrdered
    <3>3. ScriptTables[job[s].pos].name \in TableNames'
      BY <2>3 DEF MigrateCreate, TableNames
    <3>4. \A n, j \in 1..16 : j < n + 1 => j < n \/ j = n
      OBVIOUS
    <3>5. CASE Ends(s)
      BY <1>1, <3>5 DEF Ends, NoJob
    <3>6. CASE Goes(s, "migrate", job[s].pos + 1, "look")
      <4>1. job'[s].pos = job[s].pos + 1
        BY <1>1, <3>6 DEF Goes, Job
      <4> QED BY <3>1, <3>2, <3>3, <3>4, <4>1
    <3> QED BY <2>3, <3>5, <3>6 DEF MigrateCreate
  <2>4. CASE ~(StartMigrate(s) \/ MigrateLook(s) \/ MigrateCreate(s))
    <3>1. job'[s].kind # "migrate"
      BY <2>4 DEF BootStep, StartScript, ScriptStep, StartAlembic, StartSeed, SeedKinds,
             AlembicCreate, AlembicCommit, SeedLook, SeedWrite, SeedFails, SeedCommit, Seeding,
             Kill, Goes, Ends, Job, NoJob
    <3> QED BY <3>1
  <2> QED BY <2>1, <2>2, <2>3, <2>4
<1>4. MigrationClosed'
  <2>1. CASE MigrateCreate(s)
    <3>1. job[s].pos \in 1..16
      BY <1>1, <2>1 DEF MigrateCreate, JobOK
    <3>2. ASSUME NEW n \in ScriptTables[job[s].pos].refs PROVE n \in TableNames
      <4>1. \E j \in 1..16 : j < job[s].pos /\ ScriptTables[j].name = n
        BY <3>1, RefsEarlier
      <4>2. \A j \in 1..16 : j < job[s].pos => ScriptTables[j].name \in TableNames
        BY <2>1 DEF MigrateCreate, MigrationInv, MigrateOrdered
      <4> QED BY <4>1, <4>2
    <3> QED BY <1>1, <2>1, <3>2 DEF MigrateCreate, MigrationInv, MigrationClosed
  <2>2. CASE AlembicCommit(s)
    <3>1. \A i \in 1..16 : ScriptTables[i] \in schema' /\ ScriptTables[i].name \in TableNames'
      BY <1>1, <2>2 DEF AlembicCommit, TableNames
    <3>2. \A t \in schema' : t \in schema \/ \E i \in 1..16 : t = ScriptTables[i]
      BY <1>1, <2>2 DEF AlembicCommit
    <3>3. ASSUME NEW i \in 1..16, NEW n \in ScriptTables[i].refs PROVE n \in TableNames'
      <4>1. \E j \in 1..16 : ScriptTables[j].name = n
        BY RefsEarlier
      <4> QED BY <3>1, <4>1
    <3>4. \A t \in schema' : t.refs \subseteq TableNames'
      BY <1>1, <3>2, <3>3 DEF MigrationInv, MigrationClosed
    <3>5. \A i \in 1..Len(AlembicTables) : AlembicTables[i] \in schema'
      BY <1>1, <3>1
    <3> QED BY <3>4, <3>5 DEF MigrationClosed
  <2>3. CASE ~(MigrateCreate(s) \/ AlembicCommit(s))
    <3>1. UNCHANGED <<schema, stamped>>
      BY <2>3 DEF BootStep, StartScript, ScriptStep, StartMigrate, StartAlembic, StartSeed,
             MigrateLook, AlembicCreate, SeedLook, SeedWrite, SeedFails, SeedCommit, Kill,
             Insert, Rollback, Commit, CommitWith
    <3> QED BY <3>1 DEF MigrationInv, MigrationClosed, TableNames
  <2> QED BY <2>1, <2>2, <2>3
<1> QED BY <1>3, <1>4 DEF MigrationInv

\* Every foreign key refers to a table that exists, and a stamped database has
\* all tables, whichever migrations race or die half-way (migrate.py:26-240,
\* 0001_initial_schema.py:23-289).
THEOREM MigrationsClosed == Spec => []MigrationClosed
<1>1. Init => MigrationInv
  BY DEF Init, DatabaseInit, BootstrapInit, NoJob, MigrationInv, MigrateOrdered, MigrationClosed
<1>2. TypeInv /\ MigrationInv /\ [Next]_vars => MigrationInv'
  <2> SUFFICES ASSUME TypeInv, MigrationInv, [Next]_vars PROVE MigrationInv'
    OBVIOUS
  <2>1. ASSUME UNCHANGED <<schema, job, stamped>> PROVE MigrationInv'
    BY <2>1 DEF MigrationInv, MigrateOrdered, MigrationClosed, TableNames
  <2>2. UNCHANGED vars => UNCHANGED <<schema, job, stamped>>
    BY DEF vars, dbVars, bootVars
  <2>3. \A w \in Workers : ApiStep(w) /\ UNCHANGED bootVars => UNCHANGED <<schema, job, stamped>>
    BY ApiTypes DEF bootVars
  <2> QED BY <2>1, <2>2, <2>3, StepCases, MigrationStep
<1>3. MigrationInv => MigrationClosed
  BY DEF MigrationInv
<1> QED BY <1>1, <1>2, <1>3, TypeInvariant, PTL DEF Spec

----------------------------------------------------------------------------
(* Requests: who makes them, and what their transactions hold.             *)

UserNames == {AdminUsername} \cup {f.username : f \in Forms}

Creating == {"user", "role", "create_role", "assign"}

\* What the request of w has inserted so far.
WorkerTx(w) ==
    /\ at[w] \in {"idle", "user"} => tx[w] = {}
    /\ at[w] = "login_commit" => tx[w] = {AuditRow("USER_LOGIN", who[w], who[w])}
    /\ at[w] \in {"role", "create_role"} => tx[w] = {UserRow(form[w], who[w])}
    /\ at[w] = "assign" =>
          \/ /\ tx[w] = {UserRow(form[w], who[w])}
             /\ \E r \in RowsOf("roles") : r.key = form[w].role
          \/ tx[w] = {UserRow(form[w], who[w]), RoleRow(form[w], who[w])}
    /\ at[w] = "publish" => tx[w] = {ReplayRow(replay[w], "REQUESTED", who[w])}
    /\ at[w] = "replay_audit" =>
          \/ tx[w] = {ReplayRow(replay[w], "REQUESTED", who[w])}
          \/ tx[w] = {ReplayRow(replay[w], "QUEUED", who[w])}

RequestOK(w) ==
    /\ at[w] # "idle" => who[w] \in Users
    /\ at[w] \in Creating => form[w] \in Forms
    /\ WorkerTx(w)

RequestInv ==
    /\ \A w \in Workers : RequestOK(w)
    /\ tokens \subseteq Users
    /\ Users \subseteq UserNames

\* Committed rows stay: what they say of a request that does not move stays true.
LEMMA RequestKept ==
    ASSUME NEW v \in Workers, RequestOK(v), rows \subseteq rows',
           at'[v] = at[v], who'[v] = who[v], form'[v] = form[v], replay'[v] = replay[v],
           tx'[v] = tx[v]
    PROVE  RequestOK(v)'
<1>1. Users \subseteq Users' /\ RowsOf("roles") \subseteq RowsOf("roles")'
  BY DEF Users, RowsOf
<1> QED BY <1>1 DEF RequestOK, WorkerTx, UserRow, RoleRow, AuditRow, ReplayRow

\* What a step of w leaves in the database: nothing is removed, and what is new
\* was written by the user that w works for.
LEMMA ApiRows ==
    ASSUME TypeInv, RequestInv, NEW w \in Workers, ApiStep(w)
    PROVE  /\ rows \subseteq rows'
           /\ \A r \in rows' \ rows :
                 /\ at[w] # "idle" /\ r.by = who[w]
                 /\ r.table = "users" => r.key \in UserNames
           /\ rows' # rows => LoginCommit(w) \/ AssignRole(w) \/ ReplayCommit(w)
<1> USE DEF TypeInv, TypeOK, RequestInv, RequestOK, dbVars
<1>1. CASE LoginCommit(w)
  <2>1. tx[w] = {AuditRow("USER_LOGIN", who[w], who[w])}
    BY <1>1 DEF LoginCommit, WorkerTx
  <2>2. rows' = rows \cup {AuditRow("USER_LOGIN", who[w], who[w])}
    BY <1>1, <2>1 DEF LoginCommit, Commit, CommitWith
  <2> QED BY <1>1, <2>2 DEF LoginCommit, AuditRow, Row
<1>2. CASE AssignRole(w)
  <2>1. tx[w] \subseteq {UserRow(form[w], who[w]), RoleRow(form[w], who[w])}
    BY <1>2 DEF AssignRole, WorkerTx
  <2>2. form[w].username \in UserNames
    BY <1>2 DEF AssignRole, Creating, UserNames
  <2>3. rows' = rows \cup tx[w] \cup {LinkRow(form[w], who[w]),
                                      AuditRow("USER_CREATED", form[w].username, who[w])}
    BY <1>2 DEF AssignRole, CommitWith
  <2> QED BY <1>2, <2>1, <2>2, <2>3 DEF AssignRole, AuditRow, LinkRow, UserRow, RoleRow, Row
<1>3. CASE ReplayCommit(w)
  <2>1. tx[w] \subseteq {ReplayRow(replay[w], "REQUESTED", who[w]), ReplayRow(replay[w], "QUEUED", who[w])}
    BY <1>3 DEF ReplayCommit, WorkerTx
  <2>2. rows' = rows \cup tx[w] \cup {AuditRow("REPLAY_REQUESTED", replay[w], who[w])}
    BY <1>3 DEF ReplayCommit, CommitWith
  <2> QED BY <1>3, <2>1, <2>2 DEF ReplayCommit, AuditRow, ReplayRow, Row
<1>4. CASE ~(LoginCommit(w) \/ AssignRole(w) \/ ReplayCommit(w))
  <2>1. UNCHANGED rows
    BY <1>4 DEF ApiStep, AccountStep, ReplayStep, Login, CreateUser, InsertUser, GetRole, CreateRole,
           Fails, RequestReplay, PublishNowhere, Publish, PublishFails, MarkQueued, Deliver, TimeOut,
           LoseConnection, Crash, Insert, Rollback
  <2> QED BY <2>1
<1> QED BY <1>1, <1>2, <1>3, <1>4

LEMMA ApiRequests ==
    ASSUME TypeInv, RequestInv, NEW w \in Workers, ApiStep(w)
    PROVE  RequestInv'
<1> USE DEF TypeInv, TypeOK, dbVars, accountVars, replayVars, kafkaVars
<1>1. /\ w \in DOMAIN tx /\ w \in DOMAIN who /\ Workers \subseteq Procs
      /\ rows \subseteq rows' /\ Users \subseteq Users' /\ RowsOf("roles") \subseteq RowsOf("roles")'
  BY ApiRows DEF Procs, Users, RowsOf
<1>2. Users' \subseteq UserNames
  BY ApiRows DEF RequestInv, Users, RowsOf
<1>3. \A v \in Workers \ {w} : RequestOK(v)'
  BY <1>1, ApiTypes, RequestKept DEF RequestInv
<1>4. RequestOK(w) /\ tokens \subseteq Users
  BY DEF RequestInv
<1>5. tokens' \subseteq Users' /\ RequestOK(w)'
  <2>1. CASE \E u \in Users : Login(w, u) /\ UNCHANGED replayVars
    BY <1>1, <1>4, <2>1 DEF Login, Insert, RequestOK, WorkerTx, Creating, AuditRow
  <2>2. CASE \E u \in tokens, f \in Forms : CreateUser(w, u, f) /\ UNCHANGED replayVars
    BY <1>1, <1>4, <2>2 DEF CreateUser, RequestOK, WorkerTx, Creating
  <2>3. CASE LoginCommit(w) /\ UNCHANGED replayVars
    BY <1>1, <1>4, <2>3 DEF LoginCommit, Commit, CommitWith, Answers, RequestOK, WorkerTx, Creating
  <2>4. CASE InsertUser(w) /\ UNCHANGED replayVars
    BY <1>1, <1>4, <2>4 DEF InsertUser, Insert, Moves, Fails, Answers, Rollback, RequestOK, WorkerTx,
           Creating, UserRow
  <2>5. CASE GetRole(w) /\ UNCHANGED replayVars
    BY <1>1, <1>4, <2>5 DEF GetRole, Moves, RequestOK, WorkerTx, Creating, UserRow
  <2>6. CASE CreateRole(w) /\ UNCHANGED replayVars
    BY <1>1, <1>4, <2>6 DEF CreateRole, Insert, Moves, Fails, Answers, Rollback, RequestOK, WorkerTx,
           Creating, UserRow, RoleRow
  <2>7. CASE AssignRole(w) /\ UNCHANGED replayVars
    BY <1>1, <1>4, <2>7 DEF AssignRole, CommitWith, Answers, RequestOK, WorkerTx, Creating
  <2>8. CASE \E u \in tokens, id \in ReplayIds : RequestReplay(w, u, id)
    BY <1>1, <1>4, <2>8 DEF RequestReplay, Insert, RequestOK, WorkerTx, Creating, ReplayRow
  <2>9. CASE PublishNowhere(w) \/ Publish(w) \/ PublishFails(w)
    BY <1>1, <1>4, <2>9 DEF PublishNowhere, Publish, PublishFails, MarkQueued, Moves, RequestOK, WorkerTx,
           Creating, ReplayRow
  <2>10. CASE ReplayCommit(w)
    BY <1>1, <1>4, <2>10 DEF ReplayCommit, ReplayAnswers, CommitWith, Answers, RequestOK, WorkerTx, Creating
  <2>11. CASE Deliver(w) \/ TimeOut(w)
    BY <1>1, <1>4, <2>11, RequestKept DEF Deliver, TimeOut
  <2>12. CASE LoseConnection(w) \/ Crash(w)
    BY <1>1, <1>4, <2>12 DEF LoseConnection, Crash, ReplayAnswers, Answers, Rollback, RequestOK, WorkerTx, Creating
  <2> QED
    BY <2>1, <2>2, <2>3, <2>4, <2>5, <2>6, <2>7, <2>8, <2>9, <2>10, <2>11, <2>12
       DEF ApiStep, AccountStep, ReplayStep
<1> QED BY <1>2, <1>3, <1>5 DEF RequestInv

----------------------------------------------------------------------------
(* Seeds.                                                                  *)

\* The table in which the i-th group is looked up.
LookupTable == <<"roles", "users", "sources", "parsers", "schemas", "mappings", "policies", "services">>

\* Each group is looked up in a table of its own.
LEMMA GroupTables ==
    ASSUME NEW i \in 1..8
    PROVE  /\ \E it \in SeedGroups[i].find : TRUE
           /\ \A it \in SeedGroups[i].find : it.table = LookupTable[i]
           /\ \A it \in SeedGroups[i].along : it.table \in {"user_roles", "schema_versions"}
           /\ \A it \in Items(SeedGroups[i]) : it.table = "users" => it.key = AdminUsername
<1> DEFINE G == SeedGroups
<1>1. \A t, k, v : /\ Item(t, k, v).table = t /\ Item(t, k, v).key = k
  BY DEF Item
<1>2. \A f, a : Group(f, a).find = f /\ Group(f, a).along = a
  BY DEF Group
<1>3. /\ G[1] = Group({Item("roles", r, "-") : r \in AllRoles}, {})
      /\ G[2] = Group({Item("users", AdminUsername, AdminEmail)}, {Item("user_roles", AdminUsername, ADMIN)})
      /\ G[3] = Group({Item("sources", "demo", "-")}, {})
      /\ G[4] = Group({Item("parsers", "demo", "-")}, {})
      /\ G[5] = Group({Item("schemas", "ues", "-")}, {Item("schema_versions", "ues", "1.0.0")})
      /\ G[6] = Group({Item("mappings", "demo", "-")}, {})
      /\ G[7] = Group({Item("policies", "demo", "-")}, {})
      /\ G[8] = Group({Item("services", "demo", "-")}, {})
  BY DEF SeedGroups, SeedRoles, SeedAdmin, SeedSchemas
<1>4. ADMIN \in AllRoles
  BY DEF AllRoles
<1> HIDE DEF G
<1>5. /\ LookupTable[1] = "roles" /\ LookupTable[2] = "users" /\ LookupTable[3] = "sources"
      /\ LookupTable[4] = "parsers" /\ LookupTable[5] = "schemas" /\ LookupTable[6] = "mappings"
      /\ LookupTable[7] = "policies" /\ LookupTable[8] = "services"
  BY DEF LookupTable
<1>6. CASE i = 1
  BY <1>1, <1>2, <1>3, <1>4, <1>5, <1>6, SMTT(30) DEF Items, G
<1>7. CASE i = 2
  BY <1>1, <1>2, <1>3, <1>5, <1>7, SMTT(30) DEF Items, G
<1>8. CASE i = 3
  BY <1>1, <1>2, <1>3, <1>5, <1>8, SMTT(30) DEF Items, G
<1>9. CASE i = 4
  BY <1>1, <1>2, <1>3, <1>5, <1>9, SMTT(30) DEF Items, G
<1>10. CASE i = 5
  BY <1>1, <1>2, <1>3, <1>5, <1>10, SMTT(30) DEF Items, G
<1>11. CASE i = 6
  BY <1>1, <1>2, <1>3, <1>5, <1>11, SMTT(30) DEF Items, G
<1>12. CASE i = 7
  BY <1>1, <1>2, <1>3, <1>5, <1>12, SMTT(30) DEF Items, G
<1>13. CASE i = 8
  BY <1>1, <1>2, <1>3, <1>5, <1>13 DEF Items, G
<1> QED BY <1>6, <1>7, <1>8, <1>9, <1>10, <1>11, <1>12, <1>13

\* Role names, usernames and e-mails are unique.
LEMMA UniqueKeys ==
    ASSUME NEW t \in Tables
    PROVE  /\ t.name = "roles" => "key" \in t.unique
           /\ t.name = "users" => "key" \in t.unique /\ "val" \in t.unique
<1> DEFINE T == ScriptTables
<1>1. /\ "key" \in T[1].unique
      /\ "key" \in T[2].unique /\ "val" \in T[2].unique
  BY DEF ScriptTables, ScriptRoles, ScriptUsers, Table
<1>2. \A i \in 3..16 : T[i].name \notin {"roles", "users"}
  <2>1. /\ T[3].name = "user_roles" /\ T[4].name = "sources" /\ T[5].name = "parsers"
        /\ T[6].name = "parser_versions" /\ T[7].name = "schemas" /\ T[8].name = "schema_versions"
        /\ T[9].name = "mappings" /\ T[10].name = "mapping_versions" /\ T[11].name = "policies"
        /\ T[12].name = "policy_versions" /\ T[13].name = "services"
        /\ T[14].name = "configuration_versions" /\ T[15].name = "audit_logs"
        /\ T[16].name = "replay_operations"
    BY DEF ScriptTables, ScriptUserRoles, ScriptAuditLogs, ScriptReplayOperations, Table
  <2> QED BY <2>1
<1>3. T[1].name = "roles" /\ T[2].name = "users"
  BY DEF ScriptTables, ScriptRoles, ScriptUsers, Table
<1>4. PICK i \in 1..16 : t = T[i]
  BY DEF Tables
<1> QED BY <1>1, <1>2, <1>3, <1>4

\* The rows of the first k groups, as script s inserts them.
Prefix(k, s) == UNION {RowsFor(SeedGroups[i], s) : i \in 1..k}
FullSeed(s) == Prefix(8, s)

\* Script s has inserted something and not yet committed it.
Mid(s) == Seeding(s) /\ ~(job[s].phase = "write" /\ job[s].pos = 1)

SeedInv ==
    /\ \A s \in Scripts : ~ Mid(s) => tx[s] = {}
    /\ \A s \in Scripts : Mid(s) => rows = {} /\ tx[s] = Prefix(job[s].pos - 1, s)
    /\ \A s, q \in Scripts : Mid(s) /\ Mid(q) => s = q
    /\ rows = {} \/ \E s \in Scripts : Seeded = FullSeed(s)

LEMMA PrefixRows ==
    ASSUME NEW k \in 0..8, NEW s, NEW r
    PROVE  r \in Prefix(k, s) <=>
              \E i \in 1..k : \E it \in Items(SeedGroups[i]) : r = Row(it.table, it.key, it.val, s)
  BY DEF Prefix, RowsFor

LEMMA PrefixGrows ==
    ASSUME NEW k \in 1..8, NEW s
    PROVE  Prefix(k - 1, s) \cup RowsFor(SeedGroups[k], s) = Prefix(k, s)
<1>1. 1..k = 1..(k - 1) \cup {k}
  OBVIOUS
<1> QED BY <1>1 DEF Prefix

\* What a script has inserted so far holds nothing of the next groups.
LEMMA NotFoundYet ==
    ASSUME NEW k \in 1..8, NEW s \in Scripts, rows = {}, tx[s] = Prefix(k - 1, s)
    PROVE  ~ Found(SeedGroups[k], s)
<1>1. PICK it \in SeedGroups[k].find : it.table = LookupTable[k]
  BY GroupTables
<1>2. ASSUME NEW i \in 1..8, NEW j \in 1..8, i < j
      PROVE  LookupTable[i] # LookupTable[j]
  BY <1>2 DEF LookupTable
<1>3. LookupTable[k] \notin {"user_roles", "schema_versions"}
  BY DEF LookupTable
<1>4. ASSUME NEW r \in tx[s] PROVE r.table # LookupTable[k]
  <2>1. PICK i \in 1..(k - 1) : \E t \in Items(SeedGroups[i]) : r = Row(t.table, t.key, t.val, s)
    BY <1>4, PrefixRows
  <2>2. PICK t \in Items(SeedGroups[i]) : r = Row(t.table, t.key, t.val, s)
    BY <2>1
  <2>3. t.table = LookupTable[i] \/ t.table \in {"user_roles", "schema_versions"}
    BY GroupTables DEF Items
  <2> QED BY <1>2, <1>3, <2>2, <2>3 DEF Row
<1> QED BY <1>1, <1>4 DEF Found

\* After a seed the lookups of every script find everything.
LEMMA AllFound ==
    ASSUME NEW q, FullSeed(q) \subseteq rows, NEW k \in 1..8, NEW s
    PROVE  Found(SeedGroups[k], s)
<1> SUFFICES ASSUME NEW it \in SeedGroups[k].find
             PROVE  \E r \in rows : r.table = it.table /\ r.key = it.key
  BY DEF Found
<1>1. Row(it.table, it.key, it.val, q) \in rows
  BY PrefixRows DEF FullSeed, Items
<1> QED BY <1>1 DEF Row

\* Two scripts cannot both have inserted the roles.
LEMMA RolesClash ==
    ASSUME schema \subseteq Tables, "roles" \in TableNames, NEW s, NEW q
    PROVE  \E a \in RowsFor(SeedGroups[1], q), b \in RowsFor(SeedGroups[1], s) : Clash(a, b)
<1>1. PICK t \in schema : t.name = "roles"
  BY DEF TableNames
<1>2. PICK it \in SeedGroups[1].find : it.table = "roles"
  BY GroupTables DEF LookupTable
<1>3. /\ Row(it.table, it.key, it.val, q) \in RowsFor(SeedGroups[1], q)
      /\ Row(it.table, it.key, it.val, s) \in RowsFor(SeedGroups[1], s)
  BY DEF RowsFor, Items
<1>4. "key" \in t.unique
  BY <1>1, UniqueKeys
<1> QED BY <1>1, <1>2, <1>3, <1>4 DEF Clash, Row

\* Nobody is called like a script.
LEMMA UsersNoScripts == UserNames \cap Scripts = {}
  BY FormsAssumption DEF UserNames

LEMMA SeedApi ==
    ASSUME TypeInv, RequestInv, SeedInv, NEW w \in Workers, ApiStep(w), UNCHANGED bootVars
    PROVE  SeedInv'
<1>1. \A s \in Scripts : job'[s] = job[s] /\ tx'[s] = tx[s] /\ (Mid(s)' <=> Mid(s))
  BY ApiTypes, ProcsAssumption DEF bootVars, Procs, Mid, Seeding
<1>2. rows = {} => rows' = {}
  <2>1. at[w] # "idle" => rows # {}
    BY DEF RequestInv, RequestOK, Users, RowsOf
  <2> QED BY <2>1, ApiRows
<1>3. Seeded' = Seeded
  <2>1. \A r \in rows' \ rows : r.by \notin Scripts
    BY ApiRows, UsersNoScripts DEF RequestInv, RequestOK
  <2> QED BY <2>1, ApiRows DEF Seeded
<1>4. \A s \in Scripts : Mid(s)' => rows' = {} /\ tx'[s] = Prefix(job'[s].pos - 1, s)
  BY <1>1, <1>2 DEF SeedInv
<1>5. rows' = {} \/ \E s \in Scripts : Seeded' = FullSeed(s)
  BY <1>2, <1>3 DEF SeedInv
<1> QED BY <1>1, <1>4, <1>5 DEF SeedInv, Prefix, FullSeed

\* A step of a script that leaves the transactions alone.
Looks(s) ==
    \/ StartMigrate(s) \/ StartAlembic(s) \/ \E kind \in SeedKinds : StartSeed(s, kind)
    \/ MigrateLook(s) \/ MigrateCreate(s) \/ AlembicCreate(s) \/ AlembicCommit(s)
    \/ SeedLook(s)

LEMMA LooksKeepRows ==
    ASSUME NEW s \in Scripts, Looks(s)
    PROVE  UNCHANGED <<rows, tx>>
  BY DEF Looks, StartMigrate, StartAlembic, StartSeed, MigrateLook, MigrateCreate, AlembicCreate,
         AlembicCommit, SeedLook, dbVars

\* Looking changes nothing but the place of the script.
LEMMA SeedLooks ==
    ASSUME TypeInv, SeedInv, NEW s \in Scripts, Looks(s)
    PROVE  /\ UNCHANGED <<rows, tx>>
           /\ Mid(s)' <=> Mid(s)
           /\ Mid(s)' => job'[s].pos = job[s].pos
<1> USE DEF TypeInv, TypeOK
<1>1. UNCHANGED <<rows, tx>> /\ job[s] \in JobType /\ JobOK(job[s])
  BY LooksKeepRows
<1>2. CASE \E kind \in SeedKinds : StartSeed(s, kind)
  <2>1. PICK kind \in SeedKinds, k \in 1..8 :
           First(k, MissingGroups(s, kind, 1)) /\ Goes(s, kind, k, "write")
    <3>1. \A kind : Len(Groups(kind)) = 8
      BY GroupsKnown
    <3> QED BY <1>2, <3>1 DEF StartSeed
  <2>2. job[s] = NoJob /\ ~ Mid(s) /\ tx[s] = {}
    BY <1>2 DEF StartSeed, Mid, Seeding, SeedKinds, NoJob, SeedInv
  <2>3. \A i \in 1..8 : i \in MissingGroups(s, kind, 1) <=> ~ Found(SeedGroups[i], s)
    BY GroupsKnown DEF MissingGroups
  <2>4. rows = {}
    BY <2>1, <2>3, AllFound DEF SeedInv, Seeded, First
  <2>5. k = 1
    <3>1. tx[s] = Prefix(1 - 1, s)
      BY <2>2 DEF Prefix
    <3>2. 1 \in MissingGroups(s, kind, 1)
      BY <2>3, <2>4, <3>1, NotFoundYet
    <3> QED BY <2>1, <3>2 DEF First
  <2> QED BY <1>1, <2>1, <2>2, <2>5 DEF Goes, Job, Mid, Seeding
<1>3. CASE SeedLook(s)
  <2>1. Mid(s) /\ job[s].pos \in 2..9 /\ Seeding(s)
    BY <1>1, <1>3 DEF SeedLook, Mid, Seeding, JobOK
  <2>2. rows = {} /\ tx[s] = Prefix(job[s].pos - 1, s)
    BY <2>1 DEF SeedInv
  <2> DEFINE kind == job[s].kind
             missing == MissingGroups(s, kind, job[s].pos)
  <2>3. \A i \in 1..8 : i \in missing => i >= job[s].pos
    BY <2>1 DEF MissingGroups
  <2>4. job[s].pos \in 1..8 => job[s].pos \in missing
    <3>1. \A i \in 1..8 : i \in job[s].pos..8 /\ ~ Found(SeedGroups[i], s) => i \in missing
      BY GroupsKnown DEF MissingGroups
    <3> QED BY <2>2, <3>1, NotFoundYet
  <2>5. \/ missing = {} /\ Goes(s, kind, 9, "commit")
        \/ \E k \in 1..8 : First(k, missing) /\ Goes(s, kind, k, "write")
    <3>1. Len(Groups(kind)) = 8 /\ 8 + 1 = 9
      BY GroupsKnown
    <3> QED BY <1>3, <3>1 DEF SeedLook
  <2> HIDE DEF missing
  <2>6. Goes(s, kind, job[s].pos, "commit") \/ Goes(s, kind, job[s].pos, "write")
    <3>1. CASE missing = {} /\ Goes(s, kind, 9, "commit")
      BY <2>1, <2>4, <3>1
    <3>2. ASSUME NEW k \in 1..8, First(k, missing), Goes(s, kind, k, "write")
          PROVE  k = job[s].pos
      <4>1. k \in missing /\ k >= job[s].pos
        BY <2>3, <3>2 DEF First
      <4>2. job[s].pos \in 1..8
        BY <2>1, <4>1
      <4> QED BY <2>1, <2>4, <3>2, <4>1, <4>2 DEF First
    <3> QED BY <2>5, <3>1, <3>2
  <2> QED BY <1>1, <2>1, <2>6 DEF Goes, Job, Mid, Seeding
<1>4. CASE ~((\E kind \in SeedKinds : StartSeed(s, kind)) \/ SeedLook(s))
  <2>1. ~ Seeding(s) /\ ~ Seeding(s)'
    BY <1>4 DEF Looks, StartMigrate, StartAlembic, MigrateLook, MigrateCreate, AlembicCreate,
           AlembicCommit, Seeding, SeedKinds, Goes, Ends, Job, NoJob
  <2> QED BY <1>1, <2>1 DEF Mid
<1> QED BY <1>2, <1>3, <1>4

\* Only the first of several scripts gets past the roles, and only once.
LEMMA SeedWrites ==
    ASSUME TypeInv, SeedInv, NEW s \in Scripts, SeedWrite(s)
    PROVE  /\ rows = {} /\ UNCHANGED rows
           /\ \A q \in Scripts \ {s} : ~ Mid(q)
           /\ Mid(s)' /\ job'[s].pos = job[s].pos + 1
           /\ tx'[s] = Prefix(job[s].pos, s)
<1> USE DEF TypeInv, TypeOK
<1> DEFINE k == job[s].pos
<1>1. /\ k \in 1..8 /\ Seeding(s) /\ GroupAt(s) = SeedGroups[k] /\ s \in Procs
      /\ schema \subseteq Tables
  BY GroupsKnown, TablesKnown DEF SeedWrite, JobOK, Seeding, GroupAt, Tables, Procs
<1>2. ASSUME Mid(s) PROVE rows = {} /\ \A q \in Scripts \ {s} : ~ Mid(q)
  BY <1>2 DEF SeedInv
<1>3. ASSUME ~ Mid(s) PROVE rows = {} /\ \A q \in Scripts \ {s} : ~ Mid(q)
  <2>1. k = 1 /\ tx[s] = {}
    BY <1>1, <1>3 DEF Mid, SeedWrite, SeedInv
  <2>2. "roles" \in TableNames
    <3>1. \E it \in SeedGroups[1].find : it.table = "roles"
      BY GroupTables DEF LookupTable
    <3> QED BY <1>1, <2>1, <3>1 DEF SeedWrite, TablesOf, Items
  <2>3. ASSUME NEW q PROVE ~(RowsFor(SeedGroups[1], q) \subseteq rows)
    BY <1>1, <2>1, <2>2, RolesClash DEF SeedWrite, Taken
  <2>4. rows = {}
    <3>1. \A q : RowsFor(SeedGroups[1], q) \subseteq FullSeed(q)
      BY DEF FullSeed, Prefix
    <3> QED BY <2>3, <3>1 DEF SeedInv, Seeded
  <2>5. ASSUME NEW q \in Scripts \ {s}, Mid(q) PROVE FALSE
    <3>1. job[q].pos \in 2..9
      BY <2>5 DEF Mid, Seeding, JobOK
    <3>2. RowsFor(SeedGroups[1], q) \subseteq tx[q]
      BY <2>5, <3>1 DEF SeedInv, Prefix
    <3> QED BY <1>1, <2>1, <2>2, <2>5, <3>2, RolesClash DEF SeedWrite, Locked, Procs
  <2> QED BY <2>4, <2>5
<1>4. tx[s] = Prefix(k - 1, s)
  <2>1. CASE Mid(s)
    BY <2>1 DEF SeedInv
  <2>2. CASE ~ Mid(s)
    BY <1>1, <2>2 DEF SeedInv, Mid, SeedWrite, Prefix
  <2> QED BY <2>1, <2>2
<1>5. tx'[s] = Prefix(k, s)
  BY <1>1, <1>4, PrefixGrows DEF SeedWrite, Insert
<1>6. Mid(s)' /\ job'[s].pos = k + 1
  BY <1>1 DEF SeedWrite, Goes, Job, Mid, Seeding
<1>7. UNCHANGED rows
  BY DEF SeedWrite, Insert
<1> QED BY <1>2, <1>3, <1>5, <1>6, <1>7

\* SeedInv of the next state, for script s and for the others.
LEMMA SeedInvNext ==
    ASSUME NEW s \in Scripts,
           \A q \in Scripts \ {s} : ~ Mid(q)' => tx'[q] = {},
           \A q \in Scripts \ {s} : Mid(q)' => rows' = {} /\ tx'[q] = Prefix(job'[q].pos - 1, q),
           ~ Mid(s)' => tx'[s] = {},
           Mid(s)' => rows' = {} /\ tx'[s] = Prefix(job'[s].pos - 1, s),
           \A p, q \in Scripts : Mid(p)' /\ Mid(q)' => p = q,
           rows' = {} \/ \E q \in Scripts : Seeded' = FullSeed(q)
    PROVE  SeedInv'
<1>1. \A q \in Scripts : ~ Mid(q)' => tx'[q] = {}
  OBVIOUS
<1>2. \A q \in Scripts : Mid(q)' => rows' = {} /\ tx'[q] = Prefix(job'[q].pos - 1, q)
  OBVIOUS
<1> QED BY <1>1, <1>2 DEF SeedInv, Prefix, FullSeed

LEMMA SeedBoot ==
    ASSUME TypeInv, SeedInv, NEW s \in Scripts, BootStep(s)
    PROVE  /\ SeedInv'
           /\ \/ rows' = rows
              \/ rows = {} /\ SeedCommit(s) /\ rows' = FullSeed(s)
<1> USE DEF TypeInv, TypeOK
<1>1. /\ \A q \in Scripts \ {s} : job'[q] = job[q] /\ tx'[q] = tx[q] /\ (Mid(q)' <=> Mid(q))
      /\ job[s] \in JobType /\ JobOK(job[s]) /\ s \in DOMAIN tx
  BY BootTypes DEF Procs, Mid, Seeding
<1>2. \A q \in Scripts \ {s} : ~ Mid(q)' => tx'[q] = {}
  BY <1>1 DEF SeedInv
<1>3. \A q \in Scripts \ {s} : Mid(q)' => rows = {} /\ tx'[q] = Prefix(job'[q].pos - 1, q)
  BY <1>1 DEF SeedInv
<1>4. CASE Looks(s)
  <2>1. /\ UNCHANGED <<rows, tx>> /\ (Mid(s)' <=> Mid(s))
        /\ Mid(s)' => job'[s].pos = job[s].pos
    BY <1>4, SeedLooks
  <2>2. ~ Mid(s)' => tx'[s] = {}
    BY <2>1 DEF SeedInv
  <2>3. Mid(s)' => rows = {} /\ tx'[s] = Prefix(job'[s].pos - 1, s)
    BY <2>1 DEF SeedInv
  <2>4. \A p, q \in Scripts : Mid(p)' /\ Mid(q)' => p = q
    BY <1>1, <2>1 DEF SeedInv
  <2>5. rows' = {} \/ \E q \in Scripts : Seeded' = FullSeed(q)
    BY <2>1 DEF SeedInv, Seeded
  <2>6. \A q \in Scripts \ {s} : Mid(q)' => rows' = {} /\ tx'[q] = Prefix(job'[q].pos - 1, q)
    BY <1>3, <2>1
  <2>7. SeedInv'
    BY <1>2, <2>1, <2>2, <2>3, <2>4, <2>5, <2>6, SeedInvNext
  <2> QED BY <2>1, <2>7
<1>5. CASE SeedWrite(s)
  <2>1. job[s].pos \in 1..8
    BY <1>1, <1>5 DEF SeedWrite, Seeding, JobOK
  <2>2. /\ Mid(s)' /\ tx'[s] = Prefix(job'[s].pos - 1, s) /\ rows' = {} /\ rows = {}
        /\ \A q \in Scripts \ {s} : ~ Mid(q)
    BY <1>5, <2>1, SeedWrites
  <2>3. \A p, q \in Scripts : Mid(p)' /\ Mid(q)' => p = q
    BY <1>1, <2>2
  <2>4. \A q \in Scripts \ {s} : Mid(q)' => rows' = {} /\ tx'[q] = Prefix(job'[q].pos - 1, q)
    BY <1>3, <2>2
  <2>5. SeedInv'
    BY <1>2, <2>2, <2>3, <2>4, SeedInvNext
  <2> QED BY <2>2, <2>5
<1>6. CASE SeedFails(s) \/ Kill(s)
  <2>1. ~ Mid(s)' /\ tx'[s] = {} /\ UNCHANGED rows
    BY <1>1, <1>6 DEF SeedFails, Kill, Ends, NoJob, Rollback, Mid, Seeding, SeedKinds
  <2>2. \A p, q \in Scripts : Mid(p)' /\ Mid(q)' => p = q
    BY <1>1, <2>1 DEF SeedInv
  <2>3. rows' = {} \/ \E q \in Scripts : Seeded' = FullSeed(q)
    BY <2>1 DEF SeedInv, Seeded
  <2>4. \A q \in Scripts \ {s} : Mid(q)' => rows' = {} /\ tx'[q] = Prefix(job'[q].pos - 1, q)
    BY <1>3, <2>1
  <2>5. SeedInv'
    BY <1>2, <2>1, <2>2, <2>3, <2>4, SeedInvNext
  <2> QED BY <2>1, <2>5
<1>7. CASE SeedCommit(s)
  <2>1. Mid(s) /\ job[s].pos = 9 /\ job[s].pos - 1 = 8
    BY <1>1, <1>7 DEF SeedCommit, Mid, Seeding, JobOK
  <2>2. rows = {} /\ tx[s] = FullSeed(s)
    BY <2>1 DEF SeedInv, FullSeed
  <2>3. ~ Mid(s)' /\ tx'[s] = {}
    BY <1>1, <1>7 DEF SeedCommit, Ends, NoJob, Commit, CommitWith, Mid, Seeding, SeedKinds
  <2>4. rows' = FullSeed(s)
    BY <1>7, <2>2 DEF SeedCommit, Commit, CommitWith
  <2>5. \A r \in FullSeed(s) : r.by = s
    BY PrefixRows DEF FullSeed, Row
  <2>6. Seeded' = FullSeed(s)
    BY <2>4, <2>5 DEF Seeded
  <2>7. \A q \in Scripts : ~ Mid(q)'
    BY <1>1, <2>1, <2>3 DEF SeedInv
  <2>8. SeedInv'
    BY <1>2, <2>3, <2>6, <2>7, SeedInvNext
  <2> QED BY <1>7, <2>2, <2>4, <2>8
<1> QED BY <1>4, <1>5, <1>6, <1>7 DEF BootStep, StartScript, ScriptStep, Looks

\* A step of a script leaves the requests alone and removes no row; the users
\* of a seed are the administrator.
LEMMA BootRows ==
    ASSUME TypeInv, SeedInv, NEW s \in Scripts, BootStep(s)
    PROVE  /\ rows \subseteq rows'
           /\ \A w \in Workers : tx'[w] = tx[w]
           /\ \A r \in rows' \ rows : r.table = "users" => r.key = AdminUsername
<1>1. \A w \in Workers : tx'[w] = tx[w]
  BY BootTypes, ProcsAssumption DEF Procs
<1>2. \A r \in FullSeed(s) : r.table = "users" => r.key = AdminUsername
  BY PrefixRows, GroupTables DEF FullSeed, Row
<1> QED BY <1>1, <1>2, SeedBoot

LEMMA BootRequests ==
    ASSUME TypeInv, SeedInv, RequestInv, NEW s \in Scripts, BootStep(s),
           UNCHANGED <<accountVars, replayVars>>
    PROVE  RequestInv'
<1>1. \A w \in Workers : RequestOK(w)'
  BY BootRows, RequestKept DEF RequestInv, accountVars, replayVars
<1>2. Users \subseteq Users' /\ Users' \subseteq UserNames
  BY BootRows DEF RequestInv, Users, RowsOf, UserNames
<1> QED BY <1>1, <1>2 DEF RequestInv, accountVars

CoreInv == TypeInv /\ RequestInv /\ SeedInv

LEMMA CoreStutters ==
    ASSUME CoreInv, UNCHANGED vars
    PROVE  CoreInv'
<1>1. UNCHANGED <<schema, rows, tx, job, stamped, at, who, form, tokens, replay, issued,
                  kafka_enabled, buffer, topic, lost>>
  BY DEF vars, dbVars, bootVars, accountVars, replayVars
<1>2. TypeInv'
  BY <1>1 DEF CoreInv, TypeInv, TypeOK
<1>3. RequestInv'
  BY <1>1 DEF CoreInv, RequestInv, RequestOK, WorkerTx, Users, RowsOf, UserRow, RoleRow, AuditRow, ReplayRow
<1>4. SeedInv'
  BY <1>1 DEF CoreInv, SeedInv, Mid, Seeding, Seeded, Prefix, FullSeed
<1> QED BY <1>2, <1>3, <1>4 DEF CoreInv

\* What transactions hold, and who makes requests; and that one seed at most has
\* anything in hand, which it commits to a database without rows.
THEOREM CoreInvariant == Spec => []CoreInv
<1>1. Init => RequestInv /\ SeedInv
  BY DEF Init, DatabaseInit, BootstrapInit, AccountsInit, NoJob, RequestInv, RequestOK, WorkerTx,
         Creating, Users, RowsOf, SeedInv, Mid, Seeding, SeedKinds, Procs
<1>2. CoreInv /\ TypeInv' /\ [Next]_vars => CoreInv'
  <2> SUFFICES ASSUME CoreInv, TypeInv', [Next]_vars PROVE CoreInv'
    OBVIOUS
  <2>1. ASSUME NEW s \in Scripts, BootStep(s), UNCHANGED <<accountVars, replayVars>>
        PROVE  CoreInv'
    BY <2>1, BootRequests, SeedBoot DEF CoreInv
  <2>2. ASSUME NEW w \in Workers, ApiStep(w), UNCHANGED bootVars
        PROVE  CoreInv'
    BY <2>2, ApiRequests, SeedApi DEF CoreInv
  <2> QED BY <2>1, <2>2, StepCases, CoreStutters
<1>3. Init /\ TypeInv => CoreInv
  BY <1>1 DEF CoreInv
<1> QED BY <1>2, <1>3, TypeInvariant, PTL DEF Spec

\* Whatever scripts race, fail or are killed: the rows of a seed are committed
\* together or not at all (seed.py:229, seed_direct.py:202), as long as no seeded
\* source is deleted.
THEOREM SeedsWhole == Spec => []SeedWhole
<1>1. CoreInv => SeedWhole
  <2> SUFFICES ASSUME CoreInv, Seeded # {}, NEW i \in 1..8, NEW it \in Items(SeedGroups[i])
               PROVE  \E r \in Seeded : r.table = it.table /\ r.key = it.key /\ r.val = it.val
    BY GroupsKnown DEF SeedWhole
  <2>1. PICK s \in Scripts : Seeded = FullSeed(s)
    BY DEF CoreInv, SeedInv, Seeded
  <2>2. Row(it.table, it.key, it.val, s) \in Seeded
    BY <2>1, PrefixRows DEF FullSeed
  <2> QED BY <2>2 DEF Row
<1> QED BY <1>1, CoreInvariant, PTL

\* The further column of a seeded row follows from its table.
ValueOf(table) ==
    CASE table = "users" -> AdminEmail
      [] table = "user_roles" -> ADMIN
      [] table = "schema_versions" -> "1.0.0"
      [] OTHER -> "-"

LEMMA SeedValues ==
    ASSUME NEW i \in 1..8, NEW it \in Items(SeedGroups[i])
    PROVE  it.val = ValueOf(it.table)
<1> DEFINE G == SeedGroups
<1>1. \A t, k, v : Item(t, k, v).table = t /\ Item(t, k, v).val = v
  BY DEF Item
<1>2. \A f, a : Items(Group(f, a)) = f \cup a
  BY DEF Group, Items
<1>3. /\ G[1] = Group({Item("roles", r, "-") : r \in AllRoles}, {})
      /\ G[2] = Group({Item("users", AdminUsername, AdminEmail)}, {Item("user_roles", AdminUsername, ADMIN)})
      /\ G[3] = Group({Item("sources", "demo", "-")}, {})
      /\ G[4] = Group({Item("parsers", "demo", "-")}, {})
      /\ G[5] = Group({Item("schemas", "ues", "-")}, {Item("schema_versions", "ues", "1.0.0")})
      /\ G[6] = Group({Item("mappings", "demo", "-")}, {})
      /\ G[7] = Group({Item("policies", "demo", "-")}, {})
      /\ G[8] = Group({Item("services", "demo", "-")}, {})
  BY DEF SeedGroups, SeedRoles, SeedAdmin, SeedSchemas
<1>4. /\ ValueOf("users") = AdminEmail /\ ValueOf("user_roles") = ADMIN
      /\ ValueOf("schema_versions") = "1.0.0" /\ ValueOf("roles") = "-" /\ ValueOf("sources") = "-"
      /\ ValueOf("parsers") = "-" /\ ValueOf("schemas") = "-" /\ ValueOf("mappings") = "-"
      /\ ValueOf("policies") = "-" /\ ValueOf("services") = "-"
  BY DEF ValueOf
<1> HIDE DEF G
<1>5. it \in Items(G[i])
  BY DEF G
<1>6. CASE i \in 1..2
  BY <1>1, <1>2, <1>3, <1>4, <1>5, <1>6
<1>7. CASE i \in 3..5
  BY <1>1, <1>2, <1>3, <1>4, <1>5, <1>7
<1>8. CASE i \in 6..8
  BY <1>1, <1>2, <1>3, <1>4, <1>5, <1>8
<1> QED BY <1>6, <1>7, <1>8

\* Nothing is seeded twice, the schema ues without a unique constraint included
\* (seed.py:192-202, seed_direct.py:119-141), as long as no seeded source is
\* deleted.
THEOREM SeedsOnce == Spec => []SeededOnce
<1>1. CoreInv => SeededOnce
  <2> SUFFICES ASSUME CoreInv, NEW a \in Seeded, NEW b \in Seeded, a.table = b.table, a.key = b.key
               PROVE  a = b
    BY DEF SeededOnce
  <2>1. PICK s \in Scripts : Seeded = FullSeed(s)
    BY DEF CoreInv, SeedInv, Seeded
  <2>2. ASSUME NEW r \in Seeded
        PROVE  r = Row(r.table, r.key, ValueOf(r.table), s)
    <3>1. PICK i \in 1..8 : \E it \in Items(SeedGroups[i]) : r = Row(it.table, it.key, it.val, s)
      BY <2>1, PrefixRows DEF FullSeed
    <3>2. PICK it \in Items(SeedGroups[i]) : r = Row(it.table, it.key, it.val, s)
      BY <3>1
    <3>3. r.table = it.table /\ r.key = it.key
      BY <3>2 DEF Row
    <3> QED BY <3>2, <3>3, SeedValues
  <2> QED BY <2>2
<1> QED BY <1>1, CoreInvariant, PTL

----------------------------------------------------------------------------
(* Accounts.                                                               *)

LEMMA SeedContents ==
    ASSUME NEW s
    PROVE  /\ \A r \in FullSeed(s) :
                 /\ r.by = s /\ r.table \notin {"audit_logs", "replay_operations"}
                 /\ r.table = "users" => r = Row("users", AdminUsername, AdminEmail, s)
                 /\ r.table = "user_roles" => r = Row("user_roles", AdminUsername, ADMIN, s)
           /\ Row("users", AdminUsername, AdminEmail, s) \in FullSeed(s)
           /\ Row("user_roles", AdminUsername, ADMIN, s) \in FullSeed(s)
           /\ Row("roles", ADMIN, "-", s) \in FullSeed(s)
<1>1. /\ Item("users", AdminUsername, AdminEmail) \in Items(SeedGroups[2])
      /\ Item("user_roles", AdminUsername, ADMIN) \in Items(SeedGroups[2])
      /\ Item("roles", ADMIN, "-") \in Items(SeedGroups[1])
  BY DEF SeedGroups, SeedAdmin, SeedRoles, Group, Items, AllRoles
<1>2. /\ Row("users", AdminUsername, AdminEmail, s) \in FullSeed(s)
      /\ Row("user_roles", AdminUsername, ADMIN, s) \in FullSeed(s)
      /\ Row("roles", ADMIN, "-", s) \in FullSeed(s)
  BY <1>1, PrefixRows DEF FullSeed, Item
<1>3. ASSUME NEW i \in 1..8, NEW it \in Items(SeedGroups[i])
      PROVE  /\ it.table \notin {"audit_logs", "replay_operations"}
             /\ it.table = "users" => it.key = AdminUsername /\ it.val = AdminEmail
             /\ it.table = "user_roles" => it.key = AdminUsername /\ it.val = ADMIN
  <2>1. it.table = LookupTable[i] \/ it.table \in {"user_roles", "schema_versions"}
    BY GroupTables DEF Items
  <2>2. LookupTable[i] \notin {"audit_logs", "replay_operations", "user_roles"}
    BY DEF LookupTable
  <2>3. it.table = "user_roles" => it \in SeedGroups[i].along
    BY <2>2, GroupTables DEF Items
  <2>4. it.table = "user_roles" => it.key = AdminUsername
    BY <2>3 DEF SeedGroups, SeedAdmin, SeedRoles, SeedSchemas, Group, Item
  <2>5. /\ it.table = "users" => it.key = AdminUsername /\ it.val = AdminEmail
        /\ it.table = "user_roles" => it.val = ADMIN
    BY GroupTables, SeedValues DEF ValueOf
  <2> QED BY <2>1, <2>2, <2>4, <2>5
<1>4. ASSUME NEW r \in FullSeed(s)
      PROVE  /\ r.by = s /\ r.table \notin {"audit_logs", "replay_operations"}
             /\ r.table = "users" => r = Row("users", AdminUsername, AdminEmail, s)
             /\ r.table = "user_roles" => r = Row("user_roles", AdminUsername, ADMIN, s)
  <2>1. PICK i \in 1..8 : \E it \in Items(SeedGroups[i]) : r = Row(it.table, it.key, it.val, s)
    BY PrefixRows DEF FullSeed
  <2>2. PICK it \in Items(SeedGroups[i]) : r = Row(it.table, it.key, it.val, s)
    BY <2>1
  <2> QED BY <1>3, <2>2 DEF Row
<1> QED BY <1>2, <1>4

\* Where there is a user, there is the table of the users.
TablesInv ==
    /\ rows # {} => "users" \in TableNames
    /\ \A s \in Scripts : Mid(s) /\ job[s].pos > 2 => "users" \in TableNames

LEMMA BootTables ==
    ASSUME CoreInv, TablesInv, NEW s \in Scripts, BootStep(s)
    PROVE  TablesInv'
<1> USE DEF CoreInv
<1>1. /\ TableNames \subseteq TableNames'
      /\ \A q \in Scripts \ {s} : job'[q] = job[q] /\ (Mid(q)' <=> Mid(q))
      /\ JobOK(job[s])
  BY BootTypes DEF TableNames, Mid, Seeding, TypeInv
<1>2. \A q \in Scripts \ {s} : Mid(q)' /\ job'[q].pos > 2 => "users" \in TableNames'
  BY <1>1 DEF TablesInv
<1>3. Mid(s)' /\ job'[s].pos > 2 => "users" \in TableNames'
  <2>1. CASE Looks(s)
    BY <1>1, <2>1, SeedLooks DEF TablesInv
  <2>2. CASE SeedWrite(s)
    <3>1. job[s].pos \in 1..8 /\ GroupAt(s) = SeedGroups[job[s].pos]
      BY <1>1, <2>2, GroupsKnown DEF SeedWrite, Seeding, JobOK, GroupAt
    <3>2. job'[s].pos = job[s].pos + 1 /\ (Mid(s) \/ job[s].pos = 1)
      BY <2>2, SeedWrites DEF SeedWrite, Mid
    <3>3. job[s].pos = 2 => "users" \in TableNames
      <4>1. \E it \in SeedGroups[2].find : it.table = "users"
        BY GroupTables DEF LookupTable
      <4> QED BY <2>2, <3>1, <4>1 DEF SeedWrite, TablesOf, Items
    <3> QED BY <1>1, <3>1, <3>2, <3>3 DEF TablesInv
  <2>3. CASE SeedFails(s) \/ SeedCommit(s) \/ Kill(s)
    <3>1. ~ Mid(s)'
      BY <2>3 DEF SeedFails, SeedCommit, Kill, Ends, NoJob, Mid, Seeding, SeedKinds, TypeInv, TypeOK
    <3> QED BY <3>1
  <2> QED BY <2>1, <2>2, <2>3 DEF BootStep, StartScript, ScriptStep, Looks
<1>4. rows' # {} => "users" \in TableNames'
  <2>1. CASE rows' = rows
    BY <1>1, <2>1 DEF TablesInv
  <2>2. CASE SeedCommit(s)
    <3>1. Mid(s) /\ job[s].pos > 2
      BY <1>1, <2>2 DEF SeedCommit, Mid, Seeding, JobOK
    <3> QED BY <1>1, <3>1 DEF TablesInv
  <2> QED BY <2>1, <2>2, SeedBoot
<1> QED BY <1>2, <1>3, <1>4 DEF TablesInv

\* Users that the constraints do not allow together.
LEMMA UsersClash ==
    ASSUME schema \subseteq Tables, "users" \in TableNames, NEW a, NEW b,
           a.table = "users", b.table = "users", a.key = b.key \/ a.val = b.val
    PROVE  Clash(a, b)
<1>1. PICK t \in schema : t.name = "users"
  BY DEF TableNames
<1>2. "key" \in t.unique /\ "val" \in t.unique
  BY <1>1, UniqueKeys
<1> QED BY <1>1, <1>2 DEF Clash

LEMMA AdminHolds ==
    ASSUME CoreInv, AdminUsername \in Users
    PROVE  ADMIN \in RolesOf(AdminUsername)
<1>1. PICK s \in Scripts : FullSeed(s) \subseteq rows
  BY DEF CoreInv, SeedInv, Seeded, Users, RowsOf
<1>2. Row("user_roles", AdminUsername, ADMIN, s) \in rows
  BY <1>1, SeedContents
<1> QED BY <1>2 DEF RolesOf, RowsOf, Row

\* w has inserted its new user and not yet committed it.
Holding(w) == at[w] \in {"role", "create_role", "assign"}

\* A username and an e-mail belong to one user, or to one request that creates
\* one.
HoldInv ==
    /\ \A w \in Workers : Holding(w) =>
          \A r \in RowsOf("users") : r.key # form[w].username /\ r.val # form[w].email
    /\ \A v, w \in Workers : Holding(v) /\ Holding(w) /\ v # w =>
          form[v].username # form[w].username /\ form[v].email # form[w].email

\* The transaction of a holder starts with its user.
LEMMA HolderTx ==
    ASSUME NEW w \in Workers, WorkerTx(w), Holding(w)
    PROVE  UserRow(form[w], who[w]) \in tx[w]
  BY DEF WorkerTx, Holding

\* Before the seed nobody can work.
LEMMA NoUserNoWork ==
    ASSUME CoreInv, rows = {}, NEW w \in Workers
    PROVE  at[w] = "idle" /\ tokens = {}
  BY DEF CoreInv, RequestInv, RequestOK, Users, RowsOf

LEMMA BootHolds ==
    ASSUME CoreInv, HoldInv, NEW s \in Scripts, BootStep(s), UNCHANGED <<accountVars, replayVars>>
    PROVE  HoldInv'
<1>1. CASE rows' = rows
  BY <1>1 DEF HoldInv, Holding, RowsOf, accountVars
<1>2. CASE rows = {}
  BY <1>2, NoUserNoWork DEF HoldInv, Holding, accountVars
<1> QED BY <1>1, <1>2, SeedBoot DEF CoreInv

\* A step that does not insert or commit a user.
LEMMA OthersHold ==
    ASSUME HoldInv, RowsOf("users")' = RowsOf("users"),
           \A w \in Workers : Holding(w)' => Holding(w) /\ form'[w] = form[w]
    PROVE  HoldInv'
  BY DEF HoldInv

LEMMA ApiHolds ==
    ASSUME CoreInv, HoldInv, TablesInv, NEW w \in Workers, ApiStep(w)
    PROVE  HoldInv'
<1> USE DEF CoreInv
<1>1. \A v \in Workers \ {w} : (Holding(v)' <=> Holding(v)) /\ form'[v] = form[v]
  BY ApiTypes DEF Holding
<1>2. \A v \in Workers : WorkerTx(v)
  BY DEF RequestInv, RequestOK
<1>3. w \in DOMAIN at /\ w \in DOMAIN form /\ w \in Procs /\ Workers \subseteq Procs
  BY DEF TypeInv, TypeOK, Procs
<1>4. CASE InsertUser(w) /\ Holding(w)'
  <2>1. /\ UNCHANGED <<form, rows, who>> /\ ~ Taken({UserRow(form[w], who[w])})
        /\ ~ Locked(w, {UserRow(form[w], who[w])}) /\ at[w] = "user"
    BY <1>3, <1>4 DEF InsertUser, Fails, Answers, Holding, Insert, Moves
  <2>2. "users" \in TableNames /\ schema \subseteq Tables
    <3>1. rows # {}
      BY <2>1, NoUserNoWork
    <3> QED BY <3>1, TablesKnown DEF TablesInv, TypeInv, TypeOK, Tables
  <2>3. ASSUME NEW r \in RowsOf("users")
        PROVE  r.key # form[w].username /\ r.val # form[w].email
    BY <2>1, <2>2, UsersClash DEF Taken, UserRow, Row, RowsOf
  <2>4. ASSUME NEW v \in Workers \ {w}, Holding(v)
        PROVE  form[v].username # form[w].username /\ form[v].email # form[w].email
    <3>1. UserRow(form[v], who[v]) \in tx[v]
      BY <1>2, <2>4, HolderTx
    <3>2. ~ Clash(UserRow(form[v], who[v]), UserRow(form[w], who[w]))
      BY <1>3, <2>1, <3>1 DEF Locked
    <3> QED BY <2>2, <3>2, UsersClash DEF UserRow, Row
  <2>5. RowsOf("users")' = RowsOf("users")
    BY <2>1 DEF RowsOf
  <2> QED BY <1>1, <2>1, <2>3, <2>4, <2>5 DEF HoldInv
<1>5. CASE AssignRole(w)
  <2>1. ~ Holding(w)' /\ Holding(w)
    BY <1>3, <1>5 DEF AssignRole, Answers, Holding
  <2>2. \A r \in RowsOf("users")' : r \in RowsOf("users") \/ r = UserRow(form[w], who[w])
    <3>1. tx[w] \subseteq {UserRow(form[w], who[w]), RoleRow(form[w], who[w])}
      BY <1>2, <1>5 DEF AssignRole, WorkerTx
    <3> QED BY <1>5, <3>1
         DEF AssignRole, CommitWith, RowsOf, RoleRow, LinkRow, AuditRow, Row
  <2> QED BY <1>1, <2>1, <2>2 DEF HoldInv, UserRow, Row
<1>6. CASE ~(InsertUser(w) /\ Holding(w)') /\ ~ AssignRole(w)
  <2>1. RowsOf("users")' = RowsOf("users")
    <3>1. CASE rows' = rows
      BY <3>1 DEF RowsOf
    <3>2. CASE LoginCommit(w)
      BY <1>2, <3>2 DEF LoginCommit, Commit, CommitWith, WorkerTx, RowsOf, AuditRow, Row
    <3>3. CASE ReplayCommit(w)
      BY <1>2, <3>3 DEF ReplayCommit, CommitWith, WorkerTx, RowsOf, AuditRow, ReplayRow, Row
    <3> QED BY <1>6, <3>1, <3>2, <3>3, ApiRows
  <2>2. Holding(w)' => Holding(w) /\ form'[w] = form[w]
    BY <1>3, <1>6 DEF Holding, ApiStep, AccountStep, ReplayStep, Login, CreateUser, LoginCommit, InsertUser,
           GetRole, CreateRole, Fails, RequestReplay, PublishNowhere, Publish, PublishFails, ReplayCommit,
           Deliver, TimeOut, LoseConnection, Crash, ReplayAnswers, Answers, Moves, accountVars
  <2> QED BY <1>1, <2>1, <2>2, OthersHold
<1> QED BY <1>4, <1>5, <1>6

\* What a request may have written when it commits.
LEMMA Commits ==
    ASSUME CoreInv, NEW w \in Workers, ApiStep(w), rows' # rows
    PROVE  \/ LoginCommit(w) /\ rows' = rows \cup {AuditRow("USER_LOGIN", who[w], who[w])}
           \/ /\ AssignRole(w)
              /\ \E new \in SUBSET {RoleRow(form[w], who[w])} :
                    rows' = rows \cup new \cup
                            {UserRow(form[w], who[w]), LinkRow(form[w], who[w]),
                             AuditRow("USER_CREATED", form[w].username, who[w])}
              /\ \E r \in RowsOf("roles")' : r.key = form[w].role
           \/ /\ ReplayCommit(w)
              /\ \E status \in {"REQUESTED", "QUEUED"} :
                    /\ tx[w] = {ReplayRow(replay[w], status, who[w])}
                    /\ rows' = rows \cup {ReplayRow(replay[w], status, who[w]),
                                          AuditRow("REPLAY_REQUESTED", replay[w], who[w])}
<1>1. WorkerTx(w)
  BY DEF CoreInv, RequestInv, RequestOK
<1>2. CASE LoginCommit(w)
  BY <1>1, <1>2 DEF LoginCommit, Commit, CommitWith, WorkerTx
<1>3. CASE AssignRole(w)
  <2>1. rows' = rows \cup tx[w] \cup {LinkRow(form[w], who[w]),
                                      AuditRow("USER_CREATED", form[w].username, who[w])}
    BY <1>3 DEF AssignRole, CommitWith
  <2>2. CASE tx[w] = {UserRow(form[w], who[w])} /\ \E r \in RowsOf("roles") : r.key = form[w].role
    <3>1. \E r \in RowsOf("roles")' : r.key = form[w].role
      BY <2>1, <2>2 DEF RowsOf
    <3>2. rows' = rows \cup {} \cup
                  {UserRow(form[w], who[w]), LinkRow(form[w], who[w]),
                   AuditRow("USER_CREATED", form[w].username, who[w])}
      BY <2>1, <2>2
    <3> QED BY <1>3, <3>1, <3>2
  <2>3. CASE tx[w] = {UserRow(form[w], who[w]), RoleRow(form[w], who[w])}
    <3>1. \E r \in RowsOf("roles")' : r.key = form[w].role
      <4>1. RoleRow(form[w], who[w]) \in rows'
        BY <2>1, <2>3
      <4>2. /\ RoleRow(form[w], who[w]).table = "roles"
            /\ RoleRow(form[w], who[w]).key = form[w].role
        BY DEF RoleRow, Row
      <4> QED BY <4>1, <4>2 DEF RowsOf
    <3>2. rows' = rows \cup {RoleRow(form[w], who[w])} \cup
                  {UserRow(form[w], who[w]), LinkRow(form[w], who[w]),
                   AuditRow("USER_CREATED", form[w].username, who[w])}
      BY <2>1, <2>3
    <3> QED BY <1>3, <3>1, <3>2
  <2> QED BY <1>1, <1>3, <2>2, <2>3 DEF WorkerTx, AssignRole
<1>4. CASE ReplayCommit(w)
  BY <1>1, <1>4 DEF ReplayCommit, CommitWith, WorkerTx
<1> QED BY <1>2, <1>3, <1>4, ApiRows DEF CoreInv

\* Whoever has a token has logged in, and whoever acts may do so.
GrantInv ==
    /\ \A u \in tokens : AuditRow("USER_LOGIN", u, u) \in rows
    /\ \A w \in Workers : at[w] \in Creating =>
          who[w] \in tokens /\ ADMIN \in RolesOf(who[w])
    /\ \A w \in Workers : at[w] \in ReplaySteps =>
          who[w] \in tokens /\ RolesOf(who[w]) \cap ReplayRoles # {}

LEMMA RolesKept ==
    ASSUME rows \subseteq rows', NEW u
    PROVE  RolesOf(u) \subseteq RolesOf(u)'
  BY DEF RolesOf, RowsOf

LEMMA AuthorisedHolds ==
    ASSUME CoreInv, NEW u, NEW allowed, ADMIN \in allowed, Authorised(u, allowed)
    PROVE  u \in tokens /\ RolesOf(u) \cap allowed # {}
  BY AdminHolds DEF Authorised

LEMMA ApiGrants ==
    ASSUME CoreInv, GrantInv, NEW w \in Workers, ApiStep(w)
    PROVE  GrantInv'
<1> USE DEF CoreInv
<1>1. /\ rows \subseteq rows'
      /\ \A u : RolesOf(u) \subseteq RolesOf(u)'
      /\ \A v \in Workers \ {w} : at'[v] = at[v] /\ who'[v] = who[v]
      /\ w \in DOMAIN at /\ w \in DOMAIN who
  BY ApiRows, RolesKept, ApiTypes DEF TypeInv, TypeOK
<1>2. /\ tokens \subseteq tokens'
      /\ \A u \in tokens' : AuditRow("USER_LOGIN", u, u) \in rows'
  <2>1. CASE LoginCommit(w)
    <3>1. tx[w] = {AuditRow("USER_LOGIN", who[w], who[w])}
      BY <2>1 DEF LoginCommit, RequestInv, RequestOK, WorkerTx
    <3> QED BY <2>1, <3>1 DEF LoginCommit, Commit, CommitWith, GrantInv
  <2>2. CASE ~ LoginCommit(w)
    <3>1. UNCHANGED tokens
      BY <2>2 DEF ApiStep, AccountStep, ReplayStep, Login, CreateUser, InsertUser, GetRole, CreateRole,
             AssignRole, Fails, RequestReplay, PublishNowhere, Publish, PublishFails, ReplayCommit, Moves,
             ReplayAnswers, Deliver, TimeOut, LoseConnection, Crash, accountVars
    <3> QED BY <1>1, <3>1 DEF GrantInv, AuditRow, Row
  <2> QED BY <2>1, <2>2
<1>3. at'[w] \in Creating => who'[w] \in tokens /\ ADMIN \in RolesOf(who'[w])
  <2>1. CASE \E u \in tokens, f \in Forms : CreateUser(w, u, f)
    <3>1. PICK u \in tokens, f \in Forms : CreateUser(w, u, f)
      BY <2>1
    <3>2. ADMIN \in RolesOf(u)
      BY <3>1, AuthorisedHolds DEF CreateUser
    <3> QED BY <1>1, <3>1, <3>2 DEF CreateUser
  <2>2. CASE ~(\E u \in tokens, f \in Forms : CreateUser(w, u, f))
    <3>1. at'[w] \in Creating => at[w] \in Creating /\ who'[w] = who[w]
      BY <1>1, <2>2 DEF Creating, ApiStep, AccountStep, ReplayStep, Login, LoginCommit, InsertUser, GetRole,
             CreateRole, AssignRole, Fails, RequestReplay, PublishNowhere, Publish, PublishFails, ReplayCommit,
             Moves, Answers, ReplayAnswers, Deliver, TimeOut, LoseConnection, Crash, accountVars
    <3> QED BY <3>1 DEF GrantInv
  <2> QED BY <2>1, <2>2
<1>4. at'[w] \in ReplaySteps => who'[w] \in tokens /\ RolesOf(who'[w]) \cap ReplayRoles # {}
  <2>1. CASE \E u \in tokens, id \in ReplayIds : RequestReplay(w, u, id)
    <3>1. PICK u \in tokens, id \in ReplayIds : RequestReplay(w, u, id)
      BY <2>1
    <3>2. RolesOf(u) \cap ReplayRoles # {}
      BY <3>1, AuthorisedHolds DEF RequestReplay, ReplayRoles
    <3> QED BY <1>1, <3>1, <3>2 DEF RequestReplay
  <2>2. CASE ~(\E u \in tokens, id \in ReplayIds : RequestReplay(w, u, id))
    <3>1. at'[w] \in ReplaySteps => at[w] \in ReplaySteps /\ who'[w] = who[w]
      BY <1>1, <2>2 DEF ReplaySteps, ApiStep, AccountStep, ReplayStep, Login, LoginCommit, CreateUser, InsertUser,
             GetRole, CreateRole, AssignRole, Fails, PublishNowhere, Publish, PublishFails, ReplayCommit,
             Moves, Answers, ReplayAnswers, Deliver, TimeOut, LoseConnection, Crash, accountVars
    <3> QED BY <3>1 DEF GrantInv
  <2> QED BY <2>1, <2>2
<1>5. ASSUME NEW v \in Workers, at'[v] \in Creating
      PROVE  (who[v] \in tokens /\ ADMIN \in RolesOf(who[v]))'
  <2>1. who'[v] \in tokens /\ ADMIN \in RolesOf(who'[v])
    BY <1>1, <1>3, <1>5 DEF GrantInv
  <2> QED BY <1>1, <1>2, <2>1 DEF RolesOf, RowsOf, ADMIN
<1>6. ASSUME NEW v \in Workers, at'[v] \in ReplaySteps
      PROVE  (who[v] \in tokens /\ RolesOf(who[v]) \cap ReplayRoles # {})'
  <2>1. who'[v] \in tokens /\ RolesOf(who'[v]) \cap ReplayRoles # {}
    BY <1>1, <1>4, <1>6 DEF GrantInv
  <2> QED BY <1>1, <1>2, <2>1 DEF RolesOf, RowsOf, ReplayRoles
<1> QED BY <1>2, <1>5, <1>6 DEF GrantInv, Creating, ReplaySteps

AccountInv == AccountsWhole /\ RolesGranted /\ ActorsLoggedIn /\ ReplayAudited

\* The accounts depend on the committed rows alone.
LEMMA AccountsStutter ==
    ASSUME AccountInv, rows' = rows
    PROVE  AccountInv'
  BY DEF AccountInv, AccountsWhole, RolesGranted, ActorsLoggedIn, ReplayAudited, Users, RolesOf, RowsOf,
         ReplayRoles

\* The seed founds them with the administrator.
LEMMA SeedAccounts ==
    ASSUME NEW s \in Scripts, rows' = FullSeed(s)
    PROVE  AccountInv'
<1> DEFINE admin == Row("users", AdminUsername, AdminEmail, s)
           link == Row("user_roles", AdminUsername, ADMIN, s)
           role == Row("roles", ADMIN, "-", s)
<1>1. /\ admin.table = "users" /\ admin.key = AdminUsername /\ admin.by = s
      /\ link.table = "user_roles" /\ link.key = AdminUsername /\ link.val = ADMIN
      /\ role.table = "roles" /\ role.key = ADMIN
  BY DEF Row
<1>2. /\ RowsOf("users")' = {admin} /\ RowsOf("user_roles")' = {link}
      /\ role \in RowsOf("roles")' /\ \A r \in RowsOf("roles")' : r.by = s
      /\ RowsOf("audit_logs")' = {} /\ RowsOf("replay_operations")' = {}
  BY <1>1, SeedContents DEF RowsOf
<1> HIDE DEF admin, link, role
<1>3. Users' = {AdminUsername} /\ RolesOf(AdminUsername)' = {ADMIN}
  BY <1>1, <1>2 DEF Users, RolesOf
<1>4. AccountsWhole'
  <2>1. \A u \in Users' : \E r \in RowsOf("roles")' : RolesOf(u)' = {r.key}
    BY <1>1, <1>2, <1>3 DEF RolesOf
  <2> QED BY <1>1, <1>2, <1>3, <2>1 DEF AccountsWhole
<1>5. RolesGranted' /\ ActorsLoggedIn' /\ ReplayAudited'
  BY <1>2 DEF RolesGranted, ActorsLoggedIn, ReplayAudited
<1> QED BY <1>4, <1>5 DEF AccountInv

\* A login adds its own audit row.
LEMMA LoginAccounts ==
    ASSUME AccountInv, NEW u, rows' = rows \cup {AuditRow("USER_LOGIN", u, u)}
    PROVE  AccountInv'
<1>1. /\ \A t \in {"users", "user_roles", "roles", "replay_operations"} : RowsOf(t)' = RowsOf(t)
      /\ RowsOf("audit_logs")' = RowsOf("audit_logs") \cup {AuditRow("USER_LOGIN", u, u)}
  BY DEF RowsOf, AuditRow, Row
<1>2. Users' = Users /\ \A v : RolesOf(v)' = RolesOf(v)
  BY <1>1 DEF Users, RolesOf
<1>3. \A a \in RowsOf("audit_logs")' :
         a \in RowsOf("audit_logs") \/ (a.key = "USER_LOGIN" /\ a.by = u)
  BY <1>1 DEF AuditRow, Row
<1>4. rows \subseteq rows' /\ AuditRow("USER_LOGIN", u, u) \in rows'
  OBVIOUS
<1>5. AccountsWhole'
  <2>1. \A v \in Users' : \E r \in RowsOf("roles")' : RolesOf(v)' = {r.key}
    BY <1>1, <1>2 DEF AccountInv, AccountsWhole
  <2> QED BY <1>1, <1>2, <1>3, <1>4, <2>1 DEF AccountInv, AccountsWhole, AuditRow, Row
<1>6. RolesGranted'
  BY <1>1 DEF AccountInv, RolesGranted
<1>7. ActorsLoggedIn'
  BY <1>1, <1>2, <1>3, <1>4 DEF AccountInv, ActorsLoggedIn, ReplayRoles, AuditRow, Row
<1>8. ReplayAudited'
  BY <1>1, <1>3, <1>4 DEF AccountInv, ReplayAudited, AuditRow, Row
<1> QED BY <1>5, <1>6, <1>7, <1>8 DEF AccountInv

\* A created user comes with its role, its link and its audit row.
LEMMA EnrolAccounts ==
    ASSUME AccountInv, NEW f, NEW u, NEW new \in SUBSET {RoleRow(f, u)},
           rows' = rows \cup new \cup
                   {UserRow(f, u), LinkRow(f, u), AuditRow("USER_CREATED", f.username, u)},
           \E r \in RowsOf("roles")' : r.key = f.role,
           f.username \notin Users,
           AuditRow("USER_LOGIN", u, u) \in rows,
           ADMIN \in RolesOf(u)
    PROVE  AccountInv'
<1> DEFINE user == UserRow(f, u)
           link == LinkRow(f, u)
           note == AuditRow("USER_CREATED", f.username, u)
<1>1. /\ user.table = "users" /\ user.key = f.username /\ user.by = u
      /\ link.table = "user_roles" /\ link.key = f.username /\ link.val = f.role /\ link.by = u
      /\ note.table = "audit_logs" /\ note.key = "USER_CREATED" /\ note.val = f.username /\ note.by = u
      /\ \A r \in new : r.table = "roles" /\ r.key = f.role /\ r.by = u
  BY DEF UserRow, LinkRow, AuditRow, RoleRow, Row
<1>2. rows' = rows \cup new \cup {user, link, note}
  OBVIOUS
<1> HIDE DEF user, link
<1>3. /\ RowsOf("users")' = RowsOf("users") \cup {user}
      /\ RowsOf("user_roles")' = RowsOf("user_roles") \cup {link}
      /\ RowsOf("roles")' = RowsOf("roles") \cup new
      /\ RowsOf("audit_logs")' = RowsOf("audit_logs") \cup {note}
      /\ RowsOf("replay_operations")' = RowsOf("replay_operations")
  <2> HIDE DEF note
  <2> QED BY <1>1, <1>2 DEF RowsOf
<1>4. Users' = Users \cup {f.username}
  BY <1>1, <1>3 DEF Users
<1>5. \A v \in Users : RolesOf(v)' = RolesOf(v)
  <2>1. \A v \in Users : v # f.username
    OBVIOUS
  <2> QED BY <1>1, <1>3, <2>1 DEF RolesOf
<1>6. RolesOf(f.username)' = {f.role}
  <2>1. \A l \in RowsOf("user_roles") : l.key # f.username
    BY DEF AccountInv, AccountsWhole
  <2> QED BY <1>1, <1>3, <2>1 DEF RolesOf
<1>7. rows \subseteq rows' /\ note \in rows'
  BY <1>2
<1>8. AccountsWhole'
  <2>1. \A v \in Users' : \E r \in RowsOf("roles")' : RolesOf(v)' = {r.key}
    BY <1>3, <1>4, <1>5, <1>6 DEF AccountInv, AccountsWhole
  <2>2. \A l \in RowsOf("user_roles")' : l.key \in Users'
    BY <1>1, <1>3, <1>4 DEF AccountInv, AccountsWhole
  <2>3. \A r \in RowsOf("users")' :
           r.by \in Scripts \/ AuditRow("USER_CREATED", r.key, r.by) \in rows'
    BY <1>1, <1>3, <1>7 DEF AccountInv, AccountsWhole
  <2>4. \A a \in RowsOf("audit_logs")' :
           a.key = "USER_CREATED" => \E r \in RowsOf("users")' : r.key = a.val /\ r.by = a.by
    BY <1>1, <1>3 DEF AccountInv, AccountsWhole
  <2> QED BY <2>1, <2>2, <2>3, <2>4 DEF AccountsWhole, AuditRow, Row
<1>9. RolesGranted'
  BY <1>1, <1>3 DEF AccountInv, RolesGranted
<1>10. ActorsLoggedIn'
  <2>1. \A v : RolesOf(v) \subseteq RolesOf(v)'
    BY <1>7, RolesKept
  <2>2. ASSUME NEW a \in RowsOf("audit_logs")'
        PROVE  /\ AuditRow("USER_LOGIN", a.by, a.by) \in rows'
               /\ a.key = "USER_CREATED" => ADMIN \in RolesOf(a.by)'
               /\ a.key = "REPLAY_REQUESTED" => RolesOf(a.by)' \cap ReplayRoles # {}
    <3>1. CASE a \in RowsOf("audit_logs")
      BY <1>7, <2>1, <3>1 DEF AccountInv, ActorsLoggedIn
    <3>2. CASE a = note
      BY <1>1, <1>7, <2>1, <3>2
    <3> QED BY <1>3, <3>1, <3>2
  <2> QED BY <2>2 DEF ActorsLoggedIn, AuditRow, Row, ReplayRoles
<1>11. ReplayAudited'
  BY <1>1, <1>3, <1>7 DEF AccountInv, ReplayAudited, AuditRow, Row
<1> QED BY <1>8, <1>9, <1>10, <1>11 DEF AccountInv

\* A replay comes with its audit row.
LEMMA ReplayAccounts ==
    ASSUME AccountInv, NEW id, NEW status, NEW u,
           rows' = rows \cup {ReplayRow(id, status, u), AuditRow("REPLAY_REQUESTED", id, u)},
           AuditRow("USER_LOGIN", u, u) \in rows,
           RolesOf(u) \cap ReplayRoles # {}
    PROVE  AccountInv'
<1> DEFINE op == ReplayRow(id, status, u)
           note == AuditRow("REPLAY_REQUESTED", id, u)
<1>1. /\ op.table = "replay_operations" /\ op.key = id /\ op.by = u
      /\ note.table = "audit_logs" /\ note.key = "REPLAY_REQUESTED" /\ note.val = id /\ note.by = u
  BY DEF ReplayRow, AuditRow, Row
<1>2. rows' = rows \cup {op, note}
  OBVIOUS
<1> HIDE DEF op
<1>3. /\ \A t \in {"users", "user_roles", "roles"} : RowsOf(t)' = RowsOf(t)
      /\ RowsOf("audit_logs")' = RowsOf("audit_logs") \cup {note}
      /\ RowsOf("replay_operations")' = RowsOf("replay_operations") \cup {op}
  <2> HIDE DEF note
  <2> QED BY <1>1, <1>2 DEF RowsOf
<1>4. Users' = Users /\ \A v : RolesOf(v)' = RolesOf(v)
  BY <1>3 DEF Users, RolesOf
<1>5. rows \subseteq rows' /\ note \in rows' /\ op \in rows'
  BY <1>2
<1>6. AccountsWhole'
  <2>1. \A v \in Users' : \E r \in RowsOf("roles")' : RolesOf(v)' = {r.key}
    BY <1>3, <1>4 DEF AccountInv, AccountsWhole
  <2> QED BY <1>1, <1>3, <1>4, <1>5, <2>1 DEF AccountInv, AccountsWhole, AuditRow, Row
<1>7. RolesGranted'
  BY <1>3 DEF AccountInv, RolesGranted
<1>8. ActorsLoggedIn'
  <2>1. ASSUME NEW a \in RowsOf("audit_logs")'
        PROVE  /\ AuditRow("USER_LOGIN", a.by, a.by) \in rows'
               /\ a.key = "USER_CREATED" => ADMIN \in RolesOf(a.by)'
               /\ a.key = "REPLAY_REQUESTED" => RolesOf(a.by)' \cap ReplayRoles # {}
    <3>1. CASE a \in RowsOf("audit_logs")
      BY <1>4, <1>5, <3>1 DEF AccountInv, ActorsLoggedIn
    <3>2. CASE a = note
      BY <1>1, <1>4, <1>5, <3>2
    <3> QED BY <1>3, <3>1, <3>2
  <2> QED BY <2>1 DEF ActorsLoggedIn, AuditRow, Row, ReplayRoles
<1>9. ReplayAudited'
  BY <1>1, <1>3, <1>5 DEF AccountInv, ReplayAudited, AuditRow, Row
<1> QED BY <1>6, <1>7, <1>8, <1>9 DEF AccountInv

FullInv == CoreInv /\ TablesInv /\ HoldInv /\ GrantInv /\ AccountInv

LEMMA HolderIsNew ==
    ASSUME CoreInv, HoldInv, NEW w \in Workers, AssignRole(w)
    PROVE  form[w].username \notin Users
  BY DEF HoldInv, Holding, AssignRole, Users

LEMMA ApiAccounts ==
    ASSUME FullInv, NEW w \in Workers, ApiStep(w)
    PROVE  AccountInv'
<1> USE DEF FullInv
<1>1. CASE rows' = rows
  BY <1>1, AccountsStutter
<1>2. CASE LoginCommit(w) /\ rows' = rows \cup {AuditRow("USER_LOGIN", who[w], who[w])}
  <2> DEFINE u == who[w]
  <2>1. rows' = rows \cup {AuditRow("USER_LOGIN", u, u)}
    BY <1>2
  <2> QED BY <2>1, LoginAccounts
<1>3. ASSUME AssignRole(w), NEW new \in SUBSET {RoleRow(form[w], who[w])},
             rows' = rows \cup new \cup
                     {UserRow(form[w], who[w]), LinkRow(form[w], who[w]),
                      AuditRow("USER_CREATED", form[w].username, who[w])},
             \E r \in RowsOf("roles")' : r.key = form[w].role
      PROVE  AccountInv'
  <2>1. AuditRow("USER_LOGIN", who[w], who[w]) \in rows /\ ADMIN \in RolesOf(who[w])
    BY <1>3 DEF AssignRole, GrantInv, Creating
  <2> QED BY <1>3, <2>1, HolderIsNew, EnrolAccounts
<1>4. ASSUME ReplayCommit(w), NEW status,
             rows' = rows \cup {ReplayRow(replay[w], status, who[w]),
                                AuditRow("REPLAY_REQUESTED", replay[w], who[w])}
      PROVE  AccountInv'
  <2>1. AuditRow("USER_LOGIN", who[w], who[w]) \in rows /\ RolesOf(who[w]) \cap ReplayRoles # {}
    BY <1>4 DEF ReplayCommit, GrantInv, ReplaySteps
  <2> QED BY <1>4, <2>1, ReplayAccounts
<1> QED BY <1>1, <1>2, <1>3, <1>4, Commits

LEMMA BootAccounts ==
    ASSUME FullInv, NEW s \in Scripts, BootStep(s)
    PROVE  AccountInv'
  BY AccountsStutter, SeedAccounts, SeedBoot DEF FullInv, CoreInv

LEMMA BootGrants ==
    ASSUME FullInv, NEW s \in Scripts, BootStep(s), UNCHANGED <<accountVars, replayVars>>
    PROVE  GrantInv'
<1>1. CASE rows' = rows
  BY <1>1 DEF FullInv, GrantInv, RolesOf, RowsOf, accountVars, AuditRow, Row, Creating, ReplaySteps, ReplayRoles
<1>2. CASE rows = {}
  <2>1. tokens = {} /\ \A w \in Workers : at[w] = "idle"
    BY <1>2, NoUserNoWork DEF FullInv, CoreInv, RequestInv, Users, RowsOf
  <2> QED BY <2>1 DEF GrantInv, accountVars, Creating, ReplaySteps
<1> QED BY <1>1, <1>2, SeedBoot DEF FullInv, CoreInv

LEMMA FullStutters ==
    ASSUME FullInv, UNCHANGED vars
    PROVE  FullInv'
<1>1. UNCHANGED <<schema, rows, tx, job, stamped, at, who, form, tokens, replay, issued,
                  kafka_enabled, buffer, topic, lost>>
  BY DEF vars, dbVars, bootVars, accountVars, replayVars
<1>2. CoreInv' /\ AccountInv'
  BY <1>1, CoreStutters, AccountsStutter DEF FullInv
<1>3. TablesInv' /\ HoldInv'
  BY <1>1 DEF FullInv, TablesInv, TableNames, Mid, Seeding, HoldInv, Holding, RowsOf
<1>4. GrantInv'
  BY <1>1 DEF FullInv, GrantInv, RolesOf, RowsOf, AuditRow, Row, Creating, ReplaySteps, ReplayRoles
<1> QED BY <1>2, <1>3, <1>4 DEF FullInv

\* Names and e-mails have one holder, who acts has logged in, accounts are whole.
THEOREM FullInvariant == Spec => []FullInv
<1>1. Init /\ CoreInv => FullInv
  BY DEF Init, DatabaseInit, BootstrapInit, AccountsInit, NoJob, FullInv, TablesInv, Mid, Seeding, SeedKinds,
         HoldInv, Holding, GrantInv, Creating, ReplaySteps, AccountInv, AccountsWhole, RolesGranted,
         ActorsLoggedIn, ReplayAudited, Users, RowsOf
<1>2. FullInv /\ CoreInv' /\ [Next]_vars => FullInv'
  <2> SUFFICES ASSUME FullInv, CoreInv', [Next]_vars PROVE FullInv'
    OBVIOUS
  <2>1. ASSUME NEW s \in Scripts, BootStep(s), UNCHANGED <<accountVars, replayVars>>
        PROVE  FullInv'
    BY <2>1, BootTables, BootHolds, BootGrants, BootAccounts DEF FullInv
  <2>2. ASSUME NEW w \in Workers, ApiStep(w), UNCHANGED bootVars
        PROVE  FullInv'
    <3>1. \A s \in Scripts : Mid(s)' <=> Mid(s)
      BY <2>2 DEF Mid, Seeding, bootVars
    <3>2. rows = {} => rows' = {}
      BY <2>2, ApiRows, NoUserNoWork DEF FullInv, CoreInv
    <3>3. TablesInv'
      BY <2>2, <3>1, <3>2, ApiTypes DEF FullInv, CoreInv, TablesInv, TableNames, bootVars
    <3> QED BY <2>2, <3>3, ApiHolds, ApiGrants, ApiAccounts DEF FullInv
  <2> QED BY <2>1, <2>2, StepCases, FullStutters
<1> QED BY <1>1, <1>2, CoreInvariant, PTL DEF Spec

\* Every user has one role that exists, and the audit log names the users that
\* requests created, and no others (auth.py:87-113).
THEOREM AccountsAreWhole == Spec => []AccountsWhole
<1>1. FullInv => AccountsWhole
  BY DEF FullInv, AccountInv
<1> QED BY <1>1, FullInvariant, PTL

\* No role outlives a request that failed (auth.py:100-103).
THEOREM RolesAreGranted == Spec => []RolesGranted
<1>1. FullInv => RolesGranted
  BY DEF FullInv, AccountInv
<1> QED BY <1>1, FullInvariant, PTL

\* The user behind every audit row has logged in, as the audit log says, and holds
\* a role that allows what the row reports (auth.py:47-82, rbac.py:29-43).
THEOREM NobodyActsUnseen == Spec => []ActorsLoggedIn
<1>1. FullInv => ActorsLoggedIn
  BY DEF FullInv, AccountInv
<1> QED BY <1>1, FullInvariant, PTL

\* Replay operations and their audit rows belong together (replay_service.py:29-53).
THEOREM ReplaysAreAudited == Spec => []ReplayAudited
<1>1. FullInv => ReplayAudited
  BY DEF FullInv, AccountInv
<1> QED BY <1>1, FullInvariant, PTL

----------------------------------------------------------------------------
(* Replays and their messages.                                             *)

Replaying(w) == at[w] \in ReplaySteps

\* The uuid of a replay belongs to one request, or to one committed row.
IdsOwned ==
    /\ \A w \in Workers : Replaying(w) => replay[w] \in issued
    /\ \A v, w \in Workers : Replaying(v) /\ Replaying(w) /\ v # w => replay[v] # replay[w]
    /\ \A r \in RowsOf("replay_operations") :
          r.key \in issued /\ \A w \in Workers : Replaying(w) => replay[w] # r.key

\* The open transactions know what has been handed over.
HandoverKnown ==
    /\ Handed \subseteq issued
    /\ \A w \in Workers : at[w] = "publish" => replay[w] \notin Handed
    /\ kafka_enabled =>
          \A w \in Workers : at[w] = "replay_audit" =>
              (ReplayRow(replay[w], "QUEUED", who[w]) \in tx[w] <=> replay[w] \in Handed)

HandoverInv == IdsOwned /\ HandoverKnown /\ StatusTellsHandover

\* A message is handed over by Publish alone, and then stays somewhere.
LEMMA HandedSteps ==
    ASSUME TypeInv, NEW w \in Workers, ApiStep(w)
    PROVE  Handed' = IF Publish(w) THEN Handed \cup {replay[w]} ELSE Handed
<1> USE DEF TypeInv, TypeOK
<1>1. CASE Publish(w)
  BY <1>1 DEF Publish, Handed
<1>2. CASE Deliver(w)
  <2>1. PICK id \in buffer[w] : /\ buffer' = [buffer EXCEPT ![w] = @ \ {id}]
                                /\ topic' = topic \cup {id} /\ lost' = lost
    BY <1>2 DEF Deliver
  <2>2. Handed' = Handed
    BY <2>1 DEF Handed
  <2>3. ~ Publish(w)
    BY <2>1 DEF Publish, TypeInv, TypeOK
  <2> QED BY <2>2, <2>3
<1>3. CASE TimeOut(w)
  <2>1. PICK id \in buffer[w] : /\ buffer' = [buffer EXCEPT ![w] = @ \ {id}]
                                /\ lost' = lost \cup {id} /\ topic' = topic
    BY <1>3 DEF TimeOut
  <2>2. Handed' = Handed
    BY <2>1 DEF Handed
  <2>3. ~ Publish(w)
    BY <2>1 DEF Publish
  <2> QED BY <2>2, <2>3
<1>4. CASE Crash(w)
  <2>1. Handed' = Handed
    BY <1>4 DEF Crash, Handed
  <2>2. ~ Publish(w)
    BY <1>4 DEF Crash, ReplayAnswers, Answers, Publish, Moves
  <2> QED BY <2>1, <2>2
<1>5. CASE ~(Publish(w) \/ Deliver(w) \/ TimeOut(w) \/ Crash(w))
  <2>1. UNCHANGED <<buffer, topic, lost>>
    BY <1>5 DEF ApiStep, AccountStep, ReplayStep, RequestReplay, PublishNowhere, PublishFails, ReplayCommit,
           LoseConnection, replayVars, kafkaVars
  <2> QED BY <1>5, <2>1 DEF Handed
<1> QED BY <1>1, <1>2, <1>3, <1>4, <1>5

\* Only the commit of a replay adds a replay operation.
LEMMA ReplayRowsStep ==
    ASSUME CoreInv, NEW w \in Workers, ApiStep(w)
    PROVE  \/ RowsOf("replay_operations")' = RowsOf("replay_operations")
           \/ /\ ReplayCommit(w)
              /\ \E status \in {"REQUESTED", "QUEUED"} :
                    /\ tx[w] = {ReplayRow(replay[w], status, who[w])}
                    /\ RowsOf("replay_operations")' =
                          RowsOf("replay_operations") \cup {ReplayRow(replay[w], status, who[w])}
<1>1. CASE rows' = rows
  BY <1>1 DEF RowsOf
<1>2. CASE LoginCommit(w) /\ rows' = rows \cup {AuditRow("USER_LOGIN", who[w], who[w])}
  BY <1>2 DEF RowsOf, AuditRow, Row
<1>3. ASSUME NEW new \in SUBSET {RoleRow(form[w], who[w])},
             rows' = rows \cup new \cup
                     {UserRow(form[w], who[w]), LinkRow(form[w], who[w]),
                      AuditRow("USER_CREATED", form[w].username, who[w])}
      PROVE  RowsOf("replay_operations")' = RowsOf("replay_operations")
  BY <1>3 DEF RowsOf, UserRow, LinkRow, RoleRow, AuditRow, Row
<1>4. ASSUME NEW status,
             rows' = rows \cup {ReplayRow(replay[w], status, who[w]),
                                AuditRow("REPLAY_REQUESTED", replay[w], who[w])}
      PROVE  RowsOf("replay_operations")' =
                RowsOf("replay_operations") \cup {ReplayRow(replay[w], status, who[w])}
  BY <1>4 DEF RowsOf, ReplayRow, AuditRow, Row
<1> QED BY <1>1, <1>2, <1>3, <1>4, Commits

LEMMA ApiIds ==
    ASSUME CoreInv, IdsOwned, NEW w \in Workers, ApiStep(w)
    PROVE  IdsOwned'
<1> USE DEF CoreInv
<1>1. /\ \A v \in Workers \ {w} : at'[v] = at[v] /\ replay'[v] = replay[v]
      /\ w \in DOMAIN at /\ w \in DOMAIN replay
  BY ApiTypes DEF TypeInv, TypeOK
<1>2. CASE \E u \in tokens, id \in ReplayIds : RequestReplay(w, u, id)
  <2>1. PICK u \in tokens, id \in ReplayIds : RequestReplay(w, u, id)
    BY <1>2
  <2>2. replay'[w] = id /\ id \notin issued /\ issued' = issued \cup {id} /\ rows' = rows
    BY <1>1, <2>1 DEF RequestReplay, Insert
  <2> QED BY <1>1, <2>2 DEF IdsOwned, Replaying, RowsOf
<1>3. CASE ReplayCommit(w)
  <2>1. ~ Replaying(w)' /\ issued' = issued /\ Replaying(w)
    BY <1>1, <1>3 DEF ReplayCommit, ReplayAnswers, Answers, Replaying, ReplaySteps
  <2>2. \A r \in RowsOf("replay_operations")' : r \in RowsOf("replay_operations") \/ r.key = replay[w]
    BY ReplayRowsStep DEF ReplayRow, Row
  <2> QED BY <1>1, <2>1, <2>2 DEF IdsOwned, Replaying
<1>4. CASE ~((\E u \in tokens, id \in ReplayIds : RequestReplay(w, u, id)) \/ ReplayCommit(w))
  <2>1. RowsOf("replay_operations")' = RowsOf("replay_operations")
    BY <1>4, ReplayRowsStep
  <2>2. issued' = issued /\ (Replaying(w)' => Replaying(w) /\ replay'[w] = replay[w])
    BY <1>1, <1>4 DEF Replaying, ReplaySteps, ApiStep, AccountStep, ReplayStep, Login, LoginCommit, CreateUser,
           InsertUser, GetRole, CreateRole, AssignRole, Fails, PublishNowhere, Publish, PublishFails,
           Moves, Answers, ReplayAnswers, Deliver, TimeOut, LoseConnection, Crash, accountVars, replayVars
  <2> QED BY <1>1, <2>1, <2>2 DEF IdsOwned, Replaying
<1> QED BY <1>2, <1>3, <1>4

LEMMA ApiHandover ==
    ASSUME CoreInv, HandoverInv, NEW w \in Workers, ApiStep(w)
    PROVE  HandoverKnown' /\ StatusTellsHandover'
<1> USE DEF CoreInv
<1>1. /\ \A v \in Workers \ {w} : /\ at'[v] = at[v] /\ replay'[v] = replay[v] /\ who'[v] = who[v]
                                  /\ tx'[v] = tx[v]
      /\ w \in DOMAIN at /\ w \in DOMAIN replay /\ w \in DOMAIN tx /\ Workers \subseteq Procs
      /\ kafka_enabled' = kafka_enabled
  BY ApiTypes DEF TypeInv, TypeOK, Procs
<1>2. "QUEUED" # "REQUESTED" /\ \A i, u : ReplayRow(i, "QUEUED", u) # ReplayRow(i, "REQUESTED", u)
  BY DEF ReplayRow, Row
<1>3. WorkerTx(w)
  BY DEF RequestInv, RequestOK
<1>4. CASE Publish(w)
  <2>1. /\ Handed' = Handed \cup {replay[w]} /\ issued' = issued /\ rows' = rows
        /\ Replaying(w) /\ at'[w] = "replay_audit" /\ replay'[w] = replay[w]
        /\ tx'[w] = {ReplayRow(replay[w], "QUEUED", who[w])} /\ who'[w] = who[w]
    BY <1>1, <1>4, HandedSteps DEF Publish, MarkQueued, Moves, Replaying, ReplaySteps
  <2>2. \A v \in Workers \ {w} : Replaying(v) => replay[v] # replay[w]
    BY <2>1 DEF HandoverInv, IdsOwned
  <2>3. \A r \in RowsOf("replay_operations") : r.key # replay[w]
    BY <2>1 DEF HandoverInv, IdsOwned
  <2>4. StatusTellsHandover'
    BY <1>1, <2>1, <2>3 DEF HandoverInv, StatusTellsHandover, RowsOf
  <2>5. HandoverKnown'
    BY <1>1, <2>1, <2>2 DEF HandoverInv, HandoverKnown, IdsOwned, Replaying, ReplaySteps, ReplayRow
  <2> QED BY <2>4, <2>5
<1>5. CASE \E u \in tokens, id \in ReplayIds : RequestReplay(w, u, id)
  <2>1. PICK u \in tokens, id \in ReplayIds : RequestReplay(w, u, id)
    BY <1>5
  <2>2. /\ replay'[w] = id /\ id \notin issued /\ issued' = issued \cup {id} /\ rows' = rows
        /\ at'[w] = "publish" /\ ~ Publish(w)
    BY <1>1, <2>1 DEF RequestReplay, Insert, Publish
  <2>3. Handed' = Handed
    BY <2>2, HandedSteps
  <2>4. StatusTellsHandover'
    BY <1>1, <2>2, <2>3 DEF HandoverInv, StatusTellsHandover, RowsOf
  <2>5. HandoverKnown'
    BY <1>1, <2>2, <2>3 DEF HandoverInv, HandoverKnown, ReplayRow
  <2> QED BY <2>4, <2>5
<1>6. CASE PublishFails(w)
  <2>1. /\ Handed' = Handed /\ issued' = issued /\ rows' = rows /\ tx' = tx /\ at[w] = "publish"
        /\ at'[w] = "replay_audit" /\ replay'[w] = replay[w] /\ who'[w] = who[w]
    BY <1>1, <1>6 DEF PublishFails, Moves, Handed, dbVars, replayVars
  <2>2. ReplayRow(replay[w], "QUEUED", who[w]) \notin tx[w] /\ replay[w] \notin Handed
    BY <1>2, <1>3, <2>1 DEF WorkerTx, HandoverInv, HandoverKnown
  <2>3. StatusTellsHandover'
    BY <1>1, <2>1 DEF HandoverInv, StatusTellsHandover, RowsOf
  <2>4. HandoverKnown'
    BY <1>1, <2>1, <2>2 DEF HandoverInv, HandoverKnown, ReplayRow
  <2> QED BY <2>3, <2>4
<1>7. CASE ReplayCommit(w)
  <2>1. /\ Handed' = Handed /\ issued' = issued /\ at[w] = "replay_audit" /\ at'[w] = "idle"
    BY <1>1, <1>7, HandedSteps DEF ReplayCommit, ReplayAnswers, Answers, Publish
  <2>2. StatusTellsHandover'
    <3>1. PICK status \in {"REQUESTED", "QUEUED"} :
              /\ tx[w] = {ReplayRow(replay[w], status, who[w])}
              /\ \A r \in RowsOf("replay_operations")' :
                    r \in RowsOf("replay_operations") \/ r = ReplayRow(replay[w], status, who[w])
      BY <1>3, <1>7, ReplayRowsStep DEF WorkerTx, ReplayCommit
    <3>2. kafka_enabled => (status = "QUEUED" <=> replay[w] \in Handed)
      BY <1>2, <2>1, <3>1 DEF HandoverInv, HandoverKnown
    <3>3. /\ ReplayRow(replay[w], status, who[w]).val = status
          /\ ReplayRow(replay[w], status, who[w]).key = replay[w]
      BY DEF ReplayRow, Row
    <3> QED BY <1>1, <2>1, <3>1, <3>2, <3>3 DEF HandoverInv, StatusTellsHandover
  <2>3. HandoverKnown'
    BY <1>1, <2>1 DEF HandoverInv, HandoverKnown, ReplayRow
  <2> QED BY <2>2, <2>3
<1>8. CASE ~(Publish(w) \/ (\E u \in tokens, id \in ReplayIds : RequestReplay(w, u, id))
             \/ PublishFails(w) \/ ReplayCommit(w))
  <2>1. Handed' = Handed /\ RowsOf("replay_operations")' = RowsOf("replay_operations")
    BY <1>8, HandedSteps, ReplayRowsStep
  <2>2. /\ issued' = issued
        /\ at'[w] = "publish" => at[w] = "publish" /\ replay'[w] = replay[w]
        /\ kafka_enabled /\ at'[w] = "replay_audit" =>
              /\ at[w] = "replay_audit" /\ replay'[w] = replay[w] /\ who'[w] = who[w] /\ tx'[w] = tx[w]
    BY <1>1, <1>8 DEF ApiStep, AccountStep, ReplayStep, Login, LoginCommit, CreateUser,
           InsertUser, GetRole, CreateRole, AssignRole, Fails, PublishNowhere,
           Moves, Answers, ReplayAnswers, Deliver, TimeOut, LoseConnection, Crash, accountVars, replayVars, dbVars
  <2>3. StatusTellsHandover'
    BY <1>1, <2>1 DEF HandoverInv, StatusTellsHandover
  <2>4. HandoverKnown'
    BY <1>1, <2>1, <2>2 DEF HandoverInv, HandoverKnown, ReplayRow
  <2> QED BY <2>3, <2>4
<1> QED BY <1>4, <1>5, <1>6, <1>7, <1>8

LEMMA BootHandover ==
    ASSUME CoreInv, HandoverInv, NEW s \in Scripts, BootStep(s), UNCHANGED <<accountVars, replayVars>>
    PROVE  HandoverInv'
<1>1. RowsOf("replay_operations")' = RowsOf("replay_operations")
  <2>1. CASE rows' = rows
    BY <2>1 DEF RowsOf
  <2>2. CASE rows = {} /\ rows' = FullSeed(s)
    BY <2>2, SeedContents DEF RowsOf
  <2> QED BY <2>1, <2>2, SeedBoot DEF CoreInv
<1>2. \A w \in Workers : tx'[w] = tx[w]
  BY BootRows DEF CoreInv
<1>3. UNCHANGED <<at, who, replay, issued, kafka_enabled, buffer, topic, lost>>
  BY DEF accountVars, replayVars
<1>4. Handed' = Handed
  BY <1>3 DEF Handed
<1>5. IdsOwned'
  BY <1>1, <1>3 DEF HandoverInv, IdsOwned, Replaying
<1>6. HandoverKnown'
  BY <1>2, <1>3, <1>4 DEF HandoverInv, HandoverKnown, ReplayRow
<1>7. StatusTellsHandover'
  BY <1>1, <1>3, <1>4 DEF HandoverInv, StatusTellsHandover
<1> QED BY <1>5, <1>6, <1>7 DEF HandoverInv

\* With Kafka on, a committed replay operation is QUEUED exactly if its message
\* was handed to the producer, although the message leaves before the commit and
\* either may fail (replay_service.py:66-87).
THEOREM StatusIsTrue == Spec => []StatusTellsHandover
<1>1. Init => HandoverInv
  BY DEF Init, DatabaseInit, AccountsInit, ReplayInit, HandoverInv, IdsOwned, HandoverKnown,
         StatusTellsHandover, Replaying, ReplaySteps, Handed, RowsOf
<1>2. CoreInv /\ HandoverInv /\ [Next]_vars => HandoverInv'
  <2> SUFFICES ASSUME CoreInv, HandoverInv, [Next]_vars PROVE HandoverInv'
    OBVIOUS
  <2>1. CASE UNCHANGED vars
    <3>1. UNCHANGED <<rows, tx, at, who, replay, issued, kafka_enabled, buffer, topic, lost>>
      BY <2>1 DEF vars, dbVars, accountVars, replayVars
    <3> QED BY <3>1 DEF HandoverInv, IdsOwned, HandoverKnown, StatusTellsHandover, Replaying, Handed, RowsOf,
               ReplayRow
  <2>2. ASSUME NEW w \in Workers, ApiStep(w) PROVE HandoverInv'
    BY <2>2, ApiIds, ApiHandover DEF HandoverInv
  <2> QED BY <2>1, <2>2, BootHandover, StepCases
<1>3. HandoverInv => StatusTellsHandover
  BY DEF HandoverInv
<1> QED BY <1>1, <1>2, <1>3, CoreInvariant, PTL DEF Spec

----------------------------------------------------------------------------
(* The directory of accounts.                                              *)

\* The accounts that users U and links L make up.
Join(U, L) ==
    {[username |-> p[1].key, email |-> p[1].val, role |-> p[2].val] :
        p \in {q \in U \X L : q[1].key = q[2].key}}

LEMMA JoinOf ==
    ASSUME NEW U, NEW L, NEW a
    PROVE  a \in Join(U, L) <=>
              \E u \in U, l \in L :
                 u.key = l.key /\ a = [username |-> u.key, email |-> u.val, role |-> l.val]
<1>1. ASSUME a \in Join(U, L)
      PROVE  \E u \in U, l \in L :
                u.key = l.key /\ a = [username |-> u.key, email |-> u.val, role |-> l.val]
  <2>1. PICK p \in U \X L :
           /\ p[1].key = p[2].key
           /\ a = [username |-> p[1].key, email |-> p[1].val, role |-> p[2].val]
    BY <1>1 DEF Join
  <2>2. p[1] \in U /\ p[2] \in L
    BY <2>1
  <2> QED BY <2>1, <2>2
<1>2. ASSUME NEW u \in U, NEW l \in L, u.key = l.key
      PROVE  [username |-> u.key, email |-> u.val, role |-> l.val] \in Join(U, L)
  <2>1. <<u, l>> \in U \X L /\ <<u, l>>[1] = u /\ <<u, l>>[2] = l
    OBVIOUS
  <2> QED BY <1>2, <2>1 DEF Join
<1> QED BY <1>1, <1>2

\* A new user with its link makes up one account more.
LEMMA JoinGrows ==
    ASSUME NEW U, NEW L, NEW user, NEW link, user.key = link.key,
           \A u \in U : u.key # user.key,
           \A l \in L : l.key # user.key
    PROVE  Join(U \cup {user}, L \cup {link}) =
              Join(U, L) \cup {[username |-> user.key, email |-> user.val, role |-> link.val]}
<1> SUFFICES ASSUME NEW a
             PROVE  a \in Join(U \cup {user}, L \cup {link}) <=>
                       \/ a \in Join(U, L)
                       \/ a = [username |-> user.key, email |-> user.val, role |-> link.val]
  OBVIOUS
<1>1. a \in Join(U \cup {user}, L \cup {link}) <=>
         \E u \in U \cup {user}, l \in L \cup {link} :
            u.key = l.key /\ a = [username |-> u.key, email |-> u.val, role |-> l.val]
  BY JoinOf
<1>2. a \in Join(U, L) <=>
         \E u \in U, l \in L :
            u.key = l.key /\ a = [username |-> u.key, email |-> u.val, role |-> l.val]
  BY JoinOf
<1> QED BY <1>1, <1>2

LEMMA AccountsJoin ==
    /\ Accounts = Join(RowsOf("users"), RowsOf("user_roles"))
    /\ Accounts' = Join(RowsOf("users")', RowsOf("user_roles")')
  BY DEF Accounts, Join

\* The seed founds the directory.
LEMMA SeedFounds ==
    ASSUME NEW s \in Scripts, rows = {}, rows' = FullSeed(s)
    PROVE  Directory!Found
<1> DEFINE admin == Row("users", AdminUsername, AdminEmail, s)
           link == Row("user_roles", AdminUsername, ADMIN, s)
<1>1. /\ admin.table = "users" /\ admin.key = AdminUsername /\ admin.val = AdminEmail
      /\ link.table = "user_roles" /\ link.key = AdminUsername /\ link.val = ADMIN
  BY DEF Row
<1>2. RowsOf("users")' = {admin} /\ RowsOf("user_roles")' = {link}
  BY <1>1, SeedContents DEF RowsOf
<1> HIDE DEF admin, link
<1>3. Accounts' = {[username |-> AdminUsername, email |-> AdminEmail, role |-> ADMIN]}
  <2>1. \A p \in {admin} \X {link} : p[1] = admin /\ p[2] = link
    OBVIOUS
  <2>2. <<admin, link>> \in {admin} \X {link} /\ <<admin, link>>[1] = admin /\ <<admin, link>>[2] = link
    OBVIOUS
  <2> QED BY <1>1, <1>2, <2>1, <2>2 DEF Accounts
<1>4. Accounts = {}
  <2>1. RowsOf("users") = {}
    BY DEF RowsOf
  <2> QED BY <2>1, AccountsJoin, JoinOf
<1> QED BY <1>3, <1>4 DEF Directory!Found

\* The commit of POST /users enrols one account.
LEMMA AssignEnrols ==
    ASSUME FullInv, NEW w \in Workers, AssignRole(w),
           NEW new \in SUBSET {RoleRow(form[w], who[w])},
           rows' = rows \cup new \cup
                   {UserRow(form[w], who[w]), LinkRow(form[w], who[w]),
                    AuditRow("USER_CREATED", form[w].username, who[w])}
    PROVE  Directory!Enrol(form[w])
<1> DEFINE f == form[w]
           user == UserRow(f, who[w])
           link == LinkRow(f, who[w])
<1>1. /\ user.table = "users" /\ user.key = f.username /\ user.val = f.email
      /\ link.table = "user_roles" /\ link.key = f.username /\ link.val = f.role
  BY DEF UserRow, LinkRow, Row
<1>2. /\ RowsOf("users")' = RowsOf("users") \cup {user}
      /\ RowsOf("user_roles")' = RowsOf("user_roles") \cup {link}
  BY DEF RowsOf, UserRow, LinkRow, RoleRow, AuditRow, Row
<1>3. \A r \in RowsOf("users") : r.key # f.username /\ r.val # f.email
  BY DEF FullInv, HoldInv, Holding, AssignRole
<1>4. \A l \in RowsOf("user_roles") : l.key # f.username
  BY HolderIsNew DEF FullInv, AccountInv, AccountsWhole
<1>5. f \in Forms /\ who[w] \in Users
  BY DEF FullInv, CoreInv, RequestInv, RequestOK, AssignRole, Creating
<1>6. f = [username |-> f.username, email |-> f.email, role |-> f.role]
  BY <1>5, FormsAssumption
<1> HIDE DEF user, link, f
<1>7. Accounts' = Accounts \cup {f}
  <2>1. Join(RowsOf("users") \cup {user}, RowsOf("user_roles") \cup {link}) =
           Join(RowsOf("users"), RowsOf("user_roles")) \cup
              {[username |-> user.key, email |-> user.val, role |-> link.val]}
    BY <1>1, <1>3, <1>4, JoinGrows
  <2> QED BY <1>1, <1>2, <1>6, <2>1, AccountsJoin
<1>8. \A b \in Accounts : f.username # b.username /\ f.email # b.email
  BY <1>3, AccountsJoin, JoinOf
<1>9. Accounts # {}
  <2>1. PICK u \in RowsOf("users") : u.key = who[w]
    BY <1>5 DEF Users
  <2>2. RolesOf(who[w]) # {}
    BY <1>5 DEF FullInv, AccountInv, AccountsWhole
  <2>3. PICK l \in RowsOf("user_roles") : l.key = who[w]
    BY <2>2 DEF RolesOf
  <2>4. [username |-> u.key, email |-> u.val, role |-> l.val] \in Join(RowsOf("users"), RowsOf("user_roles"))
    BY <2>1, <2>3, JoinOf
  <2> QED BY <2>4, AccountsJoin
<1> QED BY <1>7, <1>8, <1>9 DEF Directory!Enrol, f

\* Accounts are founded once and grow by one whole account at a time, each with
\* a username and an e-mail of its own (seed.py:160-173, auth.py:78-117).
THEOREM DirectoryRefined == Spec => RefinesDirectory
<1>1. Init => Directory!Init
  <2> SUFFICES ASSUME Init PROVE Accounts = {}
    BY DEF Directory!Init
  <2>1. RowsOf("users") = {}
    BY DEF Init, DatabaseInit, RowsOf
  <2> QED BY <2>1, AccountsJoin, JoinOf
<1>2. FullInv /\ [Next]_vars => [Directory!Next]_Accounts
  <2> SUFFICES ASSUME FullInv, [Next]_vars PROVE Directory!Next \/ Accounts' = Accounts
    OBVIOUS
  <2>1. ASSUME rows' = rows PROVE Accounts' = Accounts
    BY <2>1 DEF Accounts, RowsOf
  <2>2. ASSUME NEW s \in Scripts, BootStep(s) PROVE Directory!Next \/ Accounts' = Accounts
    BY <2>1, <2>2, SeedBoot, SeedFounds DEF FullInv, CoreInv, Directory!Next
  <2>3. ASSUME NEW w \in Workers, ApiStep(w) PROVE Directory!Next \/ Accounts' = Accounts
    <3>1. CASE LoginCommit(w) /\ rows' = rows \cup {AuditRow("USER_LOGIN", who[w], who[w])}
      <4>1. RowsOf("users")' = RowsOf("users") /\ RowsOf("user_roles")' = RowsOf("user_roles")
        BY <3>1 DEF RowsOf, AuditRow, Row
      <4> QED BY <4>1, AccountsJoin
    <3>2. ASSUME AssignRole(w), NEW new \in SUBSET {RoleRow(form[w], who[w])},
                 rows' = rows \cup new \cup
                         {UserRow(form[w], who[w]), LinkRow(form[w], who[w]),
                          AuditRow("USER_CREATED", form[w].username, who[w])}
          PROVE  Directory!Next
      <4>1. form[w] \in Forms
        BY <3>2 DEF FullInv, CoreInv, RequestInv, RequestOK, AssignRole, Creating
      <4> QED BY <3>2, <4>1, AssignEnrols DEF Directory!Next
    <3>3. ASSUME NEW status,
                 rows' = rows \cup {ReplayRow(replay[w], status, who[w]),
                                    AuditRow("REPLAY_REQUESTED", replay[w], who[w])}
          PROVE  Accounts' = Accounts
      <4>1. RowsOf("users")' = RowsOf("users") /\ RowsOf("user_roles")' = RowsOf("user_roles")
        BY <3>3 DEF RowsOf, ReplayRow, AuditRow, Row
      <4> QED BY <4>1, AccountsJoin
    <3> QED BY <2>1, <2>3, <3>1, <3>2, <3>3, Commits DEF FullInv
  <2>4. ASSUME UNCHANGED vars PROVE Accounts' = Accounts
    BY <2>1, <2>4 DEF vars, dbVars
  <2> QED BY <2>2, <2>3, <2>4, StepCases
<1> QED BY <1>1, <1>2, FullInvariant, PTL DEF Spec, RefinesDirectory, Directory!Spec

----------------------------------------------------------------------------
(* Waiting: nobody needs PostgreSQL's deadlock detector.                     *)

\* q has inserted a row that does not go with the rows new.
Blocks(q, new) == \E a \in tx[q], b \in new : Clash(a, b)

\* p cannot go on before q has ended its transaction: the negated guards of
\* SeedWrite, InsertUser, CreateRole and MigrateCreate.
WaitsFor(p, q) ==
    /\ p # q
    /\ \/ /\ p \in Scripts /\ Seeding(p) /\ job[p].phase = "write"
          /\ Blocks(q, RowsFor(GroupAt(p), p))
       \/ /\ p \in Workers /\ at[p] = "user"
          /\ Blocks(q, {UserRow(form[p], who[p])})
       \/ /\ p \in Workers /\ at[p] = "create_role"
          /\ Blocks(q, {RoleRow(form[p], who[p])})
       \/ /\ p \in Scripts /\ job[p].kind = "migrate" /\ job[p].phase = "write"
          /\ q \in Scripts /\ job[q].kind = "alembic"
          /\ \E i \in 1..(job[q].pos - 1) : AlembicTables[i].name = ScriptTables[job[p].pos].name

\* However many processes wait, one of them waits for none of the others.
NoCircularWait ==
    \A waiting \in SUBSET Procs :
        waiting # {} => \E p \in waiting : \A q \in waiting : ~ WaitsFor(p, q)

\* Whoever is kept from going on by another process waits for that process.
LEMMA BlockedWaits ==
    ASSUME NEW p \in Procs
    PROVE  /\ p \in Scripts /\ Seeding(p) /\ job[p].phase = "write"
                 /\ Locked(p, RowsFor(GroupAt(p), p)) => \E q \in Procs : WaitsFor(p, q)
           /\ p \in Workers /\ at[p] = "user" /\ Locked(p, {UserRow(form[p], who[p])}) =>
                 \E q \in Procs : WaitsFor(p, q)
           /\ p \in Workers /\ at[p] = "create_role"
                 /\ Locked(p, {RoleRow(form[p], who[p])}) => \E q \in Procs : WaitsFor(p, q)
           /\ p \in Scripts /\ job[p].kind = "migrate" /\ job[p].phase = "write"
                 /\ Pending(ScriptTables[job[p].pos]) => \E q \in Procs : WaitsFor(p, q)
  BY DEF Locked, Blocks, WaitsFor, Procs, Pending

\* Whoever is waited for holds a row or runs alembic.
LEMMA WaitedFor ==
    ASSUME NEW p, NEW q, WaitsFor(p, q)
    PROVE  tx[q] # {} \/ (q \in Scripts /\ job[q].kind = "alembic")
  BY DEF WaitsFor, Blocks

\* A script that is waited for waits for nobody: alembic never waits, and a
\* seed that has inserted something is alone with an empty database.
LEMMA ScriptsWaitFirst ==
    ASSUME CoreInv, NEW p, NEW q \in Scripts, WaitsFor(p, q), NEW r \in Procs
    PROVE  ~ WaitsFor(q, r)
<1>1. q \notin Workers
  BY ProcsAssumption
<1>2. CASE job[q].kind = "alembic"
  BY <1>1, <1>2 DEF WaitsFor, Seeding, SeedKinds
<1>3. CASE job[q].kind # "alembic"
  <2>1. tx[q] # {}
    BY <1>3, WaitedFor
  <2>2. Mid(q) /\ rows = {}
    BY <2>1 DEF CoreInv, SeedInv
  <2>3. job[q].kind # "migrate"
    BY <2>2 DEF Mid, Seeding, SeedKinds
  <2>4. r # q => tx[r] = {}
    <3>1. r \in Workers => at[r] = "idle" /\ WorkerTx(r)
      BY <2>2, NoUserNoWork DEF CoreInv, RequestInv, RequestOK
    <3>2. r \in Scripts /\ r # q => ~ Mid(r)
      BY <2>2 DEF CoreInv, SeedInv
    <3> QED BY <3>1, <3>2 DEF WorkerTx, Procs, CoreInv, SeedInv
  <2> QED BY <1>1, <2>3, <2>4 DEF WaitsFor, Blocks
<1> QED BY <1>2, <1>3

\* A worker that is waited for waits for no script, and at most for a worker
\* that has inserted a role, which has nothing left to wait for.
LEMMA WorkersWaitBriefly ==
    ASSUME CoreInv, NEW p, NEW q \in Workers, WaitsFor(p, q), NEW r \in Procs, WaitsFor(q, r)
    PROVE  r \in Workers /\ at[r] = "assign"
<1>1. q \notin Scripts /\ tx[q] # {}
  BY WaitedFor, ProcsAssumption
<1>2. at[q] = "create_role"
  BY <1>1 DEF WaitsFor, CoreInv, RequestInv, RequestOK, WorkerTx
<1>3. PICK a \in tx[r] : a.table = "roles"
  BY <1>1, <1>2 DEF WaitsFor, Blocks, Clash, RoleRow, Row
<1>4. rows # {}
  BY <1>2, NoUserNoWork
<1>5. r \in Workers
  BY <1>3, <1>4 DEF CoreInv, SeedInv, Procs
<1>6. WorkerTx(r) /\ at[r] \in AccountSteps \cup ReplaySteps
  BY <1>5 DEF CoreInv, RequestInv, RequestOK, TypeInv, TypeOK
<1>7. CASE at[r] \in {"idle", "user", "role", "create_role"}
  BY <1>3, <1>6, <1>7 DEF WorkerTx, UserRow, Row
<1>8. CASE at[r] \in {"login_commit", "publish", "replay_audit"}
  BY <1>3, <1>6, <1>8 DEF WorkerTx, AuditRow, ReplayRow, Row
<1> QED BY <1>5, <1>6, <1>7, <1>8 DEF AccountSteps, ReplaySteps

\* Chains of waiting processes end: behind one that waits for another that
\* waits for a third there is none that waits.
LEMMA WaitsEnd ==
    ASSUME CoreInv, NEW p \in Procs, NEW q \in Procs, NEW r \in Procs, NEW t \in Procs,
           WaitsFor(p, q), WaitsFor(q, r)
    PROVE  ~ WaitsFor(r, t)
<1>1. q \in Workers
  BY ScriptsWaitFirst DEF Procs
<1>2. r \in Workers /\ at[r] = "assign"
  BY <1>1, WorkersWaitBriefly
<1> QED BY <1>2, ProcsAssumption DEF WaitsFor

\* Scripts and requests never wait for each other in a circle, however many of
\* them run: no transaction is ever picked as the victim of a deadlock.
THEOREM NeverCircular == Spec => []NoCircularWait
<1>1. CoreInv => NoCircularWait
  <2> SUFFICES ASSUME CoreInv, NEW waiting \in SUBSET Procs, waiting # {},
                      \A p \in waiting : \E q \in waiting : WaitsFor(p, q)
               PROVE  FALSE
    BY DEF NoCircularWait
  <2>1. PICK p \in waiting, q \in waiting, r \in waiting, t \in waiting :
           WaitsFor(p, q) /\ WaitsFor(q, r) /\ WaitsFor(r, t)
    OBVIOUS
  <2> QED BY <2>1, WaitsEnd
<1> QED BY <1>1, CoreInvariant, PTL
=============================================================================
