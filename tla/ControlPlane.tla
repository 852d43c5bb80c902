---------------------------- MODULE ControlPlane ----------------------------
(***************************************************************************)
(* The deployment scripts and the API together, on one database: API       *)
(* workers serve logins, user creations and replay requests while          *)
(* migrations and seeds run, before they have run, and when they run again. *)
(***************************************************************************)
EXTENDS Bootstrap, ReplayRequests

CONSTANTS MaxActive   \* bound: at most this many processes work at a time

vars == <<dbVars, bootVars, accountVars, replayVars>>

\* There is room for another process at work.
Room ==
    Cardinality({s \in Scripts : job[s] # NoJob} \cup {w \in Workers : at[w] # "idle"})
        < MaxActive

\* Script s has lost a race before it wrote anything, or another one has created
\* the rest of its tables: it holds no lock, and all that is left to it is to end.
Beaten(s) ==
    \/ /\ job[s].kind = "migrate"
       /\ job[s].phase = "look"
       /\ MissingTables(job[s].pos) = {}
    \/ /\ job[s].kind = "migrate"
       /\ job[s].phase = "write"
       /\ ScriptTables[job[s].pos].name \in TableNames
    \/ /\ job[s].kind = "alembic"
       /\ job[s].pos \in 1..Len(AlembicTables)
       /\ AlembicTables[job[s].pos].name \in TableNames
    \/ /\ Seeding(s)
       /\ job[s].phase = "write"
       /\ tx[s] = {}
       /\ Taken(RowsFor(GroupAt(s), s))

Init == DatabaseInit /\ BootstrapInit /\ AccountsInit /\ ReplayInit

\* A script, or a request of the API, begins.  (None does before a beaten script
\* has ended, which nobody else can tell from its ending later.)
Begin ==
    /\ Room
    /\ \A s \in Scripts : ~ Beaten(s)
    /\ \/ /\ \E s \in Scripts : StartScript(s)
          /\ UNCHANGED <<accountVars, replayVars>>
       \/ /\ \E w \in Workers :
                \/ \E u \in Users : Login(w, u)
                \/ \E u \in tokens, f \in Forms : CreateUser(w, u, f)
          /\ UNCHANGED <<bootVars, replayVars>>
       \/ /\ \E w \in Workers, u \in tokens, id \in ReplayIds : RequestReplay(w, u, id)
          /\ UNCHANGED bootVars

ScriptGoes(s) == ScriptStep(s) /\ UNCHANGED <<accountVars, replayVars>>

RequestGoes(w) ==
    \/ AccountStep(w) /\ UNCHANGED <<bootVars, replayVars>>
    \/ ReplayStep(w) /\ UNCHANGED bootVars

ProducerGoes(w) == (Deliver(w) \/ TimeOut(w)) /\ UNCHANGED bootVars

\* What the environment may do to them at any time.
Disturb ==
    \/ \E s \in Scripts : Kill(s) /\ UNCHANGED <<accountVars, replayVars>>
    \/ \E w \in Workers : (LoseConnection(w) \/ Crash(w)) /\ UNCHANGED bootVars

Next ==
    \/ Begin
    \/ \E s \in Scripts : ScriptGoes(s)
    \/ \E w \in Workers : RequestGoes(w) \/ ProducerGoes(w)
    \/ Disturb

\* A process that can go on does so: the operating system runs it, PostgreSQL
\* grants a lock to the transaction that waited longest (hence strong fairness),
\* and librdkafka sends a message or gives it up within message.timeout.ms.
Fairness ==
    /\ \A s \in Scripts : SF_vars(ScriptGoes(s))
    /\ \A w \in Workers : SF_vars(RequestGoes(w)) /\ WF_vars(ProducerGoes(w))

Spec == Init /\ [][Next]_vars /\ Fairness

----------------------------------------------------------------------------
(* Properties.                                                             *)

TypeOK ==
    /\ schema \subseteq {ScriptTables[i] : i \in 1..Len(ScriptTables)}
    /\ job \in [Scripts -> JobType]
    /\ stamped \in BOOLEAN
    /\ at \in [Workers -> AccountSteps \cup ReplaySteps]
    /\ form \in [Workers -> Forms \cup {NoForm}]
    /\ replay \in [Workers -> ReplayIds \cup {NoReplay}]
    /\ issued \subseteq ReplayIds
    /\ kafka_enabled \in BOOLEAN
    /\ buffer \in [Workers -> SUBSET ReplayIds]
    /\ topic \subseteq ReplayIds
    /\ lost \subseteq ReplayIds
    /\ \A w \in Workers : at[w] = "idle" => tx[w] = {}

\* Nobody acts unseen: the user behind every audit row has logged in before, by
\* a login that is itself in the audit log, and holds a role that allows what
\* the row reports (auth.py:47-82, rbac.py:29-43, replay.py:33).
ActorsLoggedIn ==
    \A a \in RowsOf("audit_logs") :
        /\ AuditRow("USER_LOGIN", a.by, a.by) \in rows
        /\ a.key = "USER_CREATED" => ADMIN \in RolesOf(a.by)
        /\ a.key = "REPLAY_REQUESTED" => RolesOf(a.by) \cap ReplayRoles # {}

\* The accounts that the committed rows make up.
Accounts ==
    {[username |-> p[1].key, email |-> p[1].val, role |-> p[2].val] :
        p \in {q \in RowsOf("users") \X RowsOf("user_roles") : q[1].key = q[2].key}}

Directory == INSTANCE AccountDirectory WITH
    accounts <- Accounts,
    Founder <- [username |-> AdminUsername, email |-> AdminEmail, role |-> ADMIN],
    Candidates <- Forms

\* The races of seeds and requests, their failures and their rollbacks leave a
\* directory that is founded once and grows by one whole account at a time
\* (seed.py:160-173, auth.py:78-117).
RefinesDirectory == Directory!Spec

\* Every script and every request ends: nobody waits for a lock for ever, no
\* two transactions wait for each other (seed.py:151-229, auth.py:93-103).
OperationsEnd ==
    /\ \A s \in Scripts : []<>(job[s] = NoJob)
    /\ \A w \in Workers : []<>(at[w] = "idle")
=============================================================================
