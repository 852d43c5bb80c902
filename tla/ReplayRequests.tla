--------------------------- MODULE ReplayRequests ---------------------------
(***************************************************************************)
(* Replay requests: POST /replay/{event_id} writes a replay_operations     *)
(* row, hands a message to the Kafka producer of its worker, marks the row *)
(* and commits.  The producer (librdkafka) sends the message later, from a *)
(* thread of its own and in no transaction with the database.              *)
(***************************************************************************)
EXTENDS UserAccounts

CONSTANTS
    ReplayIds,   \* the uuids of replay operations
    NoReplay     \* no replay operation

VARIABLES
    replay,      \* replay[w]: the operation that the request of w records
    issued,      \* the uuids that requests have used
    kafka_enabled,   \* the setting
    buffer,      \* buffer[w]: the messages in the producer of worker w
    topic,       \* the messages that the broker has
    lost         \* the messages that a producer has dropped

replayVars == <<replay, issued, kafka_enabled, buffer, topic, lost>>
kafkaVars == <<buffer, topic, lost>>

ReplaySteps == {"publish", "replay_audit"}

ReplayRoles == {ADMIN, PARSER_DEV, SEC_ANALYST}

ReplayRow(id, status, u) == Row("replay_operations", id, status, u)

Handed == topic \cup lost \cup UNION {buffer[w] : w \in Workers}

----------------------------------------------------------------------------
(* POST /replay/{event_id}.                                                *)

\* Fault: the row is committed by itself, before its audit row.
RequestReplayCommitted(w, u, id) ==
    /\ at[w] = "idle"
    /\ Authorised(u, ReplayRoles)
    /\ "replay_operations" \in TableNames
    /\ id \in ReplayIds \ issued
    /\ issued' = issued \cup {id}
    /\ replay' = [replay EXCEPT ![w] = id]
    /\ at' = [at EXCEPT ![w] = "publish"]
    /\ who' = [who EXCEPT ![w] = u]
    /\ CommitWith(w, {ReplayRow(id, "REQUESTED", u)})
    /\ UNCHANGED <<form, tokens, kafka_enabled, kafkaVars>>

\* The row is created and flushed as REQUESTED.  Without its table the request
\* fails at once.
RequestReplay(w, u, id) ==
    /\ at[w] = "idle"
    /\ Authorised(u, ReplayRoles)
    /\ "replay_operations" \in TableNames
    /\ id \in ReplayIds \ issued
    /\ issued' = issued \cup {id}
    /\ replay' = [replay EXCEPT ![w] = id]
    /\ at' = [at EXCEPT ![w] = "publish"]
    /\ who' = [who EXCEPT ![w] = u]
    /\ Insert(w, {ReplayRow(id, "REQUESTED", u)})
    /\ UNCHANGED <<form, tokens, kafka_enabled, kafkaVars>>

\* The row of the open transaction is set to QUEUED.
MarkQueued(w) ==
    /\ tx' = [tx EXCEPT ![w] = {ReplayRow(replay[w], "QUEUED", who[w])}]
    /\ UNCHANGED <<schema, rows>>

\* Fault: a producer that could not be built is taken for Kafka being off.
PublishNowhereUnasked(w) ==
    /\ at[w] = "publish"
    /\ MarkQueued(w)
    /\ Moves(w, "replay_audit")
    /\ UNCHANGED replayVars

\* There is no producer: the row becomes QUEUED although nothing was sent.
PublishNowhere(w) ==
    /\ at[w] = "publish"
    /\ ~ kafka_enabled
    /\ MarkQueued(w)
    /\ Moves(w, "replay_audit")
    /\ UNCHANGED replayVars

\* The message is in the producer's buffer and the row becomes QUEUED.
Publish(w) ==
    /\ at[w] = "publish"
    /\ kafka_enabled
    /\ buffer' = [buffer EXCEPT ![w] = @ \cup {replay[w]}]
    /\ MarkQueued(w)
    /\ Moves(w, "replay_audit")
    /\ UNCHANGED <<replay, issued, kafka_enabled, topic, lost>>

\* Fault: the row is marked before the producer may refuse the message.
PublishFailsMarked(w) ==
    /\ at[w] = "publish"
    /\ MarkQueued(w)
    /\ Moves(w, "replay_audit")
    /\ UNCHANGED replayVars

\* produce raises (the local queue is full, the producer cannot be built), which
\* is logged and no more, or enable_replay is off: the row stays REQUESTED.
PublishFails(w) ==
    /\ at[w] = "publish"
    /\ Moves(w, "replay_audit")
    /\ UNCHANGED <<dbVars, replayVars>>

ReplayAnswers(w) ==
    /\ Answers(w)
    /\ replay' = [replay EXCEPT ![w] = NoReplay]
    /\ UNCHANGED <<tokens, issued, kafka_enabled>>

\* The audit row and the commit.
ReplayCommit(w) ==
    /\ at[w] = "replay_audit"
    /\ CommitWith(w, {AuditRow("REPLAY_REQUESTED", replay[w], who[w])})
    /\ ReplayAnswers(w)
    /\ UNCHANGED kafkaVars

----------------------------------------------------------------------------
(* Failures, and the producer's own thread.                                *)

\* The database connection of a request is lost, at its commit or before: the
\* transaction is rolled back, what was handed to Kafka is not.
LoseConnection(w) ==
    /\ at[w] # "idle"
    /\ Rollback(w)
    /\ ReplayAnswers(w)
    /\ UNCHANGED kafkaVars

\* A worker dies or is stopped: its request and its producer's buffer are gone
\* (the shutdown hook of main.py does not flush the producer).
Crash(w) ==
    /\ at[w] # "idle" \/ buffer[w] # {}
    /\ Rollback(w)
    /\ ReplayAnswers(w)
    /\ lost' = lost \cup buffer[w]
    /\ buffer' = [buffer EXCEPT ![w] = {}]
    /\ UNCHANGED topic

Deliver(w) ==
    \E id \in buffer[w] :
        /\ buffer' = [buffer EXCEPT ![w] = @ \ {id}]
        /\ topic' = topic \cup {id}
        /\ UNCHANGED <<lost, replay, issued, kafka_enabled, accountVars, dbVars>>

\* message.timeout.ms passes while the broker cannot be reached.  No delivery
\* callback is set: nobody is told.
TimeOut(w) ==
    \E id \in buffer[w] :
        /\ buffer' = [buffer EXCEPT ![w] = @ \ {id}]
        /\ lost' = lost \cup {id}
        /\ UNCHANGED <<topic, replay, issued, kafka_enabled, accountVars, dbVars>>

----------------------------------------------------------------------------
ReplayInit ==
    /\ replay = [w \in Workers |-> NoReplay]
    /\ issued = {}
    /\ kafka_enabled \in BOOLEAN
    /\ buffer = [w \in Workers |-> {}]
    /\ topic = {}
    /\ lost = {}

ReplayStep(w) ==
    \/ PublishNowhere(w) \/ Publish(w) \/ PublishFails(w)
    \/ ReplayCommit(w)

----------------------------------------------------------------------------
(* Properties.                                                             *)

\* A replay operation and its audit row are committed together, and name the
\* same user (replay_service.py:29-53).
ReplayAudited ==
    /\ \A r \in RowsOf("replay_operations") :
          AuditRow("REPLAY_REQUESTED", r.key, r.by) \in rows
    /\ \A a \in RowsOf("audit_logs") :
          a.key = "REPLAY_REQUESTED" =>
              \E r \in RowsOf("replay_operations") : r.key = a.val /\ r.by = a.by

\* With Kafka on, a committed operation is QUEUED exactly if its message was
\* handed to the producer, although the message left before the commit, in no
\* transaction with it, and the handover may fail (replay_service.py:66-87).
\* With Kafka off nothing is handed over, and the operation is QUEUED all the
\* same (replay_service.py:69-71): nothing is said of that case.
StatusTellsHandover ==
    kafka_enabled =>
        \A r \in RowsOf("replay_operations") : r.val = "QUEUED" <=> r.key \in Handed

\* With Kafka on, the message of a QUEUED operation leaves the producer sooner or
\* later: it reaches the broker, unless its worker stops or the broker stays away
\* until the message expires (kafka_client.py:55-66): a message that is lost has
\* left too, and nothing in the code keeps it from being lost.  Rows and messages stay:
\* that it is so time and again says that it is so from some time on.
QueuedIsSent ==
    []<>(kafka_enabled =>
            \A r \in RowsOf("replay_operations") :
                r.val = "QUEUED" => r.key \in topic \cup lost)
=============================================================================
