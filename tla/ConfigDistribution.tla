------------------------- MODULE ConfigDistribution -------------------------
(***************************************************************************)
(* Distribution of the configuration from PostgreSQL to Redis: requests    *)
(* POST /configuration/distribute and /distribute/{key}, run concurrently  *)
(* by the sessions of several workers, the Kafka notification of each key, *)
(* the expiry of Redis keys, and GET /configuration, which reads the keys  *)
(* one by one.                                                             *)
(*                                                                         *)
(* A request builds the payload of a key from committed rows, flushes a    *)
(* pending ConfigurationVersion, executes one Redis MULTI/EXEC pipeline,   *)
(* marks the row distributed, notifies Kafka, and goes on to the next key; *)
(* its database transaction commits only after the last key.  Redis and    *)
(* Kafka do not take part in that transaction.                             *)
(***************************************************************************)
EXTENDS Integers, Sequences

CONSTANTS
    Sessions,     \* the database sessions that serve distribution requests
    Readers,      \* the clients of GET /configuration
    Keys,         \* the configuration keys
    KeyOrder,     \* the order in which distribute_all takes them
    Serial,       \* TRUE: one distribution request at a time
    KafkaEnabled, \* the setting kafka_enabled
    LateWrites,   \* TRUE: Redis may execute a pipeline after its client gave up
    MaxContent,   \* bound: changes of the configuration of each key
    MaxTime       \* bound: the last millisecond of the clock

ASSUME KeysAssumption ==
    /\ KeyOrder \in Seq(Keys) /\ KeyOrder # <<>>
    /\ Serial \in BOOLEAN /\ KafkaEnabled \in BOOLEAN /\ LateWrites \in BOOLEAN

ASSUME BoundsAssumption == MaxContent \in [Keys -> Nat] /\ MaxTime \in Nat

VARIABLES
    content,         \* the committed configuration of each key, numbered
    clock,           \* the wall clock of the host, in milliseconds
    redis,           \* config:<key> of each key
    redis_version,   \* config:version (0: never set)
    late,            \* pipelines that timed out and that Redis still has to execute
    written,         \* every execution of a pipeline, as seen by Redis
    events,          \* the config_updated messages handed to Kafka
    config_versions, \* the committed configuration_versions rows, each with
                     \* the audit row of the same transaction
    svc,             \* the request each session serves
    reader           \* the snapshot each reader is collecting

vars == <<content, clock, redis, redis_version, late, written, events,
          config_versions, svc, reader>>

Idle == [pc |-> "idle"]
Missing == [version |-> 0, content |-> 0]

Value == [version : Nat, content : Nat]
Write == [key : Keys, version : Nat, content : Nat]
Row == [key : Keys, version : Nat, content : Nat,
        status : {"pending", "distributed", "failed"}]
Distribution ==
    [pc : {"build", "persist", "execute", "finish", "commit"}, todo : Seq(Keys),
     payload : Nat, version : Nat, attempt : {0, 1}, rows : SUBSET Row]

Busy == {s \in Sessions : svc[s] # Idle}

Init ==
    /\ content = [k \in Keys |-> 0]
    /\ clock = 1
    /\ redis = [k \in Keys |-> Missing]
    /\ redis_version = 0
    /\ late = {}
    /\ written = {}
    /\ events = {}
    /\ config_versions = {}
    /\ svc = [s \in Sessions |-> Idle]
    /\ reader = [c \in Readers |-> Idle]

----------------------------------------------------------------------------
(* The environment: time, other requests and Redis.                        *)

Tick ==
    /\ clock < MaxTime
    /\ clock' = clock + 1
    /\ UNCHANGED <<content, redis, redis_version, late, written, events,
                   config_versions, svc, reader>>

\* A registry request commits a change of what the key's builder selects.
ChangeContent(k) ==
    /\ content[k] < MaxContent[k]
    /\ content' = [content EXCEPT ![k] = @ + 1]
    /\ UNCHANGED <<clock, redis, redis_version, late, written, events,
                   config_versions, svc, reader>>

\* redis_config_ttl_seconds runs out; config:version has no expiry.
Expire(k) ==
    /\ redis[k] # Missing
    /\ redis' = [redis EXCEPT ![k] = Missing]
    /\ UNCHANGED <<content, clock, redis_version, late, written, events,
                   config_versions, svc, reader>>

----------------------------------------------------------------------------
(* A distribution request.                                                 *)

\* distribute_all takes every key, distribute_<key> one.
Requested == {KeyOrder} \cup {<<k>> : k \in Keys}

Start(s, todo) ==
    /\ svc[s] = Idle
    /\ Serial => Busy = {}
    /\ svc' = [svc EXCEPT ![s] =
                  [pc |-> "build", todo |-> todo, payload |-> 0, version |-> 0,
                   attempt |-> 0, rows |-> {}]]
    /\ UNCHANGED <<content, clock, redis, redis_version, late, written, events,
                   config_versions, reader>>

\* _build_<key>: SELECT the committed rows of the key.
Build(s) ==
    /\ svc[s].pc = "build"
    /\ svc' = [svc EXCEPT ![s] = [@ EXCEPT !.pc = "persist",
                                           !.payload = content[Head(svc[s].todo)]]]
    /\ UNCHANGED <<content, clock, redis, redis_version, late, written, events,
                   config_versions, reader>>

CurrentRow(d, status) ==
    [key |-> Head(d.todo), version |-> d.version, content |-> d.payload, status |-> status]

\* Fault: every key counts its own versions.
PersistCountsPerKey(s) ==
    /\ svc[s].pc = "persist"
    /\ LET next == redis[Head(svc[s].todo)].version + 1
           d == [svc[s] EXCEPT !.pc = "execute", !.version = next, !.attempt = 0]
       IN svc' = [svc EXCEPT ![s] = [d EXCEPT !.rows = @ \cup {CurrentRow(d, "pending")}]]
    /\ UNCHANGED <<content, clock, redis, redis_version, late, written, events,
                   config_versions, reader>>

\* The version is the wall clock; the row is flushed, not committed.
Persist(s) ==
    /\ svc[s].pc = "persist"
    /\ LET d == [svc[s] EXCEPT !.pc = "execute", !.version = clock, !.attempt = 0] IN
       svc' = [svc EXCEPT ![s] = [d EXCEPT !.rows = @ \cup {CurrentRow(d, "pending")}]]
    /\ UNCHANGED <<content, clock, redis, redis_version, late, written, events,
                   config_versions, reader>>

CurrentWrite(d) == [key |-> Head(d.todo), version |-> d.version, content |-> d.payload]

\* Fault: the key is set with NX, which leaves a value that has not expired.
RedisExecutesNX(w) ==
    /\ redis' = [redis EXCEPT ![w.key] =
                    IF @ = Missing THEN [version |-> w.version, content |-> w.content] ELSE @]
    /\ redis_version' = w.version
    /\ written' = written \cup {w}

\* The pipeline sets the key, the version and the time in one MULTI/EXEC.
RedisExecutes(w) ==
    /\ redis' = [redis EXCEPT ![w.key] = [version |-> w.version, content |-> w.content]]
    /\ redis_version' = w.version
    /\ written' = written \cup {w}

\* A client that gets no reply cannot know whether Redis has executed its
\* pipeline, will execute it later, or never received it.
NoReply(w) ==
    \/ RedisExecutes(w) /\ UNCHANGED late
    \/ UNCHANGED <<redis, redis_version, written, late>>
    \/ LateWrites /\ late' = late \cup {w} /\ UNCHANGED <<redis, redis_version, written>>

\* Fault: the error is not re-raised, so that the row marked failed is committed.
ExecuteSwallowsError(s) ==
    /\ svc[s].pc = "execute"
    /\ \/ /\ RedisExecutes(CurrentWrite(svc[s])) /\ UNCHANGED late
          /\ svc' = [svc EXCEPT ![s].pc = "finish"]
       \/ /\ NoReply(CurrentWrite(svc[s]))
          /\ svc' = [svc EXCEPT ![s] =
                [@ EXCEPT !.pc = "commit",
                          !.rows = (@ \ {CurrentRow(svc[s], "pending")})
                                   \cup {CurrentRow(svc[s], "failed")}]]
    /\ UNCHANGED <<content, clock, events, config_versions, reader>>

\* Fault: timeouts are retried for as long as they occur.
ExecuteRetriesForever(s) ==
    /\ svc[s].pc = "execute"
    /\ \/ /\ RedisExecutes(CurrentWrite(svc[s])) /\ UNCHANGED late
          /\ svc' = [svc EXCEPT ![s].pc = "finish"]
       \/ /\ NoReply(CurrentWrite(svc[s]))
          /\ svc' = [svc EXCEPT ![s].attempt = 1 - @]
    /\ UNCHANGED <<content, clock, events, config_versions, reader>>

\* What the pipeline ends in: a reply; a timeout that the client retries once
\* (retry_on_timeout); or an error, which is re-raised, so that dep_db rolls
\* everything back, the row marked failed included.
Execute(s) ==
    /\ svc[s].pc = "execute"
    /\ \/ /\ RedisExecutes(CurrentWrite(svc[s])) /\ UNCHANGED late
          /\ svc' = [svc EXCEPT ![s].pc = "finish"]
       \/ /\ svc[s].attempt = 0
          /\ NoReply(CurrentWrite(svc[s]))
          /\ svc' = [svc EXCEPT ![s].attempt = 1]
       \/ /\ NoReply(CurrentWrite(svc[s]))
          /\ svc' = [svc EXCEPT ![s] = Idle]
    /\ UNCHANGED <<content, clock, events, config_versions, reader>>

\* Redis executes a pipeline whose client gave up.
ExecuteLate(w) ==
    /\ w \in late
    /\ RedisExecutes(w)
    /\ late' = late \ {w}
    /\ UNCHANGED <<content, clock, events, config_versions, svc, reader>>

\* Fault: the row is given the status of a replay.
AfterKeySuccess(d) ==
    [d EXCEPT !.rows = (@ \ {CurrentRow(d, "pending")}) \cup {CurrentRow(d, "success")},
              !.todo = Tail(@),
              !.pc = IF Len(d.todo) = 1 THEN "commit" ELSE "build"]

AfterKey(d) ==
    [d EXCEPT !.rows = (@ \ {CurrentRow(d, "pending")}) \cup {CurrentRow(d, "distributed")},
              !.todo = Tail(@),
              !.pc = IF Len(d.todo) = 1 THEN "commit" ELSE "build"]

\* Fault: the notification takes the time again for its version.
FinishStampsEvent(s) ==
    /\ svc[s].pc = "finish"
    /\ svc' = [svc EXCEPT ![s] = AfterKey(@)]
    /\ \/ KafkaEnabled /\ events' = events \cup {[key |-> Head(svc[s].todo), version |-> clock]}
       \/ UNCHANGED events
    /\ UNCHANGED <<content, clock, redis, redis_version, late, written, config_versions, reader>>

\* The row becomes distributed, Kafka is told if it can be, the audit row is
\* written, and the next key begins.
Finish(s) ==
    /\ svc[s].pc = "finish"
    /\ svc' = [svc EXCEPT ![s] = AfterKey(@)]
    /\ \/ /\ KafkaEnabled
          /\ events' = events \cup {[key |-> Head(svc[s].todo), version |-> svc[s].version]}
       \/ UNCHANGED events
    /\ UNCHANGED <<content, clock, redis, redis_version, late, written, config_versions, reader>>

Commit(s) ==
    /\ svc[s].pc = "commit"
    /\ config_versions' = config_versions \cup svc[s].rows
    /\ svc' = [svc EXCEPT ![s] = Idle]
    /\ UNCHANGED <<content, clock, redis, redis_version, late, written, events, reader>>

\* The worker dies, or the database refuses a flush or the commit: rollback.
Abort(s) ==
    /\ svc[s] # Idle
    /\ svc' = [svc EXCEPT ![s] = Idle]
    /\ UNCHANGED <<content, clock, redis, redis_version, late, written, events,
                   config_versions, reader>>

Progress(s) == Build(s) \/ Persist(s) \/ Execute(s) \/ Finish(s) \/ Commit(s)

----------------------------------------------------------------------------
(* GET /configuration.                                                     *)

\* get_current_config reads the keys in order and config:version last.
StartRead(c) ==
    /\ reader[c].pc \in {"idle", "done"}
    /\ reader' = [reader EXCEPT ![c] = [pc |-> "keys", todo |-> KeyOrder, newest |-> 0,
                                        version |-> 0]]
    /\ UNCHANGED <<content, clock, redis, redis_version, late, written, events,
                   config_versions, svc>>

Newer(a, b) == IF a < b THEN b ELSE a

ReadKey(c) ==
    /\ reader[c].pc = "keys"
    /\ LET k == Head(reader[c].todo) IN
       reader' = [reader EXCEPT ![c] =
          [reader[c] EXCEPT !.newest = Newer(@, redis[k].version),
                            !.todo = Tail(@),
                            !.pc = IF Len(reader[c].todo) = 1 THEN "version" ELSE "keys"]]
    /\ UNCHANGED <<content, clock, redis, redis_version, late, written, events,
                   config_versions, svc>>

\* Fault: config:version is read together with the keys.
ReadVersionAnyTime(c) ==
    /\ reader[c].pc \in {"keys", "version"}
    /\ reader' = [reader EXCEPT ![c] =
          [reader[c] EXCEPT !.version = IF @ = 0 THEN redis_version ELSE @,
                            !.pc = IF @ = "version" THEN "done" ELSE @]]
    /\ UNCHANGED <<content, clock, redis, redis_version, late, written, events,
                   config_versions, svc>>

ReadVersion(c) ==
    /\ reader[c].pc = "version"
    /\ reader' = [reader EXCEPT ![c] = [@ EXCEPT !.version = redis_version, !.pc = "done"]]
    /\ UNCHANGED <<content, clock, redis, redis_version, late, written, events,
                   config_versions, svc>>

Next ==
    \/ Tick
    \/ \E k \in Keys : ChangeContent(k) \/ Expire(k)
    \/ \E w \in late : ExecuteLate(w)
    \/ \E s \in Sessions : Progress(s) \/ Abort(s) \/ \E todo \in Requested : Start(s, todo)
    \/ \E c \in Readers : StartRead(c) \/ ReadKey(c) \/ ReadVersion(c)

\* A handler that can run is run; nothing forces failures, expiry or the clock.
Fairness == \A s \in Sessions : WF_vars(Progress(s))

Spec == Init /\ [][Next]_vars /\ Fairness

----------------------------------------------------------------------------
(* Properties.                                                             *)

Reading == [pc : {"keys", "version", "done"}, todo : Seq(Keys), newest : Nat, version : Nat]

\* The shape of the state.
TypeOK ==
    /\ content \in [Keys -> Nat]
    /\ clock \in Nat
    /\ redis \in [Keys -> Value]
    /\ redis_version \in Nat
    /\ late \subseteq Write /\ written \subseteq Write
    /\ events \subseteq [key : Keys, version : Nat]
    /\ config_versions \subseteq Row
    /\ svc \in [Sessions -> Distribution \cup {Idle}]
    /\ reader \in [Readers -> Reading \cup {Idle}]

\* The history only ever shows distributions that Redis executed, whatever
\* failed, timed out or was retried on the way.
HistoryWasWritten ==
    \A row \in config_versions :
        /\ row.status = "distributed"
        /\ [key |-> row.key, version |-> row.version, content |-> row.content] \in written

\* A consumer that is told of a version by Kafka finds that Redis had it.
EventsWereWritten ==
    \A e \in events : \E w \in written : w.key = e.key /\ w.version = e.version

\* Once requests have ended, Redis is not behind the distribution history: the
\* last recorded configuration of a key is there, or newer, or expired.
RedisNotBehind ==
    Busy = {} =>
        \A row \in config_versions :
            redis[row.key] = Missing \/ redis[row.key].content >= row.content

\* config:version never decreases, with a clock that never goes back.  Two
\* distributions in one millisecond may write the same version.
VersionMonotonic == [][redis_version' >= redis_version]_redis_version

\* The version that GET /configuration returns covers every key it returns.
SnapshotCovered == \A c \in Readers : reader[c].pc = "done" => reader[c].version >= reader[c].newest

\* Whatever is retried, times out or is rolled back, Redis, Kafka and the history
\* show publications of committed configuration, each at once and told of only
\* afterwards; with one request at a time and no late pipelines none is ever
\* overtaken by an older one.
Publication == INSTANCE ConfigPublication WITH
    Ordered <- Serial /\ ~LateWrites,
    published <- written
RefinesPublication == Publication!Spec

\* Every distribution ends, in a commit or in an error.
DistributionEnds == \A s \in Sessions : (svc[s] # Idle) ~> (svc[s] = Idle)
=============================================================================
