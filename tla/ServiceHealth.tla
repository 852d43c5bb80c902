----------------------------- MODULE ServiceHealth -----------------------------
(***************************************************************************)
(* The health requests of one worker process.  GET /services and GET       *)
(* /services/{service} authenticate through the database, check every      *)
(* service concurrently and set the gauges; GET /ready does not            *)
(* authenticate and checks PostgreSQL and Redis only.  Services come and   *)
(* go while the checks run.                                                *)
(*                                                                         *)
(* All requests share the connection pool of the process, those that have  *)
(* nothing to do with health included.  The session that authenticates     *)
(* keeps its connection until the request ends, and the check of PostgreSQL*)
(* takes a second one; no other request takes more than its session's.     *)
(***************************************************************************)
EXTENDS Integers, FiniteSets

CONSTANTS
    Requests,   \* the health requests that the process serves at one time
    Others,     \* the other requests that it serves at one time and that use the database
    Services,   \* the services that get_all_service_health checks
    KindOf,     \* KindOf[s]: which check service s has
    Off,        \* services disabled in the settings, mocked or without URL
    Answers,    \* Answers[s]: the conditions that service s may be in
    PoolSize,   \* connections: database_pool_size + database_max_overflow
    AsyncClient \* opensearchpy has an AsyncOpenSearch to import (it may need aiohttp)

Kinds == {"postgres", "redis", "kafka", "opensearch", "http", "module"}

\* Answers as it should, answers 4xx, answers 5xx or an error, does not answer.
Condition == {"serving", "refusing", "failing", "down"}

ASSUME ServicesAssumption ==
    /\ KindOf \in [Services -> Kinds]
    /\ Answers \in [Services -> SUBSET Condition]
ASSUME PoolAssumption ==
    /\ PoolSize \in Nat \ {0}
    /\ IsFiniteSet(Requests) /\ IsFiniteSet(Others)
    /\ Requests \cap Others = {}
ASSUME ClientAssumption == AsyncClient \in BOOLEAN

VARIABLES
    state,   \* how each service answers
    gauge,   \* the Prometheus gauge of each service
    pool,    \* the connections taken, each by a request for its session or its check
    req      \* the health requests under way

vars == <<state, gauge, pool, req>>

HealthStatus == {"HEALTHY", "DEGRADED", "UNHEALTHY", "UNAVAILABLE", "UNKNOWN"}
Pending == "pending"

\* The session's connection and, in a health request, the check's.
Connection == (Requests \X {"session", "check"}) \cup (Others \X {"session"})

\* results: of the services the request checks; watched: the services whose
\* gauges it sets at the end.
IdleReq == [pc |-> "idle"]
Req == [pc : {"arrived", "checking"}, watched : SUBSET Services,
        results : [Services -> HealthStatus \cup {Pending}]]

Idle(r) == req[r] = IdleReq
Checking(r) == req[r] # IdleReq /\ req[r].pc = "checking"
Waits(r, s) == Checking(r) /\ req[r].results[s] = Pending

Required == {s \in Services : KindOf[s] \in {"postgres", "redis"}}

\* Services out of a request's scope are never looked at.
NothingBut(S) == [s \in Services |-> IF s \in S THEN Pending ELSE "UNKNOWN"]

Init ==
    /\ state \in [Services -> Condition]
    /\ \A s \in Services : state[s] \in Answers[s]
    /\ gauge = [s \in Services |-> 0]
    /\ pool = {}
    /\ req = [r \in Requests |-> IdleReq]

----------------------------------------------------------------------------
(* Verdicts.                                                               *)

\* The ping of OpenSearch returns whether it was answered, and the check does
\* not look at it; the import of a client that is not there is an error.
OpenSearchVerdict == IF AsyncClient THEN "HEALTHY" ELSE "UNAVAILABLE"

\* What a check makes of a service that is on: errors of the client are
\* UNAVAILABLE.
Verdict(kind, condition) ==
    IF kind = "opensearch" THEN OpenSearchVerdict
    ELSE IF condition = "serving" THEN "HEALTHY"
    ELSE IF condition = "down" \/ kind \in {"postgres", "redis", "kafka"} THEN "UNAVAILABLE"
    ELSE IF condition = "refusing" /\ kind = "module" THEN "DEGRADED"
    ELSE "UNHEALTHY"

\* Kafka and Prometheus can be disabled; a module can be mocked or have no URL.
OffVerdict(kind) == IF kind = "module" THEN "UNAVAILABLE" ELSE "UNKNOWN"

\* Fault: every answer below 500 counts as healthy.
CheckedBelow500(s) ==
    IF s \in Off THEN OffVerdict(KindOf[s])
    ELSE IF KindOf[s] = "module" /\ state[s] = "refusing" THEN "HEALTHY"
    ELSE Verdict(KindOf[s], state[s])

Checked(s) == IF s \in Off THEN OffVerdict(KindOf[s]) ELSE Verdict(KindOf[s], state[s])

\* Fault: the gauge tells an outage by a value of its own.
GaugeOfOutage(status) ==
    CASE status = "HEALTHY" -> 1 [] status = "UNAVAILABLE" -> -1 [] OTHER -> 0

GaugeOf(status) == IF status = "HEALTHY" THEN 1 ELSE 0

----------------------------------------------------------------------------
(* Actions.                                                                *)

PoolFull == Cardinality(pool) >= PoolSize

\* A service starts, stops or begins to fail.
Change(s) ==
    /\ \E c \in Answers[s] \ {state[s]} : state' = [state EXCEPT ![s] = c]
    /\ UNCHANGED <<gauge, pool, req>>

\* Any other request takes a connection at its first statement, whatever comes
\* of it, ...
Borrow(o) ==
    /\ <<o, "session">> \notin pool
    /\ ~PoolFull
    /\ pool' = pool \cup {<<o, "session">>}
    /\ UNCHANGED <<state, gauge, req>>

\* ... and gives it back at its end.
Return(o) ==
    /\ <<o, "session">> \in pool
    /\ pool' = pool \ {<<o, "session">>}
    /\ UNCHANGED <<state, gauge, req>>

\* All services, one service, or one that does not exist (404 after all checks).
List(r) ==
    /\ Idle(r)
    /\ \E watched \in {Services, {}} \cup {{s} : s \in Services} :
          req' = [req EXCEPT ![r] = [pc |-> "arrived", watched |-> watched,
                                     results |-> NothingBut(Services)]]
    /\ UNCHANGED <<state, gauge, pool>>

Ready(r) ==
    /\ Idle(r)
    /\ req' = [req EXCEPT ![r] = [pc |-> "checking", watched |-> Required,
                                  results |-> NothingBut(Required)]]
    /\ UNCHANGED <<state, gauge, pool>>

\* The SELECT of the user: the session takes a connection and keeps it.
Authenticate(r) ==
    /\ ~Idle(r) /\ req[r].pc = "arrived"
    /\ ~PoolFull
    /\ \A s \in Services : KindOf[s] = "postgres" => state[s] = "serving"
    /\ pool' = pool \cup {<<r, "session">>}
    /\ req' = [req EXCEPT ![r].pc = "checking"]
    /\ UNCHANGED <<state, gauge>>

\* No connection in time, or no answer from PostgreSQL: the request fails.
AuthenticationFails(r) ==
    /\ ~Idle(r) /\ req[r].pc = "arrived"
    /\ PoolFull \/ \E s \in Services : KindOf[s] = "postgres" /\ state[s] # "serving"
    /\ req' = [req EXCEPT ![r] = IdleReq]
    /\ UNCHANGED <<state, gauge, pool>>

\* A check that needs no connection of the pool.
Answer(r, s) ==
    /\ Waits(r, s)
    /\ KindOf[s] # "postgres"
    /\ req' = [req EXCEPT ![r].results[s] = Checked(s)]
    /\ UNCHANGED <<state, gauge, pool>>

\* The check of PostgreSQL takes a connection ...
Connect(r, s) ==
    /\ Waits(r, s)
    /\ KindOf[s] = "postgres"
    /\ <<r, "check">> \notin pool
    /\ ~PoolFull
    /\ pool' = pool \cup {<<r, "check">>}
    /\ UNCHANGED <<state, gauge, req>>

\* Fault: the connection is given back only when the query succeeds.
SelectOneLeaks(r, s) ==
    /\ Waits(r, s)
    /\ KindOf[s] = "postgres"
    /\ <<r, "check">> \in pool
    /\ req' = [req EXCEPT ![r].results[s] = Checked(s)]
    /\ pool' = IF state[s] = "serving" THEN pool \ {<<r, "check">>} ELSE pool
    /\ UNCHANGED <<state, gauge>>

\* ... asks, and gives it back.
SelectOne(r, s) ==
    /\ Waits(r, s)
    /\ KindOf[s] = "postgres"
    /\ <<r, "check">> \in pool
    /\ req' = [req EXCEPT ![r].results[s] = Checked(s)]
    /\ pool' = pool \ {<<r, "check">>}
    /\ UNCHANGED <<state, gauge>>

\* Fault: the pool has no timeout.
PoolTimeoutNever(r, s) == FALSE /\ UNCHANGED vars

\* No connection in time: the check takes it for an outage of PostgreSQL.
PoolTimeout(r, s) ==
    /\ Waits(r, s)
    /\ KindOf[s] = "postgres"
    /\ <<r, "check">> \notin pool
    /\ PoolFull
    /\ req' = [req EXCEPT ![r].results[s] = "UNAVAILABLE"]
    /\ UNCHANGED <<state, gauge, pool>>

Complete(r) == Checking(r) /\ \A s \in Services : ~Waits(r, s)

\* Fault: only a healthy service is written to its gauge.
FinishOnlyHealthy(r) ==
    /\ Complete(r)
    /\ gauge' = [s \in Services |->
                   IF s \in req[r].watched /\ req[r].results[s] = "HEALTHY" THEN 1 ELSE gauge[s]]
    /\ pool' = pool \ {<<r, "session">>}
    /\ req' = [req EXCEPT ![r] = IdleReq]
    /\ UNCHANGED state

\* gather has all results: the gauges are set and the session is closed.
Finish(r) ==
    /\ Complete(r)
    /\ gauge' = [s \in Services |->
                   IF s \in req[r].watched THEN GaugeOf(req[r].results[s]) ELSE gauge[s]]
    /\ pool' = pool \ {<<r, "session">>}
    /\ req' = [req EXCEPT ![r] = IdleReq]
    /\ UNCHANGED state

Progress(r) ==
    \/ Authenticate(r) \/ AuthenticationFails(r) \/ Finish(r)
    \/ \E s \in Services : Answer(r, s) \/ Connect(r, s) \/ SelectOne(r, s) \/ PoolTimeout(r, s)

Next ==
    \/ \E s \in Services : Change(s)
    \/ \E o \in Others : Borrow(o) \/ Return(o)
    \/ \E r \in Requests : List(r) \/ Ready(r) \/ Progress(r)

\* The process goes on with every health request it serves: every client that
\* the checks use has a timeout, and so has the pool.  How long the other
\* requests keep their connections is not known.
Fairness == \A r \in Requests : WF_vars(Progress(r))

Spec == Init /\ [][Next]_vars /\ Fairness

----------------------------------------------------------------------------
(* Properties.                                                             *)

\* The shape of services, gauges, connections and requests.
TypeOK ==
    /\ state \in [Services -> Condition]
    /\ gauge \in [Services -> {0, 1}]
    /\ pool \subseteq Connection
    /\ req \in [Requests -> Req \cup {IdleReq}]

\* The pool is never overdrawn, and whatever fails on the way no connection
\* outlives its use: the session's belongs to a request that authenticated,
\* the check's to one that still waits for PostgreSQL.
PoolAccounted ==
    /\ Cardinality(pool) <= PoolSize
    /\ \A r \in Requests :
          /\ <<r, "session">> \in pool => Checking(r)
          /\ <<r, "check">> \in pool => \E s \in Services : KindOf[s] = "postgres" /\ Waits(r, s)

\* Health is never fabricated: a check that comes out HEALTHY was answered by
\* a service that serves at that moment.
NeverFabricated ==
    [][\A r \in Requests, s \in Services :
          Waits(r, s) /\ req'[r] # IdleReq /\ req'[r].results[s] = "HEALTHY"
             => state[s] = "serving"]_vars

\* Every health request ends, although requests that hold the last
\* connections wait for one more each, and other requests may keep theirs for
\* as long as they like.
Answered == \A r \in Requests : ~Idle(r) ~> Idle(r)

\* A request that sets the gauge of s ends.
Polled(s) == \E r \in Requests : ~Idle(r) /\ s \in req[r].watched /\ Finish(r)

\* Requests that overlap may set a gauge to what they saw before, but not for
\* ever: once a service stops for good and is still asked for, its gauge
\* settles at 0.
GaugeSettles ==
    \A s \in Services :
        <>[](state[s] # "serving") /\ []<><<Polled(s)>>_vars => <>[](gauge[s] = 0)
=============================================================================
