-------------------------- MODULE ServiceHealthProofs --------------------------
(* Theorems about ServiceHealth for any services, any numbers of concurrent  *)
(* health requests and other requests and any size of the pool.              *)
EXTENDS ServiceHealth, FiniteSetTheorems, TLAPS

\* Every request that needs a connection finds one: a health request for its
\* session or its check, any other request for its session.
RoomForAll ==
    /\ \A r \in Requests :
          \/ ~Idle(r) /\ req[r].pc = "arrived"
          \/ <<r, "check">> \notin pool /\ \E s \in Services : Waits(r, s)
          => ~PoolFull
    /\ \A o \in Others : <<o, "session">> \notin pool => ~PoolFull

PoolInv == TypeOK /\ PoolAccounted

----------------------------------------------------------------------------
(* Lemmas about requests, verdicts and the pool.                           *)

LEMMA IdleOrBusy ==
    ASSUME NEW q \in Req \cup {IdleReq}
    PROVE  q # IdleReq <=> q \in Req
  BY DEF Req, IdleReq

\* A check always comes out with a status.
LEMMA VerdictType ==
    ASSUME TypeOK, NEW s \in Services
    PROVE  Checked(s) \in HealthStatus
  BY DEF Checked, OffVerdict, Verdict, OpenSearchVerdict, HealthStatus

\* A check comes out HEALTHY only if the service serves, except that of an
\* OpenSearch whose client can be imported.
LEMMA VerdictSound ==
    ASSUME NEW s \in Services, AsyncClient => KindOf[s] # "opensearch", Checked(s) = "HEALTHY"
    PROVE  state[s] = "serving"
  BY DEF Checked, OffVerdict, Verdict, OpenSearchVerdict

LEMMA PoolFinite ==
    ASSUME NEW P \in SUBSET Connection
    PROVE  /\ IsFiniteSet(P) /\ Cardinality(P) \in Nat
           /\ IsFiniteSet(Connection)
           /\ Cardinality(Connection) = 2 * Cardinality(Requests) + Cardinality(Others)
<1> DEFINE OfHealth == Requests \X {"session", "check"}
           OfOthers == Others \X {"session"}
<1>1. /\ IsFiniteSet({"session"}) /\ Cardinality({"session"}) = 1
      /\ IsFiniteSet({"session", "check"}) /\ Cardinality({"session", "check"}) = 2
  <2>1. IsFiniteSet({"session"}) /\ Cardinality({"session"}) = 1
    BY FS_Singleton
  <2>2. "check" \notin {"session"} /\ {"session", "check"} = {"session"} \cup {"check"}
    OBVIOUS
  <2> QED BY <2>1, <2>2, FS_AddElement
<1>2. /\ IsFiniteSet(Requests) /\ Cardinality(Requests) \in Nat
      /\ IsFiniteSet(Others) /\ Cardinality(Others) \in Nat
  BY PoolAssumption, FS_CardinalityType
<1>3. IsFiniteSet(OfHealth) /\ Cardinality(OfHealth) = Cardinality(Requests) * 2
  BY <1>1, <1>2, FS_Product
<1>4. IsFiniteSet(OfOthers) /\ Cardinality(OfOthers) = Cardinality(Others) * 1
  BY <1>1, <1>2, FS_Product
<1>5. OfHealth \cap OfOthers = {}
  BY PoolAssumption
<1> HIDE DEF OfHealth, OfOthers
<1>6. /\ IsFiniteSet(OfHealth \cup OfOthers)
      /\ Cardinality(OfHealth \cup OfOthers)
            = Cardinality(Requests) * 2 + Cardinality(Others) * 1 - 0
  BY <1>3, <1>4, <1>5, FS_Union, FS_EmptySet
<1> USE DEF OfHealth, OfOthers
<1>7. Connection = OfHealth \cup OfOthers
  BY DEF Connection
<1> HIDE DEF OfHealth, OfOthers
<1>8. IsFiniteSet(P)
  BY <1>6, <1>7, FS_Subset
<1>9. Cardinality(P) \in Nat
  BY <1>8, FS_CardinalityType
<1> QED BY <1>2, <1>6, <1>7, <1>8, <1>9

\* Taking one connection from a pool that is not full does not overdraw it.
LEMMA TakeOne ==
    ASSUME NEW P \in SUBSET Connection, NEW c \in Connection,
           ~(Cardinality(P) >= PoolSize)
    PROVE  Cardinality(P \cup {c}) <= PoolSize
<1>1. IsFiniteSet(P) /\ Cardinality(P) \in Nat
  BY PoolFinite
<1>2. Cardinality(P \cup {c}) = Cardinality(P) \/ Cardinality(P \cup {c}) = Cardinality(P) + 1
  BY <1>1, FS_AddElement
<1> QED BY <1>1, <1>2, PoolAssumption

LEMMA GiveBack ==
    ASSUME NEW P \in SUBSET Connection, NEW c, Cardinality(P) <= PoolSize
    PROVE  Cardinality(P \ {c}) <= PoolSize
<1>1. IsFiniteSet(P) /\ Cardinality(P) \in Nat
  BY PoolFinite
<1>2. P \ {c} \in SUBSET P
  OBVIOUS
<1>3. Cardinality(P \ {c}) <= Cardinality(P) /\ IsFiniteSet(P \ {c})
  BY <1>1, <1>2, FS_Subset
<1>4. Cardinality(P \ {c}) \in Nat
  BY <1>3, FS_CardinalityType
<1> QED BY <1>1, <1>3, <1>4, PoolAssumption

----------------------------------------------------------------------------
(* Types and connections.                                                  *)

\* Services, gauges, connections and requests keep their shape.
THEOREM TypeCorrect == Spec => []TypeOK
<1>1. Init => TypeOK
  BY DEF Init, TypeOK
<1>2. TypeOK /\ [Next]_vars => TypeOK'
  <2> SUFFICES ASSUME TypeOK, [Next]_vars PROVE TypeOK'
    OBVIOUS
  <2> USE DEF TypeOK
  <2>1. CASE UNCHANGED vars
    BY <2>1 DEF vars
  <2>2. ASSUME NEW s \in Services, Change(s) PROVE TypeOK'
    BY <2>2, ServicesAssumption DEF Change
  <2>3. ASSUME NEW r \in Requests, List(r) PROVE TypeOK'
    BY <2>3 DEF List, Req, NothingBut
  <2>4. ASSUME NEW r \in Requests, Ready(r) PROVE TypeOK'
    BY <2>4 DEF Ready, Req, NothingBut, Required, HealthStatus
  <2>5. ASSUME NEW r \in Requests, Authenticate(r) PROVE TypeOK'
    <3>1. req[r] \in Req
      BY <2>5, IdleOrBusy DEF Authenticate, Idle
    <3>2. [req[r] EXCEPT !.pc = "checking"] \in Req
      BY <3>1 DEF Req
    <3>3. <<r, "session">> \in Connection
      BY DEF Connection
    <3> QED BY <2>5, <3>2, <3>3 DEF Authenticate
  <2>6. ASSUME NEW r \in Requests, AuthenticationFails(r) PROVE TypeOK'
    BY <2>6 DEF AuthenticationFails
  <2>7. ASSUME NEW r \in Requests, NEW s \in Services, NEW st \in HealthStatus,
               Waits(r, s), req' = [req EXCEPT ![r].results[s] = st]
        PROVE  req' \in [Requests -> Req \cup {IdleReq}]
    <3>1. req[r] \in Req
      BY <2>7, IdleOrBusy DEF Waits, Checking
    <3>2. [req[r] EXCEPT !.results[s] = st] \in Req
      BY <3>1 DEF Req
    <3> QED BY <2>7, <3>2
  <2>8. ASSUME NEW r \in Requests, NEW s \in Services, Answer(r, s) PROVE TypeOK'
    BY <2>7, <2>8, VerdictType DEF Answer
  <2>9. ASSUME NEW r \in Requests, NEW s \in Services, Connect(r, s) PROVE TypeOK'
    BY <2>9 DEF Connect, Connection
  <2>10. ASSUME NEW r \in Requests, NEW s \in Services, SelectOne(r, s) PROVE TypeOK'
    BY <2>7, <2>10, VerdictType DEF SelectOne
  <2>11. ASSUME NEW r \in Requests, NEW s \in Services, PoolTimeout(r, s) PROVE TypeOK'
    BY <2>7, <2>11 DEF PoolTimeout, HealthStatus
  <2>12. ASSUME NEW r \in Requests, Finish(r) PROVE TypeOK'
    BY <2>12 DEF Finish, GaugeOf
  <2>13. ASSUME NEW o \in Others, Borrow(o) \/ Return(o) PROVE TypeOK'
    BY <2>13 DEF Borrow, Return, Connection
  <2> QED
    BY <2>1, <2>2, <2>3, <2>4, <2>5, <2>6, <2>8, <2>9, <2>10, <2>11, <2>12, <2>13
       DEF Next, Progress
<1> QED BY <1>1, <1>2, PTL DEF Spec

\* The connections that requests hold, without the size of the pool.
HeldOK ==
    \A r \in Requests :
        /\ <<r, "session">> \in pool => Checking(r)
        /\ <<r, "check">> \in pool => \E s \in Services : KindOf[s] = "postgres" /\ Waits(r, s)

\* A step that changes one request and no connection of another keeps what
\* the others hold.
LEMMA OthersHold ==
    ASSUME TypeOK, HeldOK, NEW r \in Requests,
           \A q \in Requests \ {r} :
              /\ req'[q] = req[q]
              /\ <<q, "session">> \in pool' => <<q, "session">> \in pool
              /\ <<q, "check">> \in pool' => <<q, "check">> \in pool,
           <<r, "session">> \in pool' => Checking(r)',
           <<r, "check">> \in pool' =>
              \E s \in Services : KindOf[s] = "postgres" /\ Waits(r, s)'
    PROVE  HeldOK'
<1> SUFFICES ASSUME NEW q \in Requests
             PROVE  /\ <<q, "session">> \in pool' => Checking(q)'
                    /\ <<q, "check">> \in pool' =>
                          \E s \in Services : KindOf[s] = "postgres" /\ Waits(q, s)'
  BY DEF HeldOK, Waits, Checking
<1>1. CASE q = r
  BY <1>1
<1>2. CASE q # r
  <2>1. Checking(q)' = Checking(q) /\ \A s \in Services : Waits(q, s)' = Waits(q, s)
    BY <1>2 DEF Checking, Waits
  <2> QED BY <1>2, <2>1 DEF HeldOK
<1> QED BY <1>1, <1>2

\* A request that records the result of a check still checks, and waits for
\* the services it waited for before, that one aside.
LEMMA StillWaits ==
    ASSUME TypeOK, NEW r \in Requests, NEW s \in Services, NEW st, Waits(r, s),
           req' = [req EXCEPT ![r].results[s] = st]
    PROVE  /\ Checking(r)'
           /\ \A p \in Services \ {s} : Waits(r, p) => Waits(r, p)'
           /\ \A q \in Requests \ {r} : req'[q] = req[q]
<1>1. req[r] \in Req /\ req[r].pc = "checking"
  BY IdleOrBusy DEF TypeOK, Waits, Checking
<1>2. req'[r] = [req[r] EXCEPT !.results[s] = st]
  BY DEF TypeOK
<1>3. req'[r].pc = "checking" /\ req'[r].results = [req[r].results EXCEPT ![s] = st]
  BY <1>1, <1>2 DEF Req
<1>4. req'[r] # IdleReq
  BY <1>3 DEF IdleReq
<1>5. Checking(r)'
  BY <1>3, <1>4 DEF Checking
<1>6. \A p \in Services \ {s} : req'[r].results[p] = req[r].results[p]
  BY <1>1, <1>3 DEF Req
<1> QED BY <1>5, <1>6 DEF Waits, TypeOK

LEMMA StepHolds ==
    ASSUME TypeOK, HeldOK, [Next]_vars
    PROVE  HeldOK'
<1>1. CASE UNCHANGED vars
  BY <1>1 DEF vars, HeldOK, Checking, Waits
<1>2. ASSUME NEW s \in Services, Change(s) PROVE HeldOK'
  BY <1>2 DEF Change, HeldOK, Checking, Waits
<1>3. ASSUME NEW r \in Requests, List(r) \/ Ready(r) PROVE HeldOK'
  <2>1. ~Checking(r) /\ <<r, "session">> \notin pool /\ <<r, "check">> \notin pool
    BY <1>3 DEF List, Ready, HeldOK, Waits, Checking, Idle
  <2> QED BY <1>3, <2>1, OthersHold DEF List, Ready, TypeOK
<1>4. ASSUME NEW r \in Requests, Authenticate(r) PROVE HeldOK'
  <2>1. req[r] \in Req /\ req'[r] = [req[r] EXCEPT !.pc = "checking"]
    BY <1>4, IdleOrBusy DEF Authenticate, Idle, TypeOK
  <2>2. req'[r].pc = "checking" /\ req'[r] # IdleReq
    BY <2>1 DEF Req, IdleReq
  <2>3. <<r, "check">> \notin pool
    BY <1>4 DEF Authenticate, HeldOK, Waits, Checking
  <2>4. <<r, "check">> \notin pool'
    BY <1>4, <2>3 DEF Authenticate
  <2> QED BY <1>4, <2>2, <2>4, OthersHold DEF Authenticate, Checking, TypeOK
<1>5. ASSUME NEW r \in Requests, AuthenticationFails(r) PROVE HeldOK'
  <2>1. <<r, "session">> \notin pool /\ <<r, "check">> \notin pool
    BY <1>5 DEF AuthenticationFails, HeldOK, Waits, Checking
  <2> QED BY <1>5, <2>1, OthersHold DEF AuthenticationFails, TypeOK
<1>6. ASSUME NEW r \in Requests, NEW s \in Services, Answer(r, s) PROVE HeldOK'
  <2>1. Checking(r)' /\ \A p \in Services \ {s} : Waits(r, p) => Waits(r, p)'
    BY <1>6, StillWaits DEF Answer
  <2>2. \A q \in Requests \ {r} : req'[q] = req[q]
    BY <1>6, StillWaits DEF Answer
  <2> QED BY <1>6, <2>1, <2>2, OthersHold DEF Answer, HeldOK
<1>7. ASSUME NEW r \in Requests, NEW s \in Services, Connect(r, s) PROVE HeldOK'
  <2>1. Checking(r)' /\ Waits(r, s)'
    BY <1>7 DEF Connect, Waits, Checking
  <2> QED BY <1>7, <2>1, OthersHold DEF Connect
<1>8. ASSUME NEW r \in Requests, NEW s \in Services, SelectOne(r, s) PROVE HeldOK'
  <2>1. Checking(r)' /\ \A q \in Requests \ {r} : req'[q] = req[q]
    BY <1>8, StillWaits DEF SelectOne
  <2>2. <<r, "check">> \notin pool'
    BY <1>8 DEF SelectOne
  <2> QED BY <1>8, <2>1, <2>2, OthersHold DEF SelectOne
<1>9. ASSUME NEW r \in Requests, NEW s \in Services, PoolTimeout(r, s) PROVE HeldOK'
  <2>1. Checking(r)' /\ \A q \in Requests \ {r} : req'[q] = req[q]
    BY <1>9, StillWaits DEF PoolTimeout
  <2> QED BY <1>9, <2>1, OthersHold DEF PoolTimeout
<1>10. ASSUME NEW r \in Requests, Finish(r) PROVE HeldOK'
  <2>1. <<r, "check">> \notin pool
    BY <1>10 DEF Finish, Complete, HeldOK
  <2>2. <<r, "check">> \notin pool' /\ <<r, "session">> \notin pool'
    BY <1>10, <2>1 DEF Finish
  <2> QED BY <1>10, <2>2, OthersHold DEF Finish, TypeOK
<1>11. ASSUME NEW o \in Others, Borrow(o) \/ Return(o) PROVE HeldOK'
  <2>1. UNCHANGED req /\ o \notin Requests
    BY <1>11, PoolAssumption DEF Borrow, Return
  <2>2. \A r \in Requests, use \in {"session", "check"} :
           <<r, use>> \in pool' => <<r, use>> \in pool
    BY <1>11, <2>1 DEF Borrow, Return
  <2> QED BY <2>1, <2>2 DEF HeldOK, Checking, Waits
<1> QED
  BY <1>1, <1>2, <1>3, <1>4, <1>5, <1>6, <1>7, <1>8, <1>9, <1>10, <1>11 DEF Next, Progress

\* The pool is never overdrawn and no connection outlives its use, whatever
\* PostgreSQL does while requests authenticate and check it.
THEOREM PoolIsAccounted == Spec => []PoolAccounted
<1>1. Init => HeldOK /\ Cardinality(pool) <= PoolSize
  BY FS_EmptySet, PoolAssumption DEF Init, HeldOK
<1>2. TypeOK /\ HeldOK /\ Cardinality(pool) <= PoolSize /\ [Next]_vars
         => HeldOK' /\ (Cardinality(pool) <= PoolSize)'
  <2> SUFFICES ASSUME TypeOK, HeldOK, Cardinality(pool) <= PoolSize, [Next]_vars
               PROVE  Cardinality(pool') <= PoolSize
    BY StepHolds
  <2>1. pool \in SUBSET Connection
    BY DEF TypeOK
  <2>2. ASSUME NEW c \in Connection, ~PoolFull, pool' = pool \cup {c}
        PROVE  Cardinality(pool') <= PoolSize
    BY <2>1, <2>2, TakeOne DEF PoolFull
  <2>3. ASSUME NEW c, pool' = pool \ {c}
        PROVE  Cardinality(pool') <= PoolSize
    BY <2>1, <2>3, GiveBack
  <2>4. CASE UNCHANGED pool
    BY <2>4
  <2>5. \/ UNCHANGED pool
        \/ \E c \in Connection : ~PoolFull /\ pool' = pool \cup {c}
        \/ \E c : pool' = pool \ {c}
    <3>1. \A r \in Requests : <<r, "session">> \in Connection /\ <<r, "check">> \in Connection
      BY DEF Connection
    <3>2. \A o \in Others : <<o, "session">> \in Connection
      BY DEF Connection
    <3> QED
      BY <3>1, <3>2
         DEF Next, vars, Progress, Change, Borrow, Return, List, Ready, Authenticate,
             AuthenticationFails, Answer, Connect, SelectOne, PoolTimeout, Finish
  <2> QED BY <2>2, <2>3, <2>4, <2>5
<1>3. PoolAccounted <=> HeldOK /\ Cardinality(pool) <= PoolSize
  BY DEF PoolAccounted, HeldOK
<1> QED BY <1>1, <1>2, <1>3, TypeCorrect, PTL DEF Spec

----------------------------------------------------------------------------
(* Verdicts and outages.                                                   *)

\* With every check but that of OpenSearch, and with that one where its client
\* cannot be imported, health is never fabricated.
THEOREM HealthIsObserved ==
    ASSUME AsyncClient => \A s \in Services : KindOf[s] # "opensearch"
    PROVE  Spec => NeverFabricated
<1> DEFINE Observed ==
        \A r \in Requests, s \in Services :
            Waits(r, s) /\ req'[r] # IdleReq /\ req'[r].results[s] = "HEALTHY"
               => state[s] = "serving"
<1>1. ASSUME TypeOK, [Next]_vars PROVE [Observed]_vars
  <2> SUFFICES ASSUME NEW r \in Requests, NEW s \in Services, Next,
                      Waits(r, s), req'[r] # IdleReq, req'[r].results[s] = "HEALTHY"
               PROVE  state[s] = "serving"
    BY <1>1 DEF Observed
  <2>1. req[r] \in Req /\ req[r].pc = "checking" /\ req[r].results[s] = Pending /\ ~Idle(r)
    BY <1>1, IdleOrBusy DEF TypeOK, Waits, Checking, Idle
  <2>2. req'[r] # req[r]
    BY <2>1 DEF Pending
  <2>3. ASSUME NEW p \in Services, NEW st,
               req' = [req EXCEPT ![r].results[p] = st]
        PROVE  p = s /\ st = "HEALTHY"
    <3>1. req'[r].results = [req[r].results EXCEPT ![p] = st]
      BY <1>1, <2>1, <2>3 DEF TypeOK, Req
    <3> QED BY <2>1, <3>1 DEF Req, Pending
  <2>4. PICK p \in Services : Answer(r, p) \/ SelectOne(r, p) \/ PoolTimeout(r, p)
    <3>1. ~Complete(r)
      BY DEF Complete
    <3>2. ~List(r) /\ ~Ready(r) /\ ~Authenticate(r) /\ ~AuthenticationFails(r) /\ ~Finish(r)
      BY <2>1, <3>1 DEF List, Ready, Authenticate, AuthenticationFails, Finish
    <3>3. \A q \in Requests \ {r}, t \in Services :
             /\ ~List(q) /\ ~Ready(q) /\ ~Authenticate(q) /\ ~AuthenticationFails(q) /\ ~Finish(q)
             /\ ~Answer(q, t) /\ ~SelectOne(q, t) /\ ~PoolTimeout(q, t)
      BY <1>1, <2>2 DEF TypeOK, List, Ready, Authenticate, AuthenticationFails, Finish,
                        Answer, SelectOne, PoolTimeout
    <3>4. \A q \in Requests, t \in Services : ~Change(t) /\ ~Connect(q, t)
      BY <2>2 DEF Change, Connect
    <3>5. \A o \in Others : ~Borrow(o) /\ ~Return(o)
      BY <2>2 DEF Borrow, Return
    <3> QED BY <3>2, <3>3, <3>4, <3>5 DEF Next, Progress
  <2>5. CASE Answer(r, p) \/ SelectOne(r, p)
    <3>1. p = s /\ Checked(s) = "HEALTHY"
      BY <2>3, <2>5 DEF Answer, SelectOne
    <3> QED BY <3>1, VerdictSound
  <2>6. CASE PoolTimeout(r, p)
    <3>1. req' = [req EXCEPT ![r].results[p] = "UNAVAILABLE"]
      BY <2>6 DEF PoolTimeout
    <3>2. "UNAVAILABLE" = "HEALTHY"
      BY <2>3, <3>1
    <3> QED BY <3>2
  <2> QED BY <2>4, <2>5, <2>6
<1> QED BY <1>1, TypeCorrect, PTL DEF Spec, NeverFabricated

\* If the pool has two connections for every health request and one for every
\* other request that may be under way, no request waits for one: none fails to
\* authenticate for lack of it, and PostgreSQL is never reported down because of
\* the pool.
THEOREM RoomyPoolNeverBlames ==
    ASSUME 2 * Cardinality(Requests) + Cardinality(Others) <= PoolSize
    PROVE  Spec => []RoomForAll
<1>1. ASSUME TypeOK, HeldOK PROVE RoomForAll
  <2>1. ASSUME NEW c \in Connection, c \notin pool PROVE ~PoolFull
    <3>1. pool \in SUBSET Connection
      BY <1>1 DEF TypeOK
    <3>2. /\ IsFiniteSet(Connection)
          /\ Cardinality(Connection) = 2 * Cardinality(Requests) + Cardinality(Others)
      BY <3>1, PoolFinite
    <3>3. Cardinality(pool) \in Nat /\ Cardinality(Connection) \in Nat
      BY <3>1, <3>2, PoolFinite, FS_CardinalityType
    <3>4. /\ Cardinality(pool) <= Cardinality(Connection)
          /\ Cardinality(pool) # Cardinality(Connection)
      BY <2>1, <3>1, <3>2, FS_Subset
    <3> QED BY <3>2, <3>3, <3>4, PoolAssumption DEF PoolFull
  <2>2. ASSUME NEW r \in Requests,
               \/ ~Idle(r) /\ req[r].pc = "arrived"
               \/ <<r, "check">> \notin pool /\ \E s \in Services : Waits(r, s)
        PROVE  <<r, "check">> \in Connection /\ <<r, "check">> \notin pool
    BY <1>1, <2>2 DEF HeldOK, Waits, Checking, Connection
  <2>3. \A o \in Others : <<o, "session">> \in Connection
    BY DEF Connection
  <2> QED BY <2>1, <2>2, <2>3 DEF RoomForAll
<1>2. Init => HeldOK
  BY DEF Init, HeldOK
<1>3. TypeOK /\ HeldOK /\ [Next]_vars => HeldOK'
  BY StepHolds
<1> QED BY <1>1, <1>2, <1>3, TypeCorrect, PTL DEF Spec

\* Whoever waits for a connection waits for one that can come back: when the
\* pool is full, a health request has its check's connection in hand and needs
\* nothing but the answer of PostgreSQL to return it, or another request has its
\* session's, and will not ask for a second one.
HoldersMoveOn ==
    PoolFull => \/ \E r \in Requests, s \in Services :
                      /\ <<r, "check">> \in pool
                      /\ KindOf[s] = "postgres" /\ Waits(r, s)
                \/ \E o \in Others : <<o, "session">> \in pool

\* With one connection more than health requests, these never hold all the
\* connections with their sessions while each waits for one more, whatever
\* number of other requests there is.  With fewer they can, and then only the
\* pool's timeout ends the wait.
THEOREM OneSparePreventsStandoff ==
    ASSUME Cardinality(Requests) < PoolSize
    PROVE  Spec => []HoldersMoveOn
<1> DEFINE Sessions == Requests \X {"session"}
<1>1. ASSUME TypeOK, HeldOK PROVE HoldersMoveOn
  <2> SUFFICES ASSUME \A r \in Requests : <<r, "check">> \notin pool,
                      \A o \in Others : <<o, "session">> \notin pool
               PROVE  ~PoolFull
    BY <1>1 DEF HoldersMoveOn, HeldOK
  <2>1. pool \in SUBSET Sessions
    BY <1>1 DEF TypeOK, Connection
  <2>2. IsFiniteSet(Sessions) /\ Cardinality(Sessions) = Cardinality(Requests) * 1
    <3>1. IsFiniteSet({"session"}) /\ Cardinality({"session"}) = 1
      BY FS_Singleton
    <3> QED BY <3>1, PoolAssumption, FS_Product
  <2>3. IsFiniteSet(pool) /\ Cardinality(pool) <= Cardinality(Sessions)
    BY <2>1, <2>2, FS_Subset
  <2>4. Cardinality(pool) \in Nat /\ Cardinality(Requests) \in Nat
    BY <2>3, PoolAssumption, FS_CardinalityType
  <2> QED BY <2>2, <2>3, <2>4, PoolAssumption DEF PoolFull
<1>2. Init => HeldOK
  BY DEF Init, HeldOK
<1>3. TypeOK /\ HeldOK /\ [Next]_vars => HeldOK'
  BY StepHolds
<1> QED BY <1>1, <1>2, <1>3, TypeCorrect, PTL DEF Spec
=============================================================================
