---------------------- MODULE ConfigDistributionProofs ----------------------
(* Theorems about ConfigDistribution for any number of sessions, readers and *)
(* keys and any bounds: what holds of every interleaving, late pipelines     *)
(* included, and what would hold if requests were kept apart.               *)
EXTENDS ConfigDistribution, SequenceTheorems, TLAPS

AsWrite(row) == [key |-> row.key, version |-> row.version, content |-> row.content]

\* There is a key to work on in every phase but the last.
TodoOK ==
    /\ \A s \in Sessions : svc[s] # Idle /\ svc[s].pc # "commit" => svc[s].todo # <<>>
    /\ \A c \in Readers : reader[c].pc = "keys" => reader[c].todo # <<>>

\* Uncommitted rows of a request that were marked distributed were written to
\* Redis; the only other row is that of the key being published.
RowsWritten(d) ==
    \A row \in d.rows :
        \/ row.status = "distributed" /\ AsWrite(row) \in written
        \/ d.pc \in {"execute", "finish"} /\ row = CurrentRow(d, "pending")

PublishedOK(d) == d.pc = "finish" => CurrentWrite(d) \in written

SessionsOK == \A s \in Sessions : svc[s] # Idle => RowsWritten(svc[s]) /\ PublishedOK(svc[s])

\* The inductive invariant behind HistoryWasWritten and EventsWereWritten.
WrittenInv == TypeOK /\ TodoOK /\ SessionsOK /\ HistoryWasWritten /\ EventsWereWritten

----------------------------------------------------------------------------
(* Lemmas about the operators of the model.                                *)

\* A session is idle or serves a full request, told apart by its pc.
LEMMA IdleOrBusy ==
    ASSUME NEW d \in Distribution \cup {Idle}
    PROVE  (d = Idle <=> d.pc = "idle") /\ (d \in Distribution <=> d # Idle)
  BY DEF Distribution, Idle

\* The key, row and pipeline of a request that has a key to work on.
LEMMA CurrentTypes ==
    ASSUME NEW d \in Distribution, d.todo # <<>>
    PROVE  /\ Head(d.todo) \in Keys
           /\ Tail(d.todo) \in Seq(Keys)
           /\ Len(d.todo) # 1 => Tail(d.todo) # <<>>
           /\ CurrentWrite(d) \in Write
           /\ \A st \in {"pending", "distributed"} : CurrentRow(d, st) \in Row
<1>1. d.todo \in Seq(Keys) /\ d.version \in Nat /\ d.payload \in Nat
  BY DEF Distribution
<1>2. Head(d.todo) \in Keys /\ Tail(d.todo) \in Seq(Keys)
  BY <1>1
<1>3. Len(d.todo) # 1 => Tail(d.todo) # <<>>
  <2>1. Len(Tail(d.todo)) = Len(d.todo) - 1
    BY <1>1, HeadTailProperties
  <2>2. Tail(d.todo) = <<>> => Len(Tail(d.todo)) = 0
    BY EmptySeq
  <2>3. Len(d.todo) \in Nat
    BY <1>1, LenProperties
  <2> QED BY <2>1, <2>2, <2>3
<1> QED BY <1>1, <1>2, <1>3 DEF CurrentWrite, CurrentRow, Write, Row

\* Whatever a pipeline ends in, Redis only gains the write it carried.
LEMMA PipelineEffect ==
    ASSUME TypeOK, NEW w \in Write, (RedisExecutes(w) /\ UNCHANGED late) \/ NoReply(w)
    PROVE  /\ redis' \in [Keys -> Value] /\ redis_version' \in Nat
           /\ late' \subseteq Write /\ written' \subseteq Write
           /\ written \subseteq written'
           /\ late' # late => LateWrites
<1>1. CASE RedisExecutes(w) /\ UNCHANGED late
  BY <1>1 DEF TypeOK, RedisExecutes, Write, Value
<1>2. CASE UNCHANGED <<redis, redis_version, written, late>>
  BY <1>2 DEF TypeOK
<1>3. CASE LateWrites /\ late' = late \cup {w} /\ UNCHANGED <<redis, redis_version, written>>
  BY <1>3 DEF TypeOK
<1> QED BY <1>1, <1>2, <1>3 DEF NoReply

\* A step that sets the request of one session, while Redis at most gains
\* writes, keeps what is known of the others.
LEMMA SessionStep ==
    ASSUME WrittenInv, NEW s \in Sessions, NEW d \in Distribution \cup {Idle},
           svc' = [svc EXCEPT ![s] = d], written \subseteq written', reader' = reader,
           d # Idle /\ d.pc # "commit" => d.todo # <<>>,
           d # Idle => /\ \A row \in d.rows :
                            \/ row.status = "distributed" /\ AsWrite(row) \in written'
                            \/ d.pc \in {"execute", "finish"} /\ row = CurrentRow(d, "pending")
                       /\ d.pc = "finish" => CurrentWrite(d) \in written'
    PROVE  svc' \in [Sessions -> Distribution \cup {Idle}] /\ TodoOK' /\ SessionsOK'
<1>1. svc \in [Sessions -> Distribution \cup {Idle}]
  BY DEF WrittenInv, TypeOK
<1>2. svc' \in [Sessions -> Distribution \cup {Idle}]
      /\ svc'[s] = d /\ \A t \in Sessions \ {s} : svc'[t] = svc[t]
  BY <1>1
<1>3. TodoOK'
  BY <1>2 DEF WrittenInv, TodoOK
<1>4. ASSUME NEW t \in Sessions, svc'[t] # Idle
      PROVE  RowsWritten(svc[t])' /\ PublishedOK(svc[t])'
  <2>1. CASE t = s
    BY <1>2, <1>4, <2>1 DEF RowsWritten, PublishedOK, CurrentRow, CurrentWrite
  <2>2. CASE t # s
    <3>1. svc'[t] = svc[t] /\ RowsWritten(svc[t]) /\ PublishedOK(svc[t])
      BY <1>2, <1>4, <2>2 DEF WrittenInv, SessionsOK
    <3> QED BY <3>1 DEF RowsWritten, PublishedOK, CurrentRow, CurrentWrite
  <2> QED BY <2>1, <2>2
<1> QED BY <1>2, <1>3, <1>4 DEF SessionsOK

----------------------------------------------------------------------------
(* Every interleaving.                                                     *)

LEMMA InitWritten == Init => WrittenInv
<1> SUFFICES ASSUME Init PROVE WrittenInv
  OBVIOUS
<1>1. TypeOK
  BY DEF Init, TypeOK, Missing, Value
<1>2. TodoOK /\ SessionsOK
  BY DEF Init, TodoOK, SessionsOK, Idle
<1> QED BY <1>1, <1>2 DEF Init, WrittenInv, HistoryWasWritten, EventsWereWritten

\* Steps that leave the sessions, the readers and the histories alone.
LEMMA EnvironmentKeepsWritten ==
    ASSUME WrittenInv,
           Tick \/ \E k \in Keys : ChangeContent(k) \/ Expire(k)
    PROVE  WrittenInv'
<1>1. UNCHANGED <<redis_version, late, written, events, config_versions, svc, reader>>
  BY DEF Tick, ChangeContent, Expire
<1>2. content' \in [Keys -> Nat] /\ clock' \in Nat /\ redis' \in [Keys -> Value]
  <2>1. CASE Tick
    BY <2>1 DEF Tick, WrittenInv, TypeOK
  <2>2. ASSUME NEW k \in Keys, ChangeContent(k) PROVE <1>2!:
    BY <2>2 DEF ChangeContent, WrittenInv, TypeOK
  <2>3. ASSUME NEW k \in Keys, Expire(k) PROVE <1>2!:
    BY <2>3 DEF Expire, WrittenInv, TypeOK, Missing, Value
  <2> QED BY <2>1, <2>2, <2>3
<1>3. TypeOK'
  BY <1>1, <1>2 DEF WrittenInv, TypeOK
<1>4. TodoOK' /\ SessionsOK'
  BY <1>1 DEF WrittenInv, TodoOK, SessionsOK, RowsWritten, PublishedOK, CurrentRow, CurrentWrite
<1> QED
  BY <1>1, <1>3, <1>4 DEF WrittenInv, HistoryWasWritten, EventsWereWritten

LEMMA ExecuteLateKeepsWritten ==
    ASSUME WrittenInv, NEW w \in late, ExecuteLate(w)
    PROVE  WrittenInv'
<1>1. w \in Write
  BY DEF WrittenInv, TypeOK
<1>2. /\ redis' \in [Keys -> Value] /\ redis_version' \in Nat
      /\ written' = written \cup {w} /\ late' \subseteq late
      /\ UNCHANGED <<content, clock, events, config_versions, svc, reader>>
  BY <1>1 DEF ExecuteLate, RedisExecutes, WrittenInv, TypeOK, Write, Value
<1>3. TypeOK'
  BY <1>1, <1>2 DEF WrittenInv, TypeOK
<1>4. TodoOK' /\ SessionsOK'
  BY <1>2 DEF WrittenInv, TodoOK, SessionsOK, RowsWritten, PublishedOK, CurrentRow, CurrentWrite
<1> QED
  BY <1>2, <1>3, <1>4 DEF WrittenInv, HistoryWasWritten, EventsWereWritten

\* The steps of a session but Execute, Finish and Commit touch svc only.
LEMMA QuietStepsKeepWritten ==
    ASSUME WrittenInv, NEW s \in Sessions,
           \/ \E todo \in Requested : Start(s, todo)
           \/ Build(s) \/ Persist(s) \/ Abort(s)
    PROVE  WrittenInv'
<1>1. UNCHANGED <<content, clock, redis, redis_version, late, written, events,
                  config_versions, reader>>
  BY DEF Start, Build, Persist, Abort
<1>2. svc' \in [Sessions -> Distribution \cup {Idle}] /\ TodoOK' /\ SessionsOK'
  <2>1. ASSUME NEW todo \in Requested, Start(s, todo) PROVE <1>2!:
    <3> DEFINE d == [pc |-> "build", todo |-> todo, payload |-> 0, version |-> 0,
                     attempt |-> 0, rows |-> {}]
    <3>1. todo \in Seq(Keys) /\ todo # <<>>
      <4>1. CASE todo = KeyOrder
        BY <4>1, KeysAssumption
      <4>2. ASSUME NEW k \in Keys, todo = <<k>> PROVE <3>1!:
        BY <4>2
      <4> QED BY <4>1, <4>2, <2>1 DEF Requested
    <3>2. d \in Distribution
      BY <3>1 DEF Distribution
    <3>3. svc' = [svc EXCEPT ![s] = d]
      BY <2>1 DEF Start
    <3>4. d.rows = {} /\ d.pc = "build" /\ d.todo # <<>>
      BY <3>1
    <3> HIDE DEF d
    <3> QED BY <1>1, <3>2, <3>3, <3>4, SessionStep
  <2>2. CASE Build(s)
    <3> DEFINE d == [svc[s] EXCEPT !.pc = "persist", !.payload = content[Head(svc[s].todo)]]
    <3>1. svc[s] \in Distribution /\ svc[s].pc = "build" /\ svc[s].todo # <<>>
          /\ RowsWritten(svc[s])
      BY <2>2 DEF Build, WrittenInv, TypeOK, TodoOK, SessionsOK, Idle
    <3>2. content[Head(svc[s].todo)] \in Nat
      BY <3>1, CurrentTypes DEF WrittenInv, TypeOK
    <3>3. d \in Distribution /\ d.todo = svc[s].todo /\ d.rows = svc[s].rows /\ d.pc = "persist"
      BY <3>1, <3>2 DEF Distribution
    <3>4. svc' = [svc EXCEPT ![s] = d]
      BY <2>2 DEF Build
    <3>5. \A row \in d.rows : row.status = "distributed" /\ AsWrite(row) \in written
      BY <3>1, <3>3 DEF RowsWritten
    <3> HIDE DEF d
    <3> QED BY <1>1, <3>1, <3>3, <3>4, <3>5, SessionStep
  <2>3. CASE Persist(s)
    <3> DEFINE e == [svc[s] EXCEPT !.pc = "execute", !.version = clock, !.attempt = 0]
               d == [e EXCEPT !.rows = @ \cup {CurrentRow(e, "pending")}]
    <3>1. svc[s] \in Distribution /\ svc[s].pc = "persist" /\ svc[s].todo # <<>>
          /\ RowsWritten(svc[s])
      BY <2>3 DEF Persist, WrittenInv, TypeOK, TodoOK, SessionsOK, Idle
    <3>2. e \in Distribution /\ e.todo = svc[s].todo /\ e.rows = svc[s].rows /\ e.pc = "execute"
      BY <3>1 DEF Distribution, WrittenInv, TypeOK
    <3>3. svc' = [svc EXCEPT ![s] = d]
      BY <2>3 DEF Persist
    <3> HIDE DEF e
    <3>4. CurrentRow(e, "pending") \in Row
      BY <3>1, <3>2, CurrentTypes
    <3>5. /\ d \in Distribution /\ d.todo = svc[s].todo /\ d.pc = "execute"
          /\ d.rows = svc[s].rows \cup {CurrentRow(e, "pending")}
          /\ CurrentRow(d, "pending") = CurrentRow(e, "pending")
      BY <3>2, <3>4 DEF Distribution, CurrentRow
    <3>6. \A row \in svc[s].rows : row.status = "distributed" /\ AsWrite(row) \in written
      BY <3>1 DEF RowsWritten
    <3> HIDE DEF d
    <3> QED BY <1>1, <3>1, <3>3, <3>5, <3>6, SessionStep
  <2>4. CASE Abort(s)
    <3>1. svc' = [svc EXCEPT ![s] = Idle]
      BY <2>4 DEF Abort
    <3> QED BY <1>1, <3>1, SessionStep
  <2> QED BY <2>1, <2>2, <2>3, <2>4
<1>3. TypeOK'
  BY <1>1, <1>2 DEF WrittenInv, TypeOK
<1> QED
  BY <1>1, <1>2, <1>3 DEF WrittenInv, HistoryWasWritten, EventsWereWritten

\* Execute: whatever the pipeline ends in, a request that goes on to finish
\* has its write in Redis.
LEMMA ExecuteKeepsWritten ==
    ASSUME WrittenInv, NEW s \in Sessions, Execute(s)
    PROVE  WrittenInv'
<1> DEFINE w == CurrentWrite(svc[s])
<1>1. /\ svc[s] \in Distribution /\ svc[s].pc = "execute" /\ svc[s].todo # <<>>
      /\ RowsWritten(svc[s])
  BY DEF Execute, WrittenInv, TypeOK, TodoOK, SessionsOK, Idle
<1>2. w \in Write
  BY <1>1, CurrentTypes
<1>3. (RedisExecutes(w) /\ UNCHANGED late) \/ NoReply(w)
  BY DEF Execute
<1>4. UNCHANGED <<content, clock, events, config_versions, reader>>
  BY DEF Execute
<1> HIDE DEF w
<1>5. /\ redis' \in [Keys -> Value] /\ redis_version' \in Nat
      /\ late' \subseteq Write /\ written' \subseteq Write /\ written \subseteq written'
  BY <1>2, <1>3, PipelineEffect DEF WrittenInv
<1>6. svc' \in [Sessions -> Distribution \cup {Idle}] /\ TodoOK' /\ SessionsOK'
  <2>1. CASE RedisExecutes(w) /\ svc' = [svc EXCEPT ![s].pc = "finish"]
    <3> DEFINE d == [svc[s] EXCEPT !.pc = "finish"]
    <3>1. /\ d \in Distribution /\ d.todo = svc[s].todo /\ d.rows = svc[s].rows
          /\ d.pc = "finish" /\ CurrentRow(d, "pending") = CurrentRow(svc[s], "pending")
          /\ CurrentWrite(d) = w
      BY <1>1 DEF Distribution, CurrentRow, CurrentWrite, w
    <3>2. w \in written'
      BY <2>1 DEF RedisExecutes
    <3>3. svc' = [svc EXCEPT ![s] = d]
      BY <2>1
    <3>4. \A row \in d.rows : \/ row.status = "distributed" /\ AsWrite(row) \in written'
                              \/ row = CurrentRow(d, "pending")
      BY <1>1, <1>5, <3>1 DEF RowsWritten
    <3> HIDE DEF d
    <3> QED BY <1>1, <1>4, <1>5, <3>1, <3>2, <3>3, <3>4, SessionStep
  <2>2. CASE svc' = [svc EXCEPT ![s].attempt = 1]
    <3> DEFINE d == [svc[s] EXCEPT !.attempt = 1]
    <3>1. /\ d \in Distribution /\ d.todo = svc[s].todo /\ d.rows = svc[s].rows
          /\ d.pc = "execute" /\ CurrentRow(d, "pending") = CurrentRow(svc[s], "pending")
      BY <1>1 DEF Distribution, CurrentRow
    <3>3. svc' = [svc EXCEPT ![s] = d]
      BY <2>2
    <3>4. \A row \in d.rows : \/ row.status = "distributed" /\ AsWrite(row) \in written'
                              \/ row = CurrentRow(d, "pending")
      BY <1>1, <1>5, <3>1 DEF RowsWritten
    <3> HIDE DEF d
    <3> QED BY <1>1, <1>4, <1>5, <3>1, <3>3, <3>4, SessionStep
  <2>3. CASE svc' = [svc EXCEPT ![s] = Idle]
    BY <1>4, <1>5, <2>3, SessionStep
  <2> QED BY <2>1, <2>2, <2>3 DEF Execute, w
<1>7. TypeOK'
  BY <1>4, <1>5, <1>6 DEF WrittenInv, TypeOK
<1> QED
  BY <1>4, <1>5, <1>6, <1>7 DEF WrittenInv, HistoryWasWritten, EventsWereWritten

\* Finish: the row it marks, and the message it sends, name a write of Redis.
LEMMA FinishKeepsWritten ==
    ASSUME WrittenInv, NEW s \in Sessions, Finish(s)
    PROVE  WrittenInv'
<1> DEFINE d == AfterKey(svc[s])
           new == CurrentRow(svc[s], "distributed")
<1>1. /\ svc[s] \in Distribution /\ svc[s].pc = "finish" /\ svc[s].todo # <<>>
      /\ RowsWritten(svc[s]) /\ CurrentWrite(svc[s]) \in written
  BY DEF Finish, WrittenInv, TypeOK, TodoOK, SessionsOK, PublishedOK, Idle
<1>2. /\ Tail(svc[s].todo) \in Seq(Keys) /\ new \in Row
      /\ Len(svc[s].todo) # 1 => Tail(svc[s].todo) # <<>>
      /\ Head(svc[s].todo) \in Keys
  BY <1>1, CurrentTypes
<1>3. /\ svc' = [svc EXCEPT ![s] = d]
      /\ UNCHANGED <<content, clock, redis, redis_version, late, written, config_versions, reader>>
  BY DEF Finish
<1>4. /\ d.rows = (svc[s].rows \ {CurrentRow(svc[s], "pending")}) \cup {new}
      /\ d.todo = Tail(svc[s].todo)
      /\ d.pc = IF Len(svc[s].todo) = 1 THEN "commit" ELSE "build"
      /\ d \in Distribution
  <2> HIDE DEF new
  <2>1. d = [svc[s] EXCEPT !.rows = (@ \ {CurrentRow(svc[s], "pending")}) \cup {new},
                           !.todo = Tail(@),
                           !.pc = IF Len(svc[s].todo) = 1 THEN "commit" ELSE "build"]
    BY DEF AfterKey, new
  <2>2. (svc[s].rows \ {CurrentRow(svc[s], "pending")}) \cup {new} \subseteq Row
    BY <1>1, <1>2 DEF Distribution
  <2> HIDE DEF d
  <2> QED BY <1>1, <1>2, <2>1, <2>2 DEF Distribution
<1>5. new.status = "distributed" /\ AsWrite(new) = CurrentWrite(svc[s])
  BY DEF CurrentRow, CurrentWrite, AsWrite
<1> HIDE DEF d, new
<1>6. \A row \in d.rows : row.status = "distributed" /\ AsWrite(row) \in written
  BY <1>1, <1>4, <1>5 DEF RowsWritten
<1>7. svc' \in [Sessions -> Distribution \cup {Idle}] /\ TodoOK' /\ SessionsOK'
  BY <1>2, <1>3, <1>4, <1>6, SessionStep
<1>8. EventsWereWritten' /\ events' \subseteq [key : Keys, version : Nat]
  <2>1. /\ CurrentWrite(svc[s]).key = Head(svc[s].todo)
        /\ CurrentWrite(svc[s]).version = svc[s].version
        /\ svc[s].version \in Nat
    BY <1>1 DEF CurrentWrite, Distribution
  <2>2. \/ events' = events
        \/ events' = events \cup {[key |-> Head(svc[s].todo), version |-> svc[s].version]}
    BY DEF Finish
  <2>3. events \subseteq [key : Keys, version : Nat] /\ EventsWereWritten /\ written' = written
    BY <1>3 DEF WrittenInv, TypeOK
  <2>4. [key |-> Head(svc[s].todo), version |-> svc[s].version] \in [key : Keys, version : Nat]
    BY <1>2, <2>1
  <2>5. events' \subseteq [key : Keys, version : Nat]
    BY <2>2, <2>3, <2>4
  <2>6. ASSUME NEW e \in events'
        PROVE  \E w \in written : w.key = e.key /\ w.version = e.version
    <3>1. CASE e \in events
      BY <2>3, <3>1 DEF EventsWereWritten
    <3>2. CASE e = [key |-> Head(svc[s].todo), version |-> svc[s].version]
      BY <1>1, <2>1, <3>2
    <3> QED BY <2>2, <2>6, <3>1, <3>2
  <2> QED BY <2>3, <2>5, <2>6 DEF EventsWereWritten
<1>9. TypeOK'
  BY <1>3, <1>7, <1>8 DEF WrittenInv, TypeOK
<1> QED
  BY <1>3, <1>7, <1>8, <1>9 DEF WrittenInv, HistoryWasWritten

LEMMA CommitKeepsWritten ==
    ASSUME WrittenInv, NEW s \in Sessions, Commit(s)
    PROVE  WrittenInv'
<1>1. svc[s] \in Distribution /\ svc[s].pc = "commit" /\ RowsWritten(svc[s])
  BY DEF Commit, WrittenInv, TypeOK, SessionsOK, Idle
<1>2. /\ svc' = [svc EXCEPT ![s] = Idle]
      /\ config_versions' = config_versions \cup svc[s].rows
      /\ UNCHANGED <<content, clock, redis, redis_version, late, written, events, reader>>
  BY DEF Commit
<1>3. svc' \in [Sessions -> Distribution \cup {Idle}] /\ TodoOK' /\ SessionsOK'
  BY <1>2, SessionStep
<1>4. svc[s].rows \subseteq Row
  BY <1>1 DEF Distribution
<1>5. TypeOK'
  BY <1>2, <1>3, <1>4 DEF WrittenInv, TypeOK
<1>6. HistoryWasWritten'
  BY <1>1, <1>2 DEF WrittenInv, HistoryWasWritten, RowsWritten, AsWrite
<1> QED
  BY <1>2, <1>3, <1>5, <1>6 DEF WrittenInv, EventsWereWritten

\* The readers change nothing but their own snapshot.
LEMMA ReaderKeepsWritten ==
    ASSUME WrittenInv, NEW c \in Readers, StartRead(c) \/ ReadKey(c) \/ ReadVersion(c)
    PROVE  WrittenInv'
<1>1. UNCHANGED <<content, clock, redis, redis_version, late, written, events,
                  config_versions, svc>>
  BY DEF StartRead, ReadKey, ReadVersion
<1>2. /\ reader' \in [Readers -> Reading \cup {Idle}]
      /\ \A b \in Readers : reader'[b].pc = "keys" => reader'[b].todo # <<>>
  <2>1. CASE StartRead(c)
    <3> DEFINE r == [pc |-> "keys", todo |-> KeyOrder, newest |-> 0, version |-> 0]
    <3>1. r \in Reading /\ reader' = [reader EXCEPT ![c] = r] /\ r.todo # <<>>
      BY <2>1, KeysAssumption DEF StartRead, Reading
    <3> HIDE DEF r
    <3> QED BY <3>1 DEF WrittenInv, TypeOK, TodoOK
  <2>2. CASE ReadKey(c)
    <3> DEFINE k == Head(reader[c].todo)
               n == Newer(reader[c].newest, redis[k].version)
               q == IF Len(reader[c].todo) = 1 THEN "version" ELSE "keys"
               r == [reader[c] EXCEPT !.newest = n, !.todo = Tail(@), !.pc = q]
    <3>1. reader[c] \in Reading /\ reader[c].pc = "keys" /\ reader[c].todo # <<>>
      BY <2>2 DEF ReadKey, WrittenInv, TypeOK, TodoOK, Idle
    <3>2. reader[c].todo \in Seq(Keys) /\ reader[c].newest \in Nat
      BY <3>1 DEF Reading
    <3>3. /\ k \in Keys /\ Tail(reader[c].todo) \in Seq(Keys)
          /\ Len(Tail(reader[c].todo)) = Len(reader[c].todo) - 1
          /\ Len(reader[c].todo) \in Nat
      BY <3>1, <3>2, HeadTailProperties, LenProperties
    <3>4. redis[k].version \in Nat
      BY <3>3 DEF WrittenInv, TypeOK, Value
    <3>5. n \in Nat
      BY <3>2, <3>4 DEF Newer
    <3>6. q = "keys" => Tail(reader[c].todo) # <<>>
      <4>1. Tail(reader[c].todo) = <<>> => Len(Tail(reader[c].todo)) = 0
        BY EmptySeq
      <4> QED BY <3>3, <4>1
    <3>7. reader' = [reader EXCEPT ![c] = r]
      BY <2>2 DEF ReadKey
    <3> HIDE DEF n, q
    <3>8. r \in Reading /\ r.pc = q /\ r.todo = Tail(reader[c].todo)
      BY <3>1, <3>3, <3>5 DEF Reading, q
    <3> HIDE DEF r
    <3> QED BY <3>6, <3>7, <3>8 DEF WrittenInv, TypeOK, TodoOK
  <2>3. CASE ReadVersion(c)
    <3>1. reader[c] \in Reading
      BY <2>3 DEF ReadVersion, WrittenInv, TypeOK, Idle
    <3> DEFINE r == [reader[c] EXCEPT !.version = redis_version, !.pc = "done"]
    <3>2. r \in Reading /\ r.pc = "done" /\ reader' = [reader EXCEPT ![c] = r]
      BY <2>3, <3>1 DEF ReadVersion, Reading, WrittenInv, TypeOK
    <3> HIDE DEF r
    <3> QED BY <3>2 DEF WrittenInv, TypeOK, TodoOK
  <2> QED BY <2>1, <2>2, <2>3
<1>3. TypeOK'
  BY <1>1, <1>2 DEF WrittenInv, TypeOK
<1>4. TodoOK' /\ SessionsOK'
  BY <1>1, <1>2 DEF WrittenInv, TodoOK, SessionsOK, RowsWritten, PublishedOK, CurrentRow, CurrentWrite
<1> QED
  BY <1>1, <1>3, <1>4 DEF WrittenInv, HistoryWasWritten, EventsWereWritten

LEMMA NextKeepsWritten == WrittenInv /\ [Next]_vars => WrittenInv'
<1> SUFFICES ASSUME WrittenInv, [Next]_vars PROVE WrittenInv'
  OBVIOUS
<1>1. CASE Tick \/ \E k \in Keys : ChangeContent(k) \/ Expire(k)
  BY <1>1, EnvironmentKeepsWritten
<1>2. ASSUME NEW w \in late, ExecuteLate(w) PROVE WrittenInv'
  BY <1>2, ExecuteLateKeepsWritten
<1>3. ASSUME NEW s \in Sessions,
             Progress(s) \/ Abort(s) \/ \E todo \in Requested : Start(s, todo)
      PROVE  WrittenInv'
  BY <1>3, QuietStepsKeepWritten, ExecuteKeepsWritten, FinishKeepsWritten, CommitKeepsWritten
     DEF Progress
<1>4. ASSUME NEW c \in Readers, StartRead(c) \/ ReadKey(c) \/ ReadVersion(c) PROVE WrittenInv'
  BY <1>4, ReaderKeepsWritten
<1>5. CASE UNCHANGED vars
  BY <1>5 DEF vars, WrittenInv, TypeOK, TodoOK, SessionsOK, RowsWritten, PublishedOK,
              CurrentRow, CurrentWrite, HistoryWasWritten, EventsWereWritten
<1> QED BY <1>1, <1>2, <1>3, <1>4, <1>5 DEF Next

LEMMA SpecKeepsWritten == Spec => []WrittenInv
  BY InitWritten, NextKeepsWritten, PTL DEF Spec

\* The state always has the shape of TypeOK.
THEOREM TypeCorrect == Spec => []TypeOK
<1>1. WrittenInv => TypeOK
  BY DEF WrittenInv
<1> QED BY <1>1, SpecKeepsWritten, PTL

\* Every row of the distribution history (configuration_versions) was executed
\* by Redis, in every interleaving of requests, retries and late pipelines.
THEOREM HistoryIsTrue == Spec => []HistoryWasWritten
<1>1. WrittenInv => HistoryWasWritten
  BY DEF WrittenInv
<1> QED BY <1>1, SpecKeepsWritten, PTL

\* Every config_updated message names a version that Redis had been given.
THEOREM EventsAreTrue == Spec => []EventsWereWritten
<1>1. WrittenInv => EventsWereWritten
  BY DEF WrittenInv
<1> QED BY <1>1, SpecKeepsWritten, PTL

----------------------------------------------------------------------------
(* One writer at a time, and no pipeline executed after its client left.   *)

\* No two requests are between the reading of the clock and the end of the
\* pipeline that writes it as a version.
OneWriter == \A s, t \in Sessions : svc[s].pc = "execute" /\ svc[t].pc = "execute" => s = t

\* The version in Redis is a time that has passed, and a request that is about
\* to write one read the clock no earlier.
VersionsPast ==
    /\ redis_version <= clock
    /\ \A s \in Sessions : svc[s].pc = "execute" =>
          redis_version <= svc[s].version /\ svc[s].version <= clock

\* config:version covers what the keys hold, and what a reader has collected.
KeysCovered == \A k \in Keys : redis[k].version <= redis_version
ReadersCovered == \A c \in Readers : reader[c].pc # "idle" => reader[c].newest <= redis_version

\* The inductive invariant behind VersionMonotonic and SnapshotCovered.
WriterInv == late = {} /\ VersionsPast /\ KeysCovered /\ ReadersCovered /\ SnapshotCovered

LEMMA InitWriter == Init => WriterInv
<1> SUFFICES ASSUME Init PROVE WriterInv
  OBVIOUS
<1>1. late = {}
  BY DEF Init
<1>2. VersionsPast /\ KeysCovered
  BY DEF Init, VersionsPast, KeysCovered, Missing, Idle
<1>3. ReadersCovered /\ SnapshotCovered
  BY DEF Init, ReadersCovered, SnapshotCovered, Idle
<1> QED BY <1>1, <1>2, <1>3 DEF WriterInv

\* Every step of a session: config:version moves forward or stays, and a
\* request that reaches execute has read the clock.
LEMMA SessionKeepsVersion ==
    ASSUME ~LateWrites, WrittenInv, OneWriter, WriterInv, NEW s \in Sessions,
           Progress(s) \/ Abort(s) \/ \E todo \in Requested : Start(s, todo)
    PROVE  WriterInv' /\ redis_version' >= redis_version
<1>1. /\ redis_version \in Nat /\ clock \in Nat /\ clock' = clock
      /\ reader' = reader /\ redis \in [Keys -> Value]
      /\ svc \in [Sessions -> Distribution \cup {Idle}]
  BY DEF WrittenInv, TypeOK, Progress, Build, Persist, Execute, Finish, Commit, Abort, Start
<1>2. ASSUME NEW d, svc' = [svc EXCEPT ![s] = d],
             UNCHANGED <<redis, redis_version, late>>,
             d.pc = "execute" => redis_version <= d.version /\ d.version <= clock
      PROVE  WriterInv' /\ redis_version' >= redis_version
  <2>1. svc'[s] = d /\ \A t \in Sessions \ {s} : svc'[t] = svc[t]
    BY <1>1, <1>2
  <2>2. VersionsPast'
    BY <1>1, <1>2, <2>1 DEF WriterInv, VersionsPast
  <2> QED
    BY <1>1, <1>2, <2>1, <2>2 DEF WriterInv, KeysCovered, ReadersCovered, SnapshotCovered
<1>3. ASSUME NEW todo \in Requested, Start(s, todo)
      PROVE  WriterInv' /\ redis_version' >= redis_version
  <2> DEFINE d == [pc |-> "build", todo |-> todo, payload |-> 0, version |-> 0,
                   attempt |-> 0, rows |-> {}]
  <2>1. d.pc = "build" /\ svc' = [svc EXCEPT ![s] = d]
        /\ UNCHANGED <<redis, redis_version, late>>
    BY <1>3 DEF Start
  <2> HIDE DEF d
  <2> QED BY <2>1, <1>2
<1>4. CASE Build(s)
  <2> DEFINE d == [svc[s] EXCEPT !.pc = "persist", !.payload = content[Head(svc[s].todo)]]
  <2>1. /\ svc[s] \in Distribution /\ s \in Busy
    BY <1>1, <1>4 DEF Build, Busy, Idle
  <2>2. /\ d.pc = "persist" /\ svc' = [svc EXCEPT ![s] = d]
        /\ UNCHANGED <<redis, redis_version, late>>
    BY <1>4, <2>1 DEF Build, Distribution
  <2> HIDE DEF d
  <2> QED BY <2>1, <2>2, <1>2
<1>5. CASE Persist(s)
  <2> DEFINE e == [svc[s] EXCEPT !.pc = "execute", !.version = clock, !.attempt = 0]
             d == [e EXCEPT !.rows = @ \cup {CurrentRow(e, "pending")}]
  <2>1. svc[s] \in Distribution /\ s \in Busy
    BY <1>1, <1>5 DEF Persist, Busy, Idle
  <2>2. e \in Distribution /\ e.version = clock
    BY <1>1, <2>1 DEF Distribution
  <2>3. svc' = [svc EXCEPT ![s] = d] /\ UNCHANGED <<redis, redis_version, late>>
    BY <1>5 DEF Persist
  <2> HIDE DEF e
  <2>4. d.version = clock
    BY <2>2 DEF Distribution
  <2> HIDE DEF d
  <2>5. redis_version <= clock
    BY DEF WriterInv, VersionsPast
  <2>6. redis_version <= d.version /\ d.version <= clock
    BY <1>1, <2>4, <2>5
  <2> QED BY <2>1, <2>3, <2>6, <1>2
<1>6. CASE Execute(s)
  <2> DEFINE w == CurrentWrite(svc[s])
  <2>1. svc[s] \in Distribution /\ s \in Busy /\ svc[s].pc = "execute" /\ svc[s].todo # <<>>
    BY <1>1, <1>6 DEF Execute, Busy, Idle, WrittenInv, TodoOK
  <2>2. w \in Write /\ w.version = svc[s].version
    BY <2>1, CurrentTypes DEF CurrentWrite
  <2>3. redis_version <= w.version /\ w.version <= clock /\ w.version \in Nat
    BY <2>1, <2>2 DEF WriterInv, VersionsPast, Write
  <2>4. UNCHANGED <<redis, redis_version, late>> \/ (RedisExecutes(w) /\ UNCHANGED late)
    BY <1>6 DEF Execute, NoReply
  <2>5. PICK d : /\ svc' = [svc EXCEPT ![s] = d]
                 /\ d.pc = "execute" => d.version = w.version
    <3>1. CASE svc' = [svc EXCEPT ![s].pc = "finish"]
      <4>1. [svc[s] EXCEPT !.pc = "finish"].pc = "finish"
        BY <2>1 DEF Distribution
      <4>2. svc' = [svc EXCEPT ![s] = [svc[s] EXCEPT !.pc = "finish"]]
        BY <3>1
      <4> QED BY <4>1, <4>2
    <3>2. CASE svc' = [svc EXCEPT ![s].attempt = 1]
      <4> DEFINE e == [svc[s] EXCEPT !.attempt = 1]
      <4>1. e.version = w.version
        BY <2>1, <2>2 DEF Distribution
      <4>2. svc' = [svc EXCEPT ![s] = e]
        BY <3>2
      <4> HIDE DEF e
      <4> QED BY <4>1, <4>2
    <3>3. CASE svc' = [svc EXCEPT ![s] = Idle]
      <4>1. Idle.pc # "execute"
        BY DEF Idle
      <4> QED BY <3>3, <4>1
    <3> QED BY <1>6, <3>1, <3>2, <3>3 DEF Execute
  <2> HIDE DEF w
  <2>6. CASE UNCHANGED <<redis, redis_version, late>>
    BY <2>1, <2>3, <2>5, <2>6, <1>2
  <2>7. CASE RedisExecutes(w) /\ UNCHANGED late
    <3>1. \A t \in Sessions \ {s} : svc'[t] = svc[t] /\ svc[t].pc # "execute"
      BY <1>1, <2>1, <2>5 DEF OneWriter
    <3>2. redis_version' = w.version /\ late' = {} /\ redis_version' >= redis_version
      BY <1>1, <2>3, <2>7 DEF RedisExecutes, WriterInv
    <3>3. VersionsPast'
      <4>1. svc'[s] = d
        BY <1>1, <2>5
      <4>2. redis_version' <= clock' /\ clock' = clock
        BY <1>1, <2>3, <3>2
      <4>3. svc'[s].pc = "execute" => redis_version' <= svc'[s].version /\ svc'[s].version <= clock'
        BY <2>3, <2>5, <3>2, <4>1, <4>2
      <4>4. \A t \in Sessions \ {s} : svc'[t].pc # "execute"
        BY <3>1
      <4> QED BY <4>2, <4>3, <4>4 DEF VersionsPast
    <3>4. KeysCovered'
      BY <1>1, <2>3, <2>7, <3>2 DEF WriterInv, KeysCovered, RedisExecutes, Write, Value
    <3>5. ReadersCovered' /\ SnapshotCovered'
      <4>1. \A c \in Readers : reader[c].pc # "idle" => reader[c].newest \in Nat
        BY DEF WrittenInv, TypeOK, Reading, Idle
      <4> QED BY <1>1, <2>3, <3>2, <4>1 DEF WriterInv, ReadersCovered, SnapshotCovered
    <3> QED BY <3>1, <3>2, <3>3, <3>4, <3>5 DEF WriterInv
  <2> QED BY <2>4, <2>6, <2>7
<1>7. CASE Finish(s)
  <2>1. svc[s] \in Distribution /\ s \in Busy
    BY <1>1, <1>7 DEF Finish, Busy, Idle
  <2>2. svc' = [svc EXCEPT ![s] = AfterKey(svc[s])] /\ UNCHANGED <<redis, redis_version, late>>
    BY <1>7 DEF Finish
  <2>3. AfterKey(svc[s]).pc # "execute"
    BY <2>1 DEF AfterKey, Distribution
  <2> QED BY <2>1, <2>2, <2>3, <1>2
<1>8. CASE Commit(s) \/ Abort(s)
  <2>1. s \in Busy /\ svc' = [svc EXCEPT ![s] = Idle] /\ UNCHANGED <<redis, redis_version, late>>
    BY <1>8 DEF Commit, Abort, Busy, Idle
  <2>2. Idle.pc # "execute"
    BY DEF Idle
  <2> QED BY <2>1, <2>2, <1>2
<1> QED BY <1>3, <1>4, <1>5, <1>6, <1>7, <1>8 DEF Progress

\* Steps that leave the sessions alone: the clock moves forward, keys expire,
\* and nothing of a pipeline is left to be executed late.
LEMMA OthersKeepVersion ==
    ASSUME WrittenInv, WriterInv,
           \/ Tick \/ \E k \in Keys : ChangeContent(k) \/ Expire(k)
           \/ \E w \in late : ExecuteLate(w)
           \/ \E c \in Readers : StartRead(c) \/ ReadKey(c) \/ ReadVersion(c)
           \/ UNCHANGED vars
    PROVE  WriterInv' /\ redis_version' >= redis_version
<1>1. /\ redis_version \in Nat /\ clock \in Nat /\ redis \in [Keys -> Value]
      /\ \A s \in Sessions : svc[s].pc = "execute" => svc[s].version \in Nat
  <2>1. \A s \in Sessions : svc[s].pc = "execute" => svc[s] \in Distribution
    BY DEF WrittenInv, TypeOK, Idle
  <2> QED BY <2>1 DEF WrittenInv, TypeOK, Distribution
<1>2. ~ \E w \in late : ExecuteLate(w)
  BY DEF WriterInv
<1>3. UNCHANGED <<svc, redis_version, late>>
  BY <1>2 DEF Tick, ChangeContent, Expire, StartRead, ReadKey, ReadVersion, vars
<1>4. clock' \in Nat /\ clock' >= clock
  <2>1. clock' = clock \/ clock' = clock + 1
    BY <1>2 DEF Tick, ChangeContent, Expire, StartRead, ReadKey, ReadVersion, vars
  <2> QED BY <1>1, <2>1
<1>5. late' = {}
  BY <1>3 DEF WriterInv
<1>6. VersionsPast'
  BY <1>1, <1>3, <1>4 DEF WriterInv, VersionsPast
<1>7. KeysCovered'
  <2>1. CASE \E k \in Keys : Expire(k)
    BY <1>1, <1>3, <2>1 DEF Expire, WriterInv, KeysCovered, Missing
  <2>2. CASE redis' = redis
    BY <1>3, <2>2 DEF WriterInv, KeysCovered
  <2> QED
    BY <1>2, <2>1, <2>2 DEF Tick, ChangeContent, StartRead, ReadKey, ReadVersion, vars
<1>8. ReadersCovered' /\ SnapshotCovered'
  <2>1. reader \in [Readers -> Reading \cup {Idle}]
    BY DEF WrittenInv, TypeOK
  <2>2. ASSUME NEW c \in Readers, NEW r,
               r.pc # "idle" => r.newest <= redis_version,
               r.pc = "done" => r.version >= r.newest,
               reader' = [reader EXCEPT ![c] = r]
        PROVE  <1>8!:
    <3>1. reader'[c] = r /\ \A b \in Readers \ {c} : reader'[b] = reader[b]
      BY <2>1, <2>2
    <3> QED BY <1>3, <2>2, <3>1 DEF WriterInv, ReadersCovered, SnapshotCovered
  <2>3. ASSUME NEW c \in Readers, StartRead(c) PROVE <1>8!:
    <3> DEFINE r == [pc |-> "keys", todo |-> KeyOrder, newest |-> 0, version |-> 0]
    <3>1. r.pc = "keys" /\ r.newest <= redis_version /\ reader' = [reader EXCEPT ![c] = r]
      BY <1>1, <2>3 DEF StartRead
    <3> HIDE DEF r
    <3> QED BY <2>2, <3>1
  <2>4. ASSUME NEW c \in Readers, ReadKey(c) PROVE <1>8!:
    <3> DEFINE n == Newer(reader[c].newest, redis[Head(reader[c].todo)].version)
               q == IF Len(reader[c].todo) = 1 THEN "version" ELSE "keys"
               r == [reader[c] EXCEPT !.newest = n, !.todo = Tail(@), !.pc = q]
    <3>1. reader[c].pc = "keys"
      BY <2>4 DEF ReadKey
    <3>7. /\ reader[c] \in Reading /\ reader[c].todo # <<>>
          /\ reader[c].newest <= redis_version
      BY <2>1, <3>1 DEF Idle, WrittenInv, TodoOK, WriterInv, ReadersCovered
    <3>2. Head(reader[c].todo) \in Keys
      <4>1. reader[c].todo \in Seq(Keys)
        BY <3>7 DEF Reading
      <4> QED BY <3>7, <4>1, HeadTailProperties
    <3>3. n <= redis_version
      BY <3>7, <3>2 DEF Newer, WriterInv, KeysCovered
    <3>4. q # "done"
      OBVIOUS
    <3>5. reader' = [reader EXCEPT ![c] = r]
      BY <2>4 DEF ReadKey
    <3> HIDE DEF n, q
    <3>6. r.pc = q /\ r.newest = n
      BY <3>7 DEF Reading
    <3> HIDE DEF r
    <3> QED BY <2>2, <3>3, <3>4, <3>5, <3>6
  <2>5. ASSUME NEW c \in Readers, ReadVersion(c) PROVE <1>8!:
    <3> DEFINE r == [reader[c] EXCEPT !.version = redis_version, !.pc = "done"]
    <3>5. reader[c].pc = "version"
      BY <2>5 DEF ReadVersion
    <3>1. reader[c] \in Reading /\ reader[c].newest <= redis_version
      BY <2>1, <3>5 DEF Idle, WriterInv, ReadersCovered
    <3>2. r.newest = reader[c].newest /\ r.version = redis_version /\ r.newest \in Nat
      BY <3>1 DEF Reading
    <3>3. reader' = [reader EXCEPT ![c] = r]
      BY <2>5 DEF ReadVersion
    <3>4. r.newest <= redis_version /\ r.version >= r.newest
      BY <1>1, <3>1, <3>2
    <3> HIDE DEF r
    <3> QED BY <2>2, <3>3, <3>4
  <2>6. CASE reader' = reader
    BY <1>3, <2>6 DEF WriterInv, ReadersCovered, SnapshotCovered
  <2> QED
    BY <1>2, <2>3, <2>4, <2>5, <2>6 DEF Tick, ChangeContent, Expire, vars
<1> QED BY <1>1, <1>3, <1>5, <1>6, <1>7, <1>8 DEF WriterInv

LEMMA NextKeepsWriter ==
    ASSUME ~LateWrites, WrittenInv, OneWriter, WriterInv, [Next]_vars
    PROVE  WriterInv' /\ redis_version' >= redis_version
  BY SessionKeepsVersion, OthersKeepVersion DEF Next

\* Without late pipelines, config:version only grows as long as one request at
\* a time reads the clock and writes: a lock held from the reading of the clock
\* to the end of the pipeline would be enough.
THEOREM OneWriterVersionsGrow == ~LateWrites => (Spec /\ []OneWriter => VersionMonotonic)
<1> SUFFICES ASSUME ~LateWrites PROVE Spec /\ []OneWriter => VersionMonotonic
  OBVIOUS
<1>1. WrittenInv /\ OneWriter /\ WriterInv /\ [Next]_vars =>
         WriterInv' /\ [redis_version' >= redis_version]_redis_version
  BY NextKeepsWriter
<1> QED BY <1>1, InitWriter, SpecKeepsWritten, PTL DEF Spec, VersionMonotonic

\* In the same conditions, the version that GET /configuration returns is no
\* older than any key it returns, although it reads them one by one.
THEOREM OneWriterSnapshotsCovered == ~LateWrites => (Spec /\ []OneWriter => []SnapshotCovered)
<1> SUFFICES ASSUME ~LateWrites PROVE Spec /\ []OneWriter => []SnapshotCovered
  OBVIOUS
<1>1. WrittenInv /\ OneWriter /\ WriterInv /\ [Next]_vars => WriterInv'
  BY NextKeepsWriter
<1>2. WriterInv => SnapshotCovered
  BY DEF WriterInv
<1> QED BY <1>1, <1>2, InitWriter, SpecKeepsWritten, PTL DEF Spec

----------------------------------------------------------------------------
(* One request at a time.                                                  *)

OneBusy == \A s, t \in Busy : s = t

VersionInv == OneBusy /\ WriterInv

LEMMA InitVersion == Init => VersionInv
<1>1. Init => OneBusy
  BY DEF Init, OneBusy, Busy
<1> QED BY <1>1, InitWriter DEF VersionInv

LEMMA BusyWriter ==
    ASSUME OneBusy
    PROVE  OneWriter
  BY DEF OneBusy, OneWriter, Busy, Idle

LEMMA NextKeepsBusy ==
    ASSUME Serial, WrittenInv, OneBusy, [Next]_vars
    PROVE  OneBusy'
<1>1. CASE svc' = svc
  BY <1>1 DEF OneBusy, Busy
<1>2. ASSUME NEW s \in Sessions, NEW todo \in Requested, Start(s, todo)
      PROVE  OneBusy'
  <2>1. Busy = {} /\ \A t \in Sessions \ {s} : svc'[t] = svc[t]
    BY <1>2 DEF Start, WrittenInv, TypeOK
  <2> QED BY <2>1 DEF OneBusy, Busy
<1>3. ASSUME NEW s \in Sessions, Progress(s) \/ Abort(s)
      PROVE  OneBusy'
  <2>1. s \in Busy
    BY <1>3 DEF Progress, Build, Persist, Execute, Finish, Commit, Abort, Busy, Idle
  <2>2. \A t \in Sessions \ {s} : svc'[t] = svc[t]
    BY <1>3 DEF Progress, Build, Persist, Execute, Finish, Commit, Abort, WrittenInv, TypeOK
  <2> QED BY <2>1, <2>2 DEF OneBusy, Busy
<1> QED
  BY <1>1, <1>2, <1>3
     DEF Next, Tick, ChangeContent, Expire, ExecuteLate, StartRead, ReadKey, ReadVersion, vars

LEMMA NextKeepsVersion ==
    ASSUME Serial, ~LateWrites, WrittenInv, VersionInv, [Next]_vars
    PROVE  VersionInv' /\ redis_version' >= redis_version
  BY NextKeepsWriter, NextKeepsBusy, BusyWriter DEF VersionInv

\* Served one at a time and without late pipelines, requests only ever raise
\* config:version.
THEOREM SerialVersionsGrow == Serial /\ ~LateWrites => (Spec => VersionMonotonic)
<1> SUFFICES ASSUME Serial, ~LateWrites PROVE Spec => VersionMonotonic
  OBVIOUS
<1>1. WrittenInv /\ VersionInv /\ [Next]_vars => VersionInv'
  BY NextKeepsVersion
<1>2. VersionInv => OneWriter
  BY BusyWriter DEF VersionInv
<1> QED BY <1>1, <1>2, InitVersion, SpecKeepsWritten, OneWriterVersionsGrow, PTL DEF Spec

\* In the same conditions GET /configuration returns a version that covers the
\* keys it returns.
THEOREM SerialSnapshotsCovered == Serial /\ ~LateWrites => (Spec => []SnapshotCovered)
<1> SUFFICES ASSUME Serial, ~LateWrites PROVE Spec => []SnapshotCovered
  OBVIOUS
<1>1. WrittenInv /\ VersionInv /\ [Next]_vars => VersionInv'
  BY NextKeepsVersion
<1>2. VersionInv => OneWriter
  BY BusyWriter DEF VersionInv
<1> QED BY <1>1, <1>2, InitVersion, SpecKeepsWritten, OneWriterSnapshotsCovered, PTL DEF Spec

----------------------------------------------------------------------------
(* One request at a time for each key: Redis keeps up with the history.     *)

\* The request has read the configuration of its key and not yet written it.
Pending(d) == d.pc \in {"persist", "execute"}

\* No two requests are between the reading of a key's configuration and the end
\* of the pipeline that writes it.
KeyApart ==
    \A s, t \in Sessions :
        Pending(svc[s]) /\ Pending(svc[t]) /\ Head(svc[s].todo) = Head(svc[t].todo) => s = t

\* A row that request d has published, and will commit if nothing fails.
Publishing(d, row) ==
    \/ row \in d.rows /\ row.status = "distributed"
    \/ d.pc = "finish" /\ row = CurrentRow(d, "distributed")

\* Rows that are history or may become so.
InHistory(row) ==
    row \in config_versions \/ \E s \in Busy : Publishing(svc[s], row)

Settled(k, c) == c <= content[k] /\ (redis[k] = Missing \/ redis[k].content >= c)

\* A payload that is still to be written is as new as all that was written or
\* recorded for its key.
PayloadNewest(d) ==
    LET k == Head(d.todo) IN
    /\ redis[k].content <= d.payload /\ d.payload <= content[k]
    /\ \A row \in Row : InHistory(row) /\ row.key = k => row.content <= d.payload

\* The inductive invariant behind RedisKeptUp.
ContentInv ==
    /\ late = {}
    /\ \A k \in Keys : redis[k].content <= content[k]
    /\ \A row \in Row : InHistory(row) => Settled(row.key, row.content)
    /\ \A s \in Sessions : Pending(svc[s]) => PayloadNewest(svc[s])

\* Redis shows what the history records, or something newer, unless it expired,
\* at every moment: RedisNotBehind without waiting for requests to end.
RedisKeptUp ==
    \A row \in config_versions :
        redis[row.key] = Missing \/ redis[row.key].content >= row.content

LEMMA InitContent == Init => ContentInv
  BY DEF Init, ContentInv, Missing, Idle, InHistory, Busy, Pending

\* A session whose request is replaced by one that publishes nothing more adds
\* nothing to the history.
LEMMA HistoryUnchanged ==
    ASSUME WrittenInv, NEW s \in Sessions, NEW d, svc' = [svc EXCEPT ![s] = d],
           config_versions' = config_versions, NEW row,
           d = Idle \/ (svc[s] # Idle /\ (Publishing(d, row) => Publishing(svc[s], row))),
           InHistory(row)'
    PROVE  InHistory(row)
<1>1. svc'[s] = d /\ \A t \in Sessions \ {s} : svc'[t] = svc[t]
  BY DEF WrittenInv, TypeOK
<1>2. CASE row \in config_versions
  BY <1>2 DEF InHistory
<1>3. ASSUME NEW t \in Sessions, svc'[t] # Idle, Publishing(svc'[t], row)
      PROVE  InHistory(row)
  BY <1>1, <1>3 DEF InHistory, Busy
<1>4. row \in config_versions' \/ \E t \in Sessions : svc'[t] # Idle /\ Publishing(svc'[t], row)
  BY DEF InHistory, Busy, Publishing
<1> QED BY <1>2, <1>3, <1>4

LEMMA EnvironmentKeepsContent ==
    ASSUME WrittenInv, ContentInv,
           \/ Tick \/ \E k \in Keys : ChangeContent(k) \/ Expire(k)
           \/ \E w \in late : ExecuteLate(w)
           \/ \E c \in Readers : StartRead(c) \/ ReadKey(c) \/ ReadVersion(c)
           \/ UNCHANGED vars
    PROVE  ContentInv'
<1>1. ~ \E w \in late : ExecuteLate(w)
  BY DEF ContentInv
<1>2. UNCHANGED <<svc, config_versions, late>>
  BY <1>1 DEF Tick, ChangeContent, Expire, StartRead, ReadKey, ReadVersion, vars
<1>3. /\ content \in [Keys -> Nat] /\ content' \in [Keys -> Nat]
      /\ redis \in [Keys -> Value] /\ redis' \in [Keys -> Value]
      /\ \A k \in Keys : content'[k] >= content[k]
      /\ \A k \in Keys : redis'[k] = redis[k] \/ redis'[k] = Missing
  <2>1. content \in [Keys -> Nat] /\ redis \in [Keys -> Value]
    BY DEF WrittenInv, TypeOK
  <2>2. ASSUME NEW k \in Keys, ChangeContent(k) PROVE <1>3!:
    BY <2>1, <2>2 DEF ChangeContent
  <2>3. ASSUME NEW k \in Keys, Expire(k) PROVE <1>3!:
    BY <2>1, <2>3 DEF Expire, Missing, Value
  <2>4. CASE UNCHANGED <<content, redis>>
    BY <2>1, <2>4
  <2> QED
    BY <1>1, <2>2, <2>3, <2>4 DEF Tick, StartRead, ReadKey, ReadVersion, vars
<1>4. \A row : InHistory(row)' <=> InHistory(row)
  BY <1>2 DEF InHistory, Busy, Publishing
<1>5. \A k \in Keys : /\ redis'[k].content <= redis[k].content
                      /\ redis[k].content \in Nat /\ redis'[k].content \in Nat
  BY <1>3 DEF Missing, Value
<1>6. \A k \in Keys : redis'[k].content <= content'[k]
  BY <1>3, <1>5 DEF ContentInv
<1>7. ASSUME NEW k \in Keys, NEW c \in Nat, Settled(k, c) PROVE Settled(k, c)'
  BY <1>3, <1>7 DEF Settled
<1>8. \A row \in Row : InHistory(row)' => Settled(row.key, row.content)'
  BY <1>4, <1>7 DEF ContentInv, Row
<1>9. ASSUME NEW s \in Sessions, Pending(svc[s])
      PROVE  svc[s] \in Distribution /\ Head(svc[s].todo) \in Keys /\ svc[s].payload \in Nat
  <2>1. svc[s] \in Distribution /\ svc[s].todo # <<>>
    BY <1>9 DEF WrittenInv, TypeOK, TodoOK, Idle, Pending
  <2> QED BY <2>1, CurrentTypes DEF Distribution
<1>10. ASSUME NEW s \in Sessions, Pending(svc[s])'
       PROVE  PayloadNewest(svc[s])'
  <2>1. PayloadNewest(svc[s]) /\ Head(svc[s].todo) \in Keys /\ svc[s].payload \in Nat
    BY <1>2, <1>9, <1>10 DEF ContentInv, Pending
  <2> QED BY <1>2, <1>3, <1>4, <1>5, <2>1 DEF PayloadNewest
<1>11. late' = {}
  BY <1>2 DEF ContentInv
<1> QED BY <1>6, <1>8, <1>10, <1>11 DEF ContentInv

\* What the facts of Redis and of the history say in the next state, when a
\* step of a session changes neither and the session is not about to publish.
LEMMA SessionKeepsContent ==
    ASSUME WrittenInv, ContentInv, NEW s \in Sessions, NEW d,
           svc' = [svc EXCEPT ![s] = d], UNCHANGED <<content, redis, late>>,
           \A row \in Row : InHistory(row)' => InHistory(row),
           Pending(d) => PayloadNewest(d)
    PROVE  ContentInv'
<1>1. svc'[s] = d /\ \A t \in Sessions \ {s} : svc'[t] = svc[t]
  BY DEF WrittenInv, TypeOK
<1>2. \A row \in Row : InHistory(row)' => Settled(row.key, row.content)'
  BY DEF ContentInv, Settled
<1>3. ASSUME NEW t \in Sessions, Pending(svc[t])' PROVE PayloadNewest(svc[t])'
  <2>1. PayloadNewest(svc'[t])
    BY <1>1, <1>3 DEF ContentInv, Pending
  <2> QED BY <2>1 DEF PayloadNewest
<1> QED BY <1>2, <1>3 DEF ContentInv

\* Build reads what is committed now: nothing written or recorded is newer.
LEMMA BuildKeepsContent ==
    ASSUME WrittenInv, ContentInv, NEW s \in Sessions, Build(s)
    PROVE  ContentInv'
<1> DEFINE k == Head(svc[s].todo)
           d == [svc[s] EXCEPT !.pc = "persist", !.payload = content[Head(svc[s].todo)]]
<1>1. svc[s] \in Distribution /\ svc[s].todo # <<>> /\ s \in Busy /\ k \in Keys
  <2>1. svc[s] \in Distribution /\ svc[s].todo # <<>> /\ s \in Busy
    BY DEF Build, WrittenInv, TypeOK, TodoOK, Idle, Busy
  <2> QED BY <2>1, CurrentTypes
<1>2. svc' = [svc EXCEPT ![s] = d] /\ UNCHANGED <<content, redis, late, config_versions>>
  BY DEF Build
<1>3. /\ d.pc = "persist" /\ d.todo = svc[s].todo /\ d.rows = svc[s].rows
      /\ d.payload = content[k]
  BY <1>1 DEF Distribution
<1> HIDE DEF d
<1>4. \A row \in Row : InHistory(row)' => InHistory(row)
  <2>1. \A row : Publishing(d, row) => Publishing(svc[s], row)
    BY <1>3 DEF Publishing
  <2> QED BY <1>1, <1>2, <2>1, HistoryUnchanged DEF Busy
<1>5. PayloadNewest(d)
  <2>1. \A row \in Row : InHistory(row) => row.content <= content[row.key]
    BY DEF ContentInv, Settled
  <2>2. redis[k].content <= content[k] /\ content[k] <= content[k]
    BY <1>1 DEF ContentInv, WrittenInv, TypeOK
  <2> QED BY <1>3, <2>1, <2>2 DEF PayloadNewest
<1> QED BY <1>1, <1>2, <1>3, <1>4, <1>5, SessionKeepsContent

LEMMA PersistKeepsContent ==
    ASSUME WrittenInv, ContentInv, NEW s \in Sessions, Persist(s)
    PROVE  ContentInv'
<1> DEFINE e == [svc[s] EXCEPT !.pc = "execute", !.version = clock, !.attempt = 0]
           d == [e EXCEPT !.rows = @ \cup {CurrentRow(e, "pending")}]
<1>1. svc[s] \in Distribution /\ s \in Busy /\ PayloadNewest(svc[s])
  BY DEF Persist, WrittenInv, TypeOK, Idle, Busy, ContentInv, Pending
<1>2. /\ e \in Distribution /\ e.pc = "execute" /\ e.todo = svc[s].todo
      /\ e.payload = svc[s].payload /\ e.rows = svc[s].rows
  BY <1>1 DEF Distribution, WrittenInv, TypeOK
<1>3. svc' = [svc EXCEPT ![s] = d] /\ UNCHANGED <<content, redis, late, config_versions>>
  BY DEF Persist
<1> HIDE DEF e
<1>4. /\ d.pc = "execute" /\ d.todo = svc[s].todo /\ d.payload = svc[s].payload
      /\ d.rows = svc[s].rows \cup {CurrentRow(e, "pending")}
  BY <1>2 DEF Distribution
<1>5. CurrentRow(e, "pending").status # "distributed"
  BY DEF CurrentRow
<1> HIDE DEF d
<1>6. \A row \in Row : InHistory(row)' => InHistory(row)
  <2>1. \A row : Publishing(d, row) => Publishing(svc[s], row)
    BY <1>4, <1>5 DEF Publishing
  <2> QED BY <1>1, <1>3, <2>1, HistoryUnchanged DEF Busy
<1>7. PayloadNewest(d)
  BY <1>1, <1>4 DEF PayloadNewest
<1> QED BY <1>1, <1>3, <1>4, <1>6, <1>7, SessionKeepsContent

\* Execute: what it writes is at least as new as what was there, and as every
\* row of the history; nobody else is about to write the same key.
LEMMA ExecuteKeepsContent ==
    ASSUME ~LateWrites, WrittenInv, KeyApart, ContentInv, NEW s \in Sessions, Execute(s)
    PROVE  ContentInv'
<1> DEFINE w == CurrentWrite(svc[s])
           k == Head(svc[s].todo)
           new == CurrentRow(svc[s], "distributed")
<1>1. /\ svc[s] \in Distribution /\ svc[s].todo # <<>> /\ s \in Busy /\ k \in Keys
      /\ svc[s].payload \in Nat /\ PayloadNewest(svc[s]) /\ Pending(svc[s])
      /\ svc[s].pc = "execute"
  <2>1. /\ svc[s] \in Distribution /\ svc[s].todo # <<>> /\ s \in Busy
        /\ PayloadNewest(svc[s]) /\ Pending(svc[s]) /\ svc[s].pc = "execute"
    BY DEF Execute, WrittenInv, TypeOK, TodoOK, Idle, Busy, ContentInv, Pending
  <2> QED BY <2>1, CurrentTypes DEF Distribution
<1>2. UNCHANGED <<redis>> \/ RedisExecutes(w)
  BY DEF Execute, NoReply
<1>3. UNCHANGED <<content, config_versions, late>>
  BY DEF Execute, NoReply
<1>4. PICK d : /\ svc' = [svc EXCEPT ![s] = d]
               /\ d = Idle \/ d.rows = svc[s].rows
               /\ d.pc = "execute" => d.todo = svc[s].todo /\ d.payload = svc[s].payload
               /\ d.pc = "finish" => /\ CurrentRow(d, "distributed") = new
                                     /\ RedisExecutes(w)
               /\ d.pc # "persist"
  <2>1. CASE RedisExecutes(w) /\ svc' = [svc EXCEPT ![s].pc = "finish"]
    <3> DEFINE e == [svc[s] EXCEPT !.pc = "finish"]
    <3>1. /\ e.pc = "finish" /\ e.rows = svc[s].rows
          /\ CurrentRow(e, "distributed") = new
      BY <1>1 DEF Distribution, CurrentRow
    <3>2. svc' = [svc EXCEPT ![s] = e]
      BY <2>1
    <3> HIDE DEF e, w, new
    <3> QED BY <2>1, <3>1, <3>2
  <2>2. CASE svc' = [svc EXCEPT ![s].attempt = 1]
    <3> DEFINE e == [svc[s] EXCEPT !.attempt = 1]
    <3>1. /\ e.pc = "execute" /\ e.todo = svc[s].todo /\ e.payload = svc[s].payload
          /\ e.rows = svc[s].rows
      BY <1>1 DEF Distribution
    <3>2. svc' = [svc EXCEPT ![s] = e]
      BY <2>2
    <3> HIDE DEF e, w, new
    <3> QED BY <3>1, <3>2
  <2>3. CASE svc' = [svc EXCEPT ![s] = Idle]
    <3>1. Idle.pc = "idle"
      BY DEF Idle
    <3> QED BY <2>3, <3>1
  <2> QED BY <2>1, <2>2, <2>3 DEF Execute
<1>5. svc'[s] = d /\ \A t \in Sessions \ {s} : svc'[t] = svc[t]
  BY <1>4 DEF WrittenInv, TypeOK
<1>6. new.key = k /\ new.content = svc[s].payload
  BY DEF CurrentRow
<1>7. /\ redis \in [Keys -> Value] /\ content \in [Keys -> Nat]
      /\ redis' = redis \/ redis' = [redis EXCEPT ![k] = [version |-> w.version,
                                                         content |-> svc[s].payload]]
  BY <1>2 DEF WrittenInv, TypeOK, RedisExecutes, CurrentWrite
<1>8. /\ redis[k].content <= svc[s].payload /\ svc[s].payload <= content[k]
      /\ \A row \in Row : InHistory(row) /\ row.key = k => row.content <= svc[s].payload
  BY <1>1 DEF PayloadNewest
<1>9. ASSUME NEW q \in Keys
      PROVE  redis'[q] = redis[q] \/ (q = k /\ redis'[q].content = svc[s].payload)
  <2> DEFINE v == [version |-> w.version, content |-> svc[s].payload]
  <2>1. redis' = redis \/ redis' = [redis EXCEPT ![k] = v]
    BY <1>7
  <2>2. v.content = svc[s].payload
    OBVIOUS
  <2> HIDE DEF v, k, w
  <2> QED BY <1>7, <2>1, <2>2
<1>10. \A q \in Keys : redis'[q].content <= content'[q]
  BY <1>3, <1>8, <1>9 DEF ContentInv
<1>11. d.pc = "finish" => redis'[k].content = svc[s].payload
  BY <1>1, <1>4, <1>7 DEF RedisExecutes, CurrentWrite
<1>12. ASSUME NEW row \in Row, InHistory(row)'
       PROVE  InHistory(row) \/ (d.pc = "finish" /\ row = new)
  <2>1. CASE Publishing(d, row) => Publishing(svc[s], row)
    BY <1>1, <1>3, <1>4, <1>12, <2>1, HistoryUnchanged DEF Busy
  <2>2. CASE d # Idle /\ Publishing(d, row) /\ ~Publishing(svc[s], row)
    BY <1>4, <2>2 DEF Publishing
  <2>3. CASE d = Idle
    BY <1>3, <1>4, <1>12, <2>3, HistoryUnchanged
  <2> QED BY <2>1, <2>2, <2>3
<1> HIDE DEF k, w, new
<1>13. ASSUME NEW row \in Row, InHistory(row)' PROVE Settled(row.key, row.content)'
  <2>1. row.key \in Keys /\ row.content \in Nat
    BY DEF Row
  <2>2. CASE InHistory(row)
    <3>1. Settled(row.key, row.content)
      BY <2>2 DEF ContentInv
    <3>2. CASE redis'[row.key] = redis[row.key]
      BY <1>3, <3>1, <3>2 DEF Settled
    <3>3. CASE row.key = k /\ redis'[k].content = svc[s].payload
      BY <1>1, <1>3, <1>8, <2>1, <2>2, <3>1, <3>3 DEF Settled
    <3> QED BY <1>9, <2>1, <3>2, <3>3
  <2>3. CASE d.pc = "finish" /\ row = new
    BY <1>1, <1>3, <1>6, <1>8, <1>11, <2>3 DEF Settled
  <2> QED BY <1>12, <1>13, <2>2, <2>3
<1>14. ASSUME NEW t \in Sessions, Pending(svc[t])' PROVE PayloadNewest(svc[t])'
  <2>1. CASE t = s
    <3>1. d.pc = "execute"
      BY <1>4, <1>5, <1>14, <2>1 DEF Pending
    <3>2. svc'[t].todo = svc[s].todo /\ svc'[t].payload = svc[s].payload
      BY <1>4, <1>5, <2>1, <3>1
    <3>3. redis'[k].content <= svc[s].payload
      BY <1>1, <1>8, <1>9
    <3>4. \A row \in Row : InHistory(row)' => InHistory(row)
      BY <1>12, <3>1
    <3> QED BY <1>3, <1>8, <3>2, <3>3, <3>4 DEF PayloadNewest, k
  <2>2. CASE t # s
    <3> DEFINE q == Head(svc[t].todo)
    <3>1. svc'[t] = svc[t] /\ Pending(svc[t])
      BY <1>5, <1>14, <2>2 DEF Pending
    <3>2. q # k
      BY <1>1, <2>2, <3>1 DEF KeyApart, k
    <3>3. q \in Keys
      <4>1. svc[t] \in Distribution /\ svc[t].todo # <<>>
        BY <3>1 DEF WrittenInv, TypeOK, TodoOK, Idle, Pending
      <4> QED BY <4>1, CurrentTypes
    <3>4. PayloadNewest(svc[t])
      BY <3>1 DEF ContentInv
    <3>5. redis'[q] = redis[q]
      BY <1>9, <3>2, <3>3
    <3>6. \A row \in Row : InHistory(row)' /\ row.key = q => InHistory(row)
      BY <1>6, <1>12, <3>2
    <3> QED BY <1>3, <3>1, <3>4, <3>5, <3>6 DEF PayloadNewest
  <2> QED BY <2>1, <2>2
<1>15. late' = {}
  BY <1>3 DEF ContentInv
<1> QED BY <1>10, <1>13, <1>14, <1>15 DEF ContentInv

\* Finish marks the row of the payload that was just written.
LEMMA FinishKeepsContent ==
    ASSUME WrittenInv, ContentInv, NEW s \in Sessions, Finish(s)
    PROVE  ContentInv'
<1> DEFINE d == AfterKey(svc[s])
           new == CurrentRow(svc[s], "distributed")
<1>1. svc[s] \in Distribution /\ s \in Busy /\ svc[s].pc = "finish"
  BY DEF Finish, WrittenInv, TypeOK, Idle, Busy
<1>2. /\ svc' = [svc EXCEPT ![s] = d]
      /\ UNCHANGED <<content, redis, late, config_versions>>
  BY DEF Finish
<1>3. /\ d.rows = (svc[s].rows \ {CurrentRow(svc[s], "pending")}) \cup {new}
      /\ ~Pending(d) /\ d.pc # "finish"
  BY <1>1 DEF AfterKey, Distribution, Pending
<1> HIDE DEF d
<1>4. \A row : Publishing(d, row) => Publishing(svc[s], row)
  BY <1>1, <1>3 DEF Publishing
<1>5. \A row \in Row : InHistory(row)' => InHistory(row)
  BY <1>1, <1>2, <1>4, HistoryUnchanged DEF Busy
<1> QED BY <1>2, <1>3, <1>5, SessionKeepsContent

\* Commit turns the rows of the request into history; Abort drops them.
LEMMA EndKeepsContent ==
    ASSUME WrittenInv, ContentInv, NEW s \in Sessions, Commit(s) \/ Abort(s)
    PROVE  ContentInv'
<1>1. s \in Busy /\ svc' = [svc EXCEPT ![s] = Idle] /\ UNCHANGED <<content, redis, late>>
  BY DEF Commit, Abort, Busy, Idle
<1>2. ASSUME NEW row \in Row, InHistory(row)' PROVE InHistory(row)
  <2>1. CASE row \in config_versions' /\ Commit(s)
    <3>1. row \in config_versions \/ row \in svc[s].rows
      BY <2>1 DEF Commit
    <3>2. row \in svc[s].rows => row.status = "distributed"
      BY <1>1, <2>1 DEF Commit, Busy, WrittenInv, SessionsOK, RowsWritten
    <3> QED BY <1>1, <3>1, <3>2 DEF InHistory, Publishing
  <2>2. CASE row \in config_versions' /\ Abort(s)
    BY <2>2 DEF Abort, InHistory
  <2>3. CASE row \notin config_versions'
    <3>1. PICK t \in Sessions : svc'[t] # Idle /\ Publishing(svc'[t], row)
      BY <1>2, <2>3 DEF InHistory, Busy, Publishing
    <3>2. svc'[t] = svc[t]
      BY <1>1, <3>1 DEF WrittenInv, TypeOK
    <3> QED BY <3>1, <3>2 DEF InHistory, Busy
  <2> QED BY <2>1, <2>2, <2>3
<1>3. ~Pending(Idle)
  BY DEF Idle, Pending
<1> QED BY <1>1, <1>2, <1>3, SessionKeepsContent

LEMMA StartKeepsContent ==
    ASSUME WrittenInv, ContentInv, NEW s \in Sessions, NEW todo \in Requested, Start(s, todo)
    PROVE  ContentInv'
<1> DEFINE d == [pc |-> "build", todo |-> todo, payload |-> 0, version |-> 0,
                 attempt |-> 0, rows |-> {}]
<1>1. /\ svc' = [svc EXCEPT ![s] = d]
      /\ UNCHANGED <<content, redis, late, config_versions>>
  BY DEF Start
<1>2. ~Pending(d) /\ \A row : ~Publishing(d, row)
  BY DEF Pending, Publishing
<1> HIDE DEF d
<1>3. svc'[s] = d /\ \A t \in Sessions \ {s} : svc'[t] = svc[t]
  BY <1>1 DEF WrittenInv, TypeOK
<1>4. ASSUME NEW row \in Row, InHistory(row)' PROVE InHistory(row)
  <2>1. row \in config_versions \/ \E t \in Sessions : svc'[t] # Idle /\ Publishing(svc'[t], row)
    BY <1>1, <1>4 DEF InHistory, Busy, Publishing
  <2> QED BY <1>2, <1>3, <2>1 DEF InHistory, Busy
<1> QED BY <1>1, <1>2, <1>4, SessionKeepsContent

LEMMA NextKeepsContent ==
    ASSUME ~LateWrites, WrittenInv, KeyApart, ContentInv, [Next]_vars
    PROVE  ContentInv'
<1>1. ASSUME NEW s \in Sessions,
             Progress(s) \/ Abort(s) \/ \E todo \in Requested : Start(s, todo)
      PROVE  ContentInv'
  BY <1>1, BuildKeepsContent, PersistKeepsContent, ExecuteKeepsContent,
     FinishKeepsContent, EndKeepsContent, StartKeepsContent DEF Progress
<1> QED BY <1>1, EnvironmentKeepsContent DEF Next

\* Without late pipelines, Redis never falls behind the history as long as, key
\* by key, one request at a time reads the configuration and writes it, however
\* requests for other keys, commits, errors and expiry interleave: a lock per
\* key would be enough.
THEOREM KeyApartRedisKeepsUp == ~LateWrites => (Spec /\ []KeyApart => []RedisKeptUp)
<1> SUFFICES ASSUME ~LateWrites PROVE Spec /\ []KeyApart => []RedisKeptUp
  OBVIOUS
<1>1. WrittenInv /\ KeyApart /\ ContentInv /\ [Next]_vars => ContentInv'
  BY NextKeepsContent
<1>2. WrittenInv /\ ContentInv => RedisKeptUp
  BY DEF ContentInv, RedisKeptUp, Settled, InHistory, WrittenInv, TypeOK
<1> QED BY <1>1, <1>2, InitContent, SpecKeepsWritten, PTL DEF Spec

\* Served one at a time and without late pipelines, requests leave in Redis
\* what the history records last, or something newer, unless it expired.
THEOREM SerialRedisKeepsUp == Serial /\ ~LateWrites => (Spec => []RedisNotBehind)
<1> SUFFICES ASSUME Serial, ~LateWrites PROVE Spec => []RedisNotBehind
  OBVIOUS
<1>1. WrittenInv /\ VersionInv /\ [Next]_vars => VersionInv'
  BY NextKeepsVersion
<1>2. VersionInv => KeyApart
  BY DEF VersionInv, OneBusy, Busy, KeyApart, Pending, Idle
<1>3. RedisKeptUp => RedisNotBehind
  BY DEF RedisKeptUp, RedisNotBehind
<1> QED
  BY <1>1, <1>2, <1>3, InitVersion, SpecKeepsWritten, KeyApartRedisKeepsUp, PTL DEF Spec

----------------------------------------------------------------------------
(* Refinement: what Redis, Kafka and the history show is ConfigPublication.  *)

Ordered == Serial /\ ~LateWrites

\* Only committed configuration is written, or about to be.
Committed ==
    /\ \A w \in written \cup late : w.content <= content[w.key]
    /\ \A s \in Sessions : Pending(svc[s]) => svc[s].payload <= content[Head(svc[s].todo)]

\* Nothing written is newer than what Redis shows, or than what a request is
\* about to write for the same key.
NoneNewer ==
    /\ \A p \in written : p.version <= redis_version
    /\ \A s \in Sessions : Pending(svc[s]) =>
          \A p \in written : p.key = Head(svc[s].todo) => p.content <= svc[s].payload

\* The inductive invariant behind the refinement.
PublicationInv == WrittenInv /\ Committed /\ (Ordered => VersionInv /\ NoneNewer)

LEMMA InitPublication == Init => PublicationInv
<1>1. Init => Committed /\ NoneNewer
  BY DEF Init, Committed, NoneNewer, Pending, Idle
<1> QED BY <1>1, InitWritten, InitVersion DEF PublicationInv

\* The payload of a request is what Build has read, until it is written.
LEMMA SessionPayload ==
    ASSUME WrittenInv, NEW s \in Sessions,
           Progress(s) \/ Abort(s) \/ \E todo \in Requested : Start(s, todo)
    PROVE  /\ content' = content /\ \A t \in Sessions \ {s} : svc'[t] = svc[t]
           /\ Pending(svc'[s]) =>
                 /\ svc'[s].todo = svc[s].todo
                 /\ \/ Pending(svc[s]) /\ svc'[s].payload = svc[s].payload
                    \/ svc'[s].payload = content[Head(svc[s].todo)] /\ written' = written
<1>1. svc \in [Sessions -> Distribution \cup {Idle}]
  BY DEF WrittenInv, TypeOK
<1>2. CASE Build(s)
  <2>1. svc[s] \in Distribution
    BY <1>1, <1>2, IdleOrBusy DEF Build
  <2> QED BY <1>1, <1>2, <2>1 DEF Build, Pending, Distribution
<1>3. CASE Persist(s)
  <2>1. svc[s] \in Distribution /\ Pending(svc[s])
    BY <1>1, <1>3, IdleOrBusy DEF Persist, Pending
  <2> QED BY <1>1, <1>3, <2>1 DEF Persist, Distribution
<1>4. CASE Execute(s)
  <2>1. svc[s] \in Distribution /\ Pending(svc[s])
    BY <1>1, <1>4, IdleOrBusy DEF Execute, Pending
  <2>2. content' = content
    BY <1>4 DEF Execute
  <2>3. \/ svc' = [svc EXCEPT ![s].pc = "finish"] \/ svc' = [svc EXCEPT ![s].attempt = 1]
        \/ svc' = [svc EXCEPT ![s] = Idle]
    BY <1>4 DEF Execute
  <2> QED BY <1>1, <2>1, <2>2, <2>3 DEF Distribution, Idle, Pending
<1>5. CASE Finish(s)
  <2>1. svc[s] \in Distribution
    BY <1>1, <1>5, IdleOrBusy DEF Finish
  <2>2. AfterKey(svc[s]).pc \in {"commit", "build"}
    BY <2>1 DEF AfterKey, Distribution
  <2> QED BY <1>1, <1>5, <2>2 DEF Finish, Pending
<1>6. CASE Commit(s) \/ Abort(s)
  BY <1>1, <1>6 DEF Commit, Abort, Pending, Idle
<1>7. ASSUME NEW todo \in Requested, Start(s, todo)
      PROVE  content' = content /\ (\A t \in Sessions \ {s} : svc'[t] = svc[t])
             /\ ~Pending(svc'[s])
  BY <1>1, <1>7 DEF Start, Pending
<1> QED BY <1>2, <1>3, <1>4, <1>5, <1>6, <1>7 DEF Progress

\* What a step can do to the pipelines: none is executed, or one is that a
\* request carries or that was late.
LEMMA PipelineStep ==
    ASSUME WrittenInv, [Next]_vars
    PROVE  \/ UNCHANGED <<written, late, redis_version>>
           \/ /\ content' = content
              /\ \E w \in Write :
                    /\ \/ \E s \in Sessions : Execute(s) /\ w = CurrentWrite(svc[s])
                       \/ w \in late
                    /\ \/ RedisExecutes(w) \/ UNCHANGED <<written, redis_version>>
                    /\ late' \subseteq late \cup {w}
<1>1. ASSUME NEW s \in Sessions, Execute(s)
      PROVE  /\ content' = content
             /\ CurrentWrite(svc[s]) \in Write
             /\ \/ RedisExecutes(CurrentWrite(svc[s])) \/ UNCHANGED <<written, redis_version>>
             /\ late' \subseteq late \cup {CurrentWrite(svc[s])}
  <2>1. svc[s] \in Distribution /\ svc[s].todo # <<>>
    BY <1>1, IdleOrBusy DEF Execute, WrittenInv, TypeOK, TodoOK
  <2>2. CurrentWrite(svc[s]) \in Write
    BY <2>1, CurrentTypes
  <2>3. \/ RedisExecutes(CurrentWrite(svc[s])) /\ UNCHANGED late
        \/ NoReply(CurrentWrite(svc[s]))
    BY <1>1 DEF Execute
  <2>4. \/ RedisExecutes(CurrentWrite(svc[s])) \/ UNCHANGED <<written, redis_version>>
    BY <2>3 DEF NoReply
  <2>5. late' \subseteq late \cup {CurrentWrite(svc[s])}
    BY <2>3 DEF NoReply
  <2> QED BY <1>1, <2>2, <2>4, <2>5 DEF Execute
<1>2. ASSUME NEW w \in late, ExecuteLate(w)
      PROVE  w \in Write /\ RedisExecutes(w) /\ late' \subseteq late \cup {w} /\ content' = content
  BY <1>2 DEF ExecuteLate, WrittenInv, TypeOK
<1>3. CASE \E s \in Sessions : Execute(s)
  BY <1>1, <1>3
<1>4. CASE \E w \in late : ExecuteLate(w)
  BY <1>2, <1>4
<1>5. CASE ~(\E s \in Sessions : Execute(s)) /\ ~(\E w \in late : ExecuteLate(w))
  BY <1>5 DEF Next, vars, Tick, ChangeContent, Expire, Progress, Build, Persist, Finish, Commit,
              Abort, Start, StartRead, ReadKey, ReadVersion
<1> QED BY <1>3, <1>4, <1>5

\* Steps that are not a request's.
LEMMA OtherStep ==
    ASSUME WrittenInv, [Next]_vars,
           ~\E s \in Sessions :
               Progress(s) \/ Abort(s) \/ \E todo \in Requested : Start(s, todo)
    PROVE  svc' = svc /\ \A k \in Keys : content[k] <= content'[k]
<1>1. content \in [Keys -> Nat]
  BY DEF WrittenInv, TypeOK
<1>2. svc' = svc
  BY DEF Next, vars, Tick, ChangeContent, Expire, ExecuteLate, StartRead, ReadKey, ReadVersion
<1>3. content' = content \/ \E k \in Keys : content' = [content EXCEPT ![k] = @ + 1]
  BY DEF Next, vars, Tick, ChangeContent, Expire, ExecuteLate, StartRead, ReadKey, ReadVersion
<1> QED BY <1>1, <1>2, <1>3

LEMMA CommittedStep ==
    ASSUME WrittenInv, Committed, [Next]_vars
    PROVE  Committed'
<1>1. WrittenInv'
  BY NextKeepsWritten
<1>2. content \in [Keys -> Nat] /\ content' \in [Keys -> Nat]
  BY <1>1 DEF WrittenInv, TypeOK
<1>3. \A k \in Keys : content[k] <= content'[k]
  <2>1. CASE \E s \in Sessions :
                 Progress(s) \/ Abort(s) \/ \E todo \in Requested : Start(s, todo)
    BY <1>2, <2>1, SessionPayload
  <2> QED BY <2>1, OtherStep
<1>4. ASSUME NEW s \in Sessions, Pending(svc[s])
      PROVE  svc[s] \in Distribution /\ svc[s].todo # <<>> /\ Head(svc[s].todo) \in Keys
             /\ svc[s].payload \in Nat
  <2>1. svc[s] \in Distribution /\ svc[s].todo # <<>>
    BY <1>4, IdleOrBusy DEF Pending, WrittenInv, TypeOK, TodoOK
  <2> QED BY <2>1, CurrentTypes DEF Distribution
<1>5. ASSUME NEW w \in written' \cup late' PROVE w.content <= content'[w.key]
  <2>1. w \in Write
    BY <1>1, <1>5 DEF WrittenInv, TypeOK
  <2>2. w.key \in Keys /\ w.content \in Nat
    BY <2>1 DEF Write
  <2>3. w \in written \cup late \/ \E s \in Sessions : Execute(s) /\ w = CurrentWrite(svc[s])
    <3>1. CASE UNCHANGED <<written, late, redis_version>>
      BY <1>5, <3>1
    <3>2. CASE \E v \in Write :
                  /\ \/ \E s \in Sessions : Execute(s) /\ v = CurrentWrite(svc[s])
                     \/ v \in late
                  /\ RedisExecutes(v) \/ UNCHANGED <<written, redis_version>>
                  /\ late' \subseteq late \cup {v}
      <4>1. PICK v \in Write :
                  /\ \/ \E s \in Sessions : Execute(s) /\ v = CurrentWrite(svc[s])
                     \/ v \in late
                  /\ RedisExecutes(v) \/ UNCHANGED <<written, redis_version>>
                  /\ late' \subseteq late \cup {v}
        BY <3>2
      <4>2. written' \subseteq written \cup {v}
        BY <4>1 DEF RedisExecutes
      <4>3. w \in written \cup late \/ w = v
        BY <1>5, <4>1, <4>2
      <4> QED BY <4>1, <4>3
    <3> QED BY <3>1, <3>2, PipelineStep
  <2>4. w.content <= content[w.key]
    <3>1. CASE w \in written \cup late
      BY <3>1 DEF Committed
    <3>2. ASSUME NEW s \in Sessions, Execute(s), w = CurrentWrite(svc[s])
          PROVE  w.content <= content[w.key]
      <4>1. w.content = svc[s].payload /\ w.key = Head(svc[s].todo) /\ Pending(svc[s])
        BY <3>2 DEF CurrentWrite, Execute, Pending
      <4> QED BY <3>2, <4>1 DEF Committed
    <3> QED BY <2>3, <3>1, <3>2
  <2> QED BY <1>2, <1>3, <2>2, <2>4
<1>6. ASSUME NEW s \in Sessions, Pending(svc'[s])
      PROVE  svc'[s].payload <= content'[Head(svc'[s].todo)]
  <2>1. CASE \E t \in Sessions :
                Progress(t) \/ Abort(t) \/ \E todo \in Requested : Start(t, todo)
    <3>1. PICK t \in Sessions :
             Progress(t) \/ Abort(t) \/ \E todo \in Requested : Start(t, todo)
      BY <2>1
    <3>2. CASE s # t
      BY <1>6, <3>1, <3>2, SessionPayload DEF Committed
    <3>3. CASE s = t
      <4>1. /\ content' = content /\ svc'[s].todo = svc[s].todo
            /\ \/ Pending(svc[s]) /\ svc'[s].payload = svc[s].payload
               \/ svc'[s].payload = content[Head(svc[s].todo)]
        BY <1>6, <3>1, <3>3, SessionPayload
      <4>2. svc'[s] \in Distribution /\ svc'[s].todo # <<>>
        BY <1>1, <1>6, IdleOrBusy DEF Pending, WrittenInv, TypeOK, TodoOK
      <4>3. Head(svc'[s].todo) \in Keys /\ svc'[s].payload \in Nat
        BY <4>2, CurrentTypes DEF Distribution
      <4> QED BY <4>1, <4>3, <1>2 DEF Committed
    <3> QED BY <3>2, <3>3
  <2>2. CASE ~\E t \in Sessions :
                Progress(t) \/ Abort(t) \/ \E todo \in Requested : Start(t, todo)
    <3>1. svc'[s] = svc[s] /\ Pending(svc[s])
      BY <1>6, <2>2, OtherStep
    <3> QED BY <1>2, <1>3, <1>4, <3>1 DEF Committed
  <2> QED BY <2>1, <2>2
<1> QED BY <1>5, <1>6 DEF Committed

\* Served one at a time and without late pipelines, what is about to be written
\* is at least as new as all that was.
LEMMA NoneNewerStep ==
    ASSUME Ordered, WrittenInv, Committed, VersionInv, NoneNewer, [Next]_vars
    PROVE  NoneNewer'
<1>1. WrittenInv' /\ VersionInv'
  BY NextKeepsWritten, NextKeepsVersion DEF Ordered
<1>2. late = {}
  BY DEF VersionInv, WriterInv
<1>3. redis_version \in Nat /\ redis_version' \in Nat /\ \A w \in written' : w \in Write
  BY <1>1 DEF WrittenInv, TypeOK
<1>4. ASSUME NEW s \in Sessions, Execute(s)
      PROVE  /\ svc[s] \in Distribution /\ Pending(svc[s])
             /\ CurrentWrite(svc[s]).version \in Nat
             /\ redis_version <= CurrentWrite(svc[s]).version
             /\ CurrentWrite(svc[s]).key = Head(svc[s].todo)
             /\ CurrentWrite(svc[s]).content = svc[s].payload
  <2>1. svc[s] \in Distribution /\ Pending(svc[s])
    BY <1>4, IdleOrBusy DEF Execute, WrittenInv, TypeOK, Pending
  <2>2. redis_version <= svc[s].version
    BY <1>4 DEF Execute, VersionInv, WriterInv, VersionsPast
  <2> QED BY <2>1, <2>2 DEF CurrentWrite, Distribution
<1>5. ASSUME NEW p \in written' PROVE p.version <= redis_version'
  <2>1. CASE UNCHANGED <<written, redis_version>>
    BY <2>1 DEF NoneNewer
  <2>2. ASSUME NEW s \in Sessions, Execute(s), RedisExecutes(CurrentWrite(svc[s]))
        PROVE  p.version <= redis_version'
    <3>1. /\ redis_version' = CurrentWrite(svc[s]).version
          /\ p \in written \/ p = CurrentWrite(svc[s])
      BY <2>2 DEF RedisExecutes
    <3>2. p.version \in Nat
      BY <1>3 DEF Write
    <3>3. p \in written => p.version <= redis_version
      BY DEF NoneNewer
    <3> QED BY <1>3, <1>4, <2>2, <3>1, <3>2, <3>3
  <2> QED BY <1>2, <2>1, <2>2, PipelineStep
<1>6. ASSUME NEW s \in Sessions, Pending(svc'[s]), NEW p \in written',
             p.key = Head(svc'[s].todo)
      PROVE  p.content <= svc'[s].payload
  <2>1. svc'[s] \in Distribution /\ svc'[s] # Idle
    BY <1>1, <1>6, IdleOrBusy DEF Pending, WrittenInv, TypeOK
  <2>2. CASE \E t \in Sessions :
                 Progress(t) \/ Abort(t) \/ \E todo \in Requested : Start(t, todo)
    <3>1. PICK t \in Sessions :
             Progress(t) \/ Abort(t) \/ \E todo \in Requested : Start(t, todo)
      BY <2>2
    <3>2. t \in Busy \/ Busy = {}
      BY <3>1 DEF Ordered, Progress, Build, Persist, Execute, Finish, Commit, Abort, Start,
                  Busy, Idle
    <3>3. s = t
      BY <2>1, <3>1, <3>2, SessionPayload DEF VersionInv, OneBusy, Busy
    <3>4. /\ svc'[s].todo = svc[s].todo
          /\ \/ Pending(svc[s]) /\ svc'[s].payload = svc[s].payload
             \/ svc'[s].payload = content[Head(svc[s].todo)] /\ written' = written
      BY <1>6, <3>1, <3>3, SessionPayload
    <3>5. p \in written \/ \E q \in Sessions : Execute(q) /\ p = CurrentWrite(svc[q])
      <4>1. CASE written' = written
        BY <4>1
      <4>2. ASSUME NEW q \in Sessions, Execute(q), RedisExecutes(CurrentWrite(svc[q]))
            PROVE  p \in written \/ p = CurrentWrite(svc[q])
        BY <4>2 DEF RedisExecutes
      <4> QED BY <1>2, <4>1, <4>2, PipelineStep
    <3>6. CASE p \in written
      BY <1>6, <3>4, <3>6 DEF NoneNewer, Committed
    <3>7. ASSUME NEW q \in Sessions, Execute(q), p = CurrentWrite(svc[q]), p \notin written
          PROVE  p.content <= svc'[s].payload
      <4>1. q \in Busy /\ p.content = svc[q].payload
        BY <1>4, <3>7 DEF Execute, Busy, Idle
      <4>2. Pending(svc[s]) /\ svc'[s].payload = svc[s].payload
        BY <3>4, <3>7
      <4>3. s = q
        BY <4>1, <4>2 DEF VersionInv, OneBusy, Busy, Pending, Idle
      <4>4. svc'[s].payload \in Nat
        BY <2>1 DEF Distribution
      <4> QED BY <4>1, <4>2, <4>3, <4>4
    <3> QED BY <3>5, <3>6, <3>7
  <2>3. CASE ~\E t \in Sessions :
                 Progress(t) \/ Abort(t) \/ \E todo \in Requested : Start(t, todo)
    <3>1. svc' = svc
      BY <2>3, OtherStep
    <3>2. ~\E q \in Sessions : Execute(q)
      BY <2>3 DEF Progress
    <3>3. written' = written
      BY <1>2, <3>2, PipelineStep
    <3> QED BY <1>6, <3>1, <3>3 DEF NoneNewer
  <2> QED BY <2>2, <2>3
<1> QED BY <1>5, <1>6 DEF NoneNewer

LEMMA PublicationStep == PublicationInv /\ [Next]_vars => PublicationInv'
<1> SUFFICES ASSUME PublicationInv, [Next]_vars PROVE PublicationInv'
  OBVIOUS
<1>1. WrittenInv' /\ Committed'
  BY NextKeepsWritten, CommittedStep DEF PublicationInv
<1>2. ASSUME Ordered PROVE VersionInv' /\ NoneNewer'
  BY <1>2, NextKeepsVersion, NoneNewerStep DEF PublicationInv, Ordered
<1> QED BY <1>1, <1>2 DEF PublicationInv, Ordered

\* Executing a pipeline is a publication.
LEMMA Publishes ==
    ASSUME PublicationInv, [Next]_vars, NEW w \in Write, RedisExecutes(w),
           w \in late \/ \E s \in Sessions : Execute(s) /\ w = CurrentWrite(svc[s]),
           UNCHANGED <<content, events, config_versions>>
    PROVE  Publication!Next
<1>1. w.content <= content[w.key]
  <2>1. CASE w \in late
    BY <2>1 DEF PublicationInv, Committed
  <2>2. ASSUME NEW s \in Sessions, Execute(s), w = CurrentWrite(svc[s])
        PROVE  w.content <= content[w.key]
    BY <2>2 DEF PublicationInv, Committed, Execute, Pending, CurrentWrite
  <2> QED BY <2>1, <2>2
<1>2. ASSUME Ordered, NEW p \in written
      PROVE  p.version <= w.version /\ (p.key = w.key => p.content <= w.content)
  <2>1. PICK s \in Sessions : Execute(s) /\ w = CurrentWrite(svc[s])
    BY <1>2 DEF PublicationInv, VersionInv, WriterInv
  <2>2. Pending(svc[s]) /\ redis_version <= svc[s].version /\ p.version <= redis_version
    BY <1>2, <2>1 DEF Execute, Pending, PublicationInv, VersionInv, WriterInv, VersionsPast, NoneNewer
  <2>3. p.version \in Nat /\ redis_version \in Nat /\ w.version \in Nat
    BY DEF PublicationInv, WrittenInv, TypeOK, Write
  <2>4. w.version = svc[s].version /\ w.key = Head(svc[s].todo) /\ w.content = svc[s].payload
    BY <2>1 DEF CurrentWrite
  <2>5. p.key = w.key => p.content <= w.content
    BY <1>2, <2>2, <2>4 DEF PublicationInv, NoneNewer
  <2> QED BY <2>2, <2>3, <2>4, <2>5
<1>3. Ordered => Publication!Newest(w)
  BY <1>2 DEF Publication!Newest
<1>4. w \in written'
  BY DEF RedisExecutes
<1>5. Publication!Publish(w)
  BY <1>1, <1>3 DEF Publication!Publish, RedisExecutes, Ordered
<1> QED BY <1>4, <1>5 DEF Publication!Next

\* Every step of the model is a step of the publication or none at all.
LEMMA StepPublishes ==
    ASSUME PublicationInv, [Next]_vars
    PROVE  Publication!Next \/ UNCHANGED <<content, redis, redis_version, written, events,
                                           config_versions>>
<1>1. WrittenInv /\ WrittenInv'
  BY NextKeepsWritten DEF PublicationInv
<1>2. CASE UNCHANGED vars
  BY <1>2 DEF vars
<1>3. CASE Tick \/ \E c \in Readers : StartRead(c) \/ ReadKey(c) \/ ReadVersion(c)
  BY <1>3 DEF Tick, StartRead, ReadKey, ReadVersion
<1>4. ASSUME NEW k \in Keys, ChangeContent(k) PROVE Publication!Next
  BY <1>4 DEF ChangeContent, Publication!Next, Publication!Change
<1>5. ASSUME NEW k \in Keys, Expire(k) PROVE Publication!Next
  BY <1>5 DEF Expire, Missing, Publication!Next, Publication!Expire, Publication!Missing
<1>6. ASSUME NEW w \in late, ExecuteLate(w) PROVE Publication!Next
  <2>1. w \in Write /\ RedisExecutes(w) /\ UNCHANGED <<content, events, config_versions>>
    BY <1>1, <1>6 DEF ExecuteLate, WrittenInv, TypeOK
  <2> QED BY <2>1, Publishes
<1>7. ASSUME NEW s \in Sessions, Execute(s)
      PROVE  Publication!Next \/ UNCHANGED <<content, redis, redis_version, written, events,
                                             config_versions>>
  <2>1. PICK w \in Write : w = CurrentWrite(svc[s])
    <3>1. svc[s] \in Distribution /\ svc[s].todo # <<>>
      BY <1>1, <1>7, IdleOrBusy DEF Execute, WrittenInv, TypeOK, TodoOK
    <3> QED BY <3>1, CurrentTypes
  <2>2. UNCHANGED <<content, events, config_versions>>
    BY <1>7 DEF Execute
  <2>3. RedisExecutes(w) \/ UNCHANGED <<redis, redis_version, written>>
    BY <1>7, <2>1 DEF Execute, NoReply
  <2> QED BY <1>7, <2>1, <2>2, <2>3, Publishes
<1>8. ASSUME NEW s \in Sessions, Finish(s)
      PROVE  Publication!Next \/ UNCHANGED <<content, redis, redis_version, written, events,
                                             config_versions>>
  <2>1. PICK w \in written : w = CurrentWrite(svc[s])
    BY <1>1, <1>8 DEF Finish, WrittenInv, SessionsOK, PublishedOK, Idle
  <2>2. w.key = Head(svc[s].todo) /\ w.version = svc[s].version
    BY <2>1 DEF CurrentWrite
  <2>3. UNCHANGED <<content, redis, redis_version, written, config_versions>>
    BY <1>8 DEF Finish
  <2>4. events' = events \cup {[key |-> w.key, version |-> w.version]} \/ events' = events
    BY <1>8, <2>2 DEF Finish
  <2>5. Publication!Announce(w) \/ events' = events
    BY <2>3, <2>4 DEF Publication!Announce
  <2> QED BY <2>3, <2>5 DEF Publication!Next
<1>9. ASSUME NEW s \in Sessions, Commit(s) PROVE Publication!Next
  <2>1. /\ config_versions' = config_versions \cup svc[s].rows
        /\ UNCHANGED <<content, redis, redis_version, written, events>>
    BY <1>9 DEF Commit
  <2>2. HistoryWasWritten' /\ written' = written
    BY <1>1, <2>1 DEF WrittenInv
  <2>3. Publication!Record
    BY <2>1, <2>2 DEF HistoryWasWritten, Publication!Record
  <2> QED BY <2>3 DEF Publication!Next
<1>10. ASSUME NEW s \in Sessions,
              Build(s) \/ Persist(s) \/ Abort(s) \/ \E todo \in Requested : Start(s, todo)
       PROVE  UNCHANGED <<content, redis, redis_version, written, events, config_versions>>
  BY <1>10 DEF Build, Persist, Abort, Start
<1> QED
  BY <1>2, <1>3, <1>4, <1>5, <1>6, <1>7, <1>8, <1>9, <1>10 DEF Next, Progress

\* Concurrent requests, retries, timeouts, late pipelines and rollbacks show
\* outside as publications of committed configuration that take effect at once
\* and are told of only afterwards; one request at a time and no late pipelines
\* make every publication the newest.
THEOREM PublicationRefined == Spec => RefinesPublication
<1>1. Init => Publication!Init
  BY DEF Init, Missing, Publication!Init, Publication!Missing
<1>2. PublicationInv /\ [Next]_vars =>
         [Publication!Next]_<<content, redis, redis_version, written, events, config_versions>>
  BY StepPublishes
<1> QED
  BY <1>1, <1>2, InitPublication, PublicationStep, PTL
     DEF Spec, RefinesPublication, Publication!Spec, Publication!vars

----------------------------------------------------------------------------
(* A request does a bounded amount of work.                                *)

\* The steps left to the current key ...
Rank(d) ==
    CASE d.pc = "build" -> 4 [] d.pc = "persist" -> 3
      [] d.pc = "execute" -> 2 - d.attempt [] OTHER -> 0

\* ... and the steps, at most, to the commit.
Budget(d) == 5 * Len(d.todo) + Rank(d)

BudgetFalls(s) ==
    svc[s] # Idle /\ svc'[s] # Idle /\ svc'[s] # svc[s] => Budget(svc'[s]) < Budget(svc[s])

LEMMA BudgetType ==
    ASSUME NEW d \in Distribution
    PROVE  Budget(d) \in Nat /\ Rank(d) \in 0..4 /\ Len(d.todo) \in Nat
<1>1. Len(d.todo) \in Nat /\ d.attempt \in {0, 1}
  BY LenProperties DEF Distribution
<1>2. Rank(d) \in 0..4
  BY <1>1 DEF Rank, Distribution
<1> QED BY <1>1, <1>2 DEF Budget

\* The same key, one phase further on.
LEMMA SameKeyFalls ==
    ASSUME NEW d \in Distribution, NEW e, e.todo = d.todo, Rank(e) \in 0..4, Rank(e) < Rank(d)
    PROVE  Budget(e) < Budget(d)
  BY BudgetType DEF Budget

LEMMA SessionBudget ==
    ASSUME WrittenInv, NEW s \in Sessions, Progress(s)
    PROVE  BudgetFalls(s)
<1> SUFFICES ASSUME svc'[s] # Idle
             PROVE  Budget(svc'[s]) < Budget(svc[s])
  BY DEF BudgetFalls
<1>1. svc[s] \in Distribution /\ svc \in [Sessions -> Distribution \cup {Idle}]
  BY DEF WrittenInv, TypeOK, Progress, Build, Persist, Execute, Finish, Commit, Idle
<1>2. CASE Build(s)
  <2> DEFINE e == [svc[s] EXCEPT !.pc = "persist", !.payload = content[Head(svc[s].todo)]]
  <2>1. svc'[s] = e
    BY <1>1, <1>2 DEF Build
  <2>2. e.todo = svc[s].todo /\ e.pc = "persist" /\ svc[s].pc = "build"
    BY <1>1, <1>2 DEF Build, Distribution
  <2> HIDE DEF e
  <2>3. Rank(e) = 3 /\ Rank(svc[s]) = 4
    BY <2>2 DEF Rank
  <2> QED BY <1>1, <2>1, <2>2, <2>3, SameKeyFalls
<1>3. CASE Persist(s)
  <2> DEFINE d == [svc[s] EXCEPT !.pc = "execute", !.version = clock, !.attempt = 0]
             e == [d EXCEPT !.rows = @ \cup {CurrentRow(d, "pending")}]
  <2>1. svc'[s] = e
    BY <1>1, <1>3 DEF Persist
  <2>2. e.todo = svc[s].todo /\ e.pc = "execute" /\ e.attempt = 0 /\ svc[s].pc = "persist"
    BY <1>1, <1>3 DEF Persist, Distribution
  <2> HIDE DEF d, e
  <2>3. Rank(e) = 2 /\ Rank(svc[s]) = 3
    BY <2>2 DEF Rank
  <2> QED BY <1>1, <2>1, <2>2, <2>3, SameKeyFalls
<1>4. CASE Execute(s)
  <2>1. svc[s].pc = "execute" /\ svc[s].attempt \in {0, 1}
    BY <1>1, <1>4 DEF Execute, Distribution
  <2>2. CASE svc' = [svc EXCEPT ![s].pc = "finish"]
    <3> DEFINE e == [svc[s] EXCEPT !.pc = "finish"]
    <3>1. svc'[s] = e /\ e.todo = svc[s].todo /\ e.pc = "finish"
      BY <1>1, <2>2 DEF Distribution
    <3> HIDE DEF e
    <3>2. Rank(e) = 0 /\ Rank(svc[s]) \in 1..2
      BY <2>1, <3>1 DEF Rank
    <3> QED BY <1>1, <3>1, <3>2, SameKeyFalls
  <2>3. CASE svc[s].attempt = 0 /\ svc' = [svc EXCEPT ![s].attempt = 1]
    <3> DEFINE e == [svc[s] EXCEPT !.attempt = 1]
    <3>1. svc'[s] = e /\ e.todo = svc[s].todo /\ e.pc = "execute" /\ e.attempt = 1
      BY <1>1, <2>1, <2>3 DEF Distribution
    <3> HIDE DEF e
    <3>2. Rank(e) = 1 /\ Rank(svc[s]) = 2
      BY <2>1, <2>3, <3>1 DEF Rank
    <3> QED BY <1>1, <3>1, <3>2, SameKeyFalls
  <2>4. svc' # [svc EXCEPT ![s] = Idle]
    BY <1>1
  <2> QED BY <1>4, <2>2, <2>3, <2>4 DEF Execute
<1>5. CASE Finish(s)
  <2> DEFINE e == AfterKey(svc[s])
  <2>1. svc'[s] = e /\ svc[s].pc = "finish" /\ svc[s].todo # <<>>
    BY <1>1, <1>5 DEF Finish, WrittenInv, TodoOK, Idle
  <2>2. e.todo = Tail(svc[s].todo) /\ e.pc = IF Len(svc[s].todo) = 1 THEN "commit" ELSE "build"
    BY <1>1 DEF AfterKey, Distribution
  <2>3. svc[s].todo \in Seq(Keys)
    BY <1>1 DEF Distribution
  <2>4. Len(e.todo) = Len(svc[s].todo) - 1 /\ Len(svc[s].todo) \in Nat
    BY <2>1, <2>2, <2>3, HeadTailProperties, LenProperties
  <2> HIDE DEF e
  <2>5. Rank(e) \in 0..4 /\ Rank(svc[s]) = 0
    BY <2>1, <2>2 DEF Rank
  <2> QED BY <2>1, <2>4, <2>5 DEF Budget
<1>6. ~Commit(s)
  BY <1>1 DEF Commit
<1> QED BY <1>2, <1>3, <1>4, <1>5, <1>6 DEF Progress

\* A request begins with five steps for each key it distributes, at most.
StartsWithin(s) ==
    svc[s] = Idle /\ svc'[s] # Idle => Budget(svc'[s]) <= 5 * Len(KeyOrder) + 4

LEMMA StartBudget ==
    ASSUME WrittenInv, NEW s \in Sessions, NEW todo \in Requested, Start(s, todo)
    PROVE  Budget(svc'[s]) <= 5 * Len(KeyOrder) + 4
<1> DEFINE e == [pc |-> "build", todo |-> todo, payload |-> 0, version |-> 0,
                 attempt |-> 0, rows |-> {}]
<1>1. svc'[s] = e
  BY DEF Start, WrittenInv, TypeOK
<1>2. e.pc = "build" /\ e.todo = todo
  OBVIOUS
<1> HIDE DEF e
<1>3. Rank(e) = 4
  BY <1>2 DEF Rank
<1>4. Len(todo) <= Len(KeyOrder) /\ Len(todo) \in Nat /\ Len(KeyOrder) \in Nat
  BY KeysAssumption, LenProperties, EmptySeq DEF Requested
<1> QED BY <1>1, <1>2, <1>3, <1>4 DEF Budget

\* However often Redis times out, every step of a distribution either ends it or
\* brings it closer to its commit: at most five steps for each key, and four
\* more.  It is what DistributionEnds rests on besides fairness.
THEOREM DistributionWorkIsBounded ==
    Spec => [][\A s \in Sessions : StartsWithin(s) /\ BudgetFalls(s)]_vars
<1> DEFINE Bounded == \A s \in Sessions : StartsWithin(s) /\ BudgetFalls(s)
<1>1. ASSUME WrittenInv, Next PROVE Bounded
  <2> SUFFICES ASSUME NEW s \in Sessions PROVE StartsWithin(s) /\ BudgetFalls(s)
    OBVIOUS
  <2>1. CASE svc'[s] = svc[s]
    BY <2>1 DEF StartsWithin, BudgetFalls
  <2>2. CASE svc'[s] = Idle
    BY <2>2 DEF StartsWithin, BudgetFalls
  <2>3. CASE Progress(s)
    <3>1. svc[s] # Idle
      BY <2>3 DEF Progress, Build, Persist, Execute, Finish, Commit, Idle
    <3> QED BY <1>1, <2>3, <3>1, SessionBudget DEF StartsWithin
  <2>4. ASSUME NEW todo \in Requested, Start(s, todo)
        PROVE  StartsWithin(s) /\ BudgetFalls(s)
    BY <1>1, <2>4, StartBudget DEF StartsWithin, BudgetFalls, Start
  <2>5. ASSUME NEW t \in Sessions, t # s,
               Progress(t) \/ Abort(t) \/ \E todo \in Requested : Start(t, todo)
        PROVE  svc'[s] = svc[s]
    BY <1>1, <2>5
       DEF WrittenInv, TypeOK, Progress, Build, Persist, Execute, Finish, Commit, Abort, Start
  <2>6. Abort(s) => svc'[s] = Idle
    BY <1>1 DEF Abort, WrittenInv, TypeOK
  <2>7. \/ svc' = svc
        \/ \E t \in Sessions :
              Progress(t) \/ Abort(t) \/ \E todo \in Requested : Start(t, todo)
    BY <1>1 DEF Next, Tick, ChangeContent, Expire, ExecuteLate, StartRead, ReadKey, ReadVersion
  <2> QED BY <2>1, <2>2, <2>3, <2>4, <2>5, <2>6, <2>7
<1>2. WrittenInv /\ [Next]_vars => [Bounded]_vars
  BY <1>1
<1> QED BY <1>2, SpecKeepsWritten, PTL DEF Spec
=============================================================================
