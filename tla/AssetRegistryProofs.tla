-------------------------- MODULE AssetRegistryProofs --------------------------
(* Theorems about AssetRegistry for any assets, sessions and values and any   *)
(* number of requests.                                                        *)
EXTENDS AssetRegistry, TLAPS

Busy(s) == tx[s] # IdleTx

\* What the handler that started t has loaded and made of it.
TxOK(t) ==
    /\ t.op \in Operations(KindOf[t.asset])
    /\ t.op = "create" => t.loaded = Absent /\ t.new \in Row
    /\ t.op # "create" => t.loaded \in Row
    /\ t.op = "delete" => t.new = Absent
    /\ t.op \in {"update", "enable", "disable"} => t.new \in Row /\ t.new.id = t.loaded.id
    /\ t.op \in {"enable", "disable"} => ContentOf(t.new) = ContentOf(t.loaded)
    /\ t.op = "update" => t.new.active = t.loaded.active
    /\ t.op = "enable" => t.new.active = TRUE
    /\ t.op = "disable" => t.new.active = FALSE

TxsOK == \A s \in Sessions : Busy(s) => TxOK(tx[s])

\* A row has one writer at a time, and the writer's row stays as it was found.
LockExclusive ==
    \A s, q \in Sessions, a \in Assets : Locks(tx[s], a) /\ Locks(tx[q], a) => s = q

WriterFound ==
    \A s \in Sessions :
        Busy(s) /\ tx[s].pc = "written" /\ Dirty(tx[s]) /\ tx[s].op # "delete" => Found(tx[s])

BaseInv == TypeOK /\ TxsOK /\ LockExclusive /\ WriterFound

\* What t read back after its write is what its commit leaves, or, when it
\* wrote nothing, what the row was and still is unless a version was recorded.
SeenOK(t) ==
    /\ Dirty(t) => t.seen = ContentOf(Written(t, rows[t.asset]))
    /\ ~Dirty(t) =>
          /\ t.seen \in past[t.asset]
          /\ Versioned(t.asset) /\ history[t.asset] = {} => t.seen = ContentOf(rows[t.asset])

ReadBackOK ==
    \A s \in Sessions :
        Busy(s) /\ tx[s].pc = "written" /\ tx[s].op \in {"create", "update"} => SeenOK(tx[s])

PastOK == \A a \in Assets : ContentOf(rows[a]) \in past[a]

HistoryInv == BaseInv /\ ReadBackOK /\ PastOK /\ HistoryIsReal /\ ContentRecorded

\* Ids are handed out once: an asset under creation has an id that no row, no
\* audit row and no other request has.
IdsOK ==
    /\ \A a \in Assets : rows[a].id <= last_id
    /\ \A e \in audit : e.id <= last_id /\ e.id # 0
    /\ \A s \in Sessions : Busy(s) => tx[s].loaded.id <= last_id /\ tx[s].new.id <= last_id

FreshId(s) ==
    /\ \A a \in Assets : rows[a].id # tx[s].new.id
    /\ \A e \in audit : e.id # tx[s].new.id
    /\ \A q \in Sessions : Busy(q) =>
          /\ tx[q].loaded.id # tx[s].new.id
          /\ q # s /\ tx[q].op = "create" => tx[q].new.id # tx[s].new.id

CreatesFresh == \A s \in Sessions : Busy(s) /\ tx[s].op = "create" => FreshId(s)

ExistenceInv == BaseInv /\ IdsOK /\ CreatesFresh /\ ExistenceAudited

----------------------------------------------------------------------------
(* Lemmas about requests and writes.                                       *)

LEMMA IdleOrBusy ==
    ASSUME NEW t \in Tx \cup {IdleTx}
    PROVE  /\ t # IdleTx <=> t \in Tx
           /\ t # IdleTx <=> t.pc \in {"loaded", "written"}
  BY DEF Tx, IdleTx

LEMMA OperationTypes ==
    ASSUME NEW a \in Assets
    PROVE  /\ Operations(KindOf[a]) \subseteq Actions
           /\ Versioned(a) => "delete" \notin Operations(KindOf[a])
  BY AssetsAssumption DEF Operations, Actions, Kinds, Versioned

\* A request loads the committed row and makes a new one of it.
LEMMA EditedTypes ==
    ASSUME TypeOK, NEW a \in Assets, NEW op \in Operations(KindOf[a]), Accepts(a, op),
           NEW body \in [left : Values, right : Values], NEW on \in BOOLEAN,
           NEW touched \in BOOLEAN, NEW t,
           t = [pc |-> "loaded", asset |-> a, op |-> op, touched |-> touched,
                loaded |-> rows[a], new |-> Edited(a, op, rows[a], body, on),
                seen |-> ContentOf(Absent)]
    PROVE  /\ t \in Tx /\ TxOK(t) /\ t # IdleTx /\ t.pc = "loaded"
           /\ op = "create" => t.new.id = last_id + 1
<1>1. rows[a] \in Row \cup {Absent} /\ last_id \in Nat /\ op \in Actions
  BY OperationTypes DEF TypeOK
<1>2. op = "create" => /\ Edited(a, op, rows[a], body, on) \in Row /\ rows[a] = Absent
                       /\ Edited(a, op, rows[a], body, on).id = last_id + 1
  BY <1>1 DEF Edited, Row, Accepts
<1>3. op # "create" => rows[a] \in Row
  BY <1>1 DEF Accepts
<1>4. op = "delete" => Edited(a, op, rows[a], body, on) = Absent
  BY DEF Edited
<1>5. op \in {"update", "enable", "disable"} =>
         /\ Edited(a, op, rows[a], body, on) \in Row
         /\ Edited(a, op, rows[a], body, on).id = rows[a].id
  BY <1>3 DEF Edited, Row
<1>6. op \in {"enable", "disable"} =>
         ContentOf(Edited(a, op, rows[a], body, on)) = ContentOf(rows[a])
  BY <1>3 DEF Edited, Row, ContentOf
<1>7. ContentOf(Absent) \in Content
  BY DEF ContentOf, Absent, Content
<1>11. /\ op = "update" => Edited(a, op, rows[a], body, on).active = rows[a].active
       /\ op = "enable" => Edited(a, op, rows[a], body, on).active = TRUE
       /\ op = "disable" => Edited(a, op, rows[a], body, on).active = FALSE
  BY <1>3 DEF Edited, Row
<1>8. op \in {"create", "update", "enable", "disable", "delete"}
  BY <1>1 DEF Actions, Operations
<1>9. t \in Tx
  BY <1>1, <1>2, <1>4, <1>5, <1>7, <1>8 DEF Tx
<1>10. TxOK(t)
  BY <1>2, <1>3, <1>4, <1>5, <1>6, <1>11 DEF TxOK
<1> QED BY <1>2, <1>9, <1>10 DEF IdleTx

\* What a write leaves is a row or nothing; only create and delete touch the
\* id, and a request without changes writes nothing.
LEMMA WrittenTypes ==
    ASSUME TypeOK, NEW t \in Tx, TxOK(t), Found(t) \/ t.op = "delete" \/ ~Dirty(t)
    PROVE  /\ Written(t, rows[t.asset]) \in Row \cup {Absent}
           /\ ContentOf(Written(t, rows[t.asset])) \in Content
           /\ t.op \notin {"create", "delete"} => Written(t, rows[t.asset]).id = rows[t.asset].id
           /\ ~Dirty(t) => Written(t, rows[t.asset]) = rows[t.asset]
           /\ t.op \in {"enable", "disable"} =>
                 ContentOf(Written(t, rows[t.asset])) = ContentOf(rows[t.asset])
<1> DEFINE row == rows[t.asset]
           res == Written(t, row)
<1>1. /\ row \in Row \cup {Absent} /\ t.op \in Actions
      /\ t.loaded \in Row \cup {Absent} /\ t.new \in Row \cup {Absent}
  BY DEF TypeOK, Tx
<1>2. \A r \in Row \cup {Absent} : ContentOf(r) \in Content
  BY DEF ContentOf, Row, Absent, Content
<1>3. CASE t.op = "create"
  <2>1. res = t.new /\ t.new \in Row
    BY <1>3 DEF Written, TxOK
  <2>2. Dirty(t)
    BY <1>3 DEF Dirty, TxOK, Row, Absent
  <2> QED BY <1>2, <1>3, <2>1, <2>2
<1>4. CASE t.op = "delete"
  <2>1. res \in {t.new, row} /\ t.new = Absent
    BY <1>4 DEF Written, TxOK
  <2>2. Dirty(t)
    BY <1>4 DEF Dirty, TxOK, Row, Absent
  <2> QED BY <1>1, <1>2, <1>4, <2>1, <2>2
<1>5. CASE t.op \in {"update", "enable", "disable"}
  <2>1. res = [row EXCEPT !.active = IF t.new.active # t.loaded.active THEN t.new.active ELSE @,
                          !.left = IF t.new.left # t.loaded.left THEN t.new.left ELSE @,
                          !.right = IF t.new.right # t.loaded.right THEN t.new.right ELSE @]
    BY <1>5 DEF Written
  <2>2. t.loaded \in Row /\ t.new \in Row
    BY <1>5 DEF TxOK
  <2>3. res.id = row.id
    BY <1>1, <2>1 DEF Row, Absent
  <2>4. ~Dirty(t) => res = row
    BY ZenonT(60), <1>1, <2>1 DEF Dirty, Row, Absent
  <2>5. row \in Row => res \in Row
    BY <2>1, <2>2 DEF Row
  <2>6. Found(t) => row \in Row
    BY <1>1, <2>2 DEF Found, Row, Absent
  <2>7. t.op \in {"enable", "disable"} => ContentOf(res) = ContentOf(row)
    BY <1>1, <2>1 DEF TxOK, ContentOf, Row, Absent
  <2> QED BY <1>1, <1>2, <1>5, <2>3, <2>4, <2>5, <2>6, <2>7
<1> QED BY <1>1, <1>3, <1>4, <1>5 DEF Actions, Operations

----------------------------------------------------------------------------
(* The base invariant: shapes, requests and locks.                         *)

LEMMA InitBase == Init => BaseInv
<1> SUFFICES ASSUME Init PROVE BaseInv
  OBVIOUS
<1>1. \A s \in Sessions : ~Busy(s) /\ tx[s].pc = "idle"
  BY DEF Init, Busy, IdleTx
<1>2. rows \in [Assets -> Row \cup {Absent}]
  <2>1. [id : {1}, active : {TRUE}, left : Values, right : Values] \subseteq Row
    <3>1. {1} \subseteq Nat \ {0} /\ {TRUE} \subseteq BOOLEAN
      OBVIOUS
    <3> QED BY <3>1, Zenon DEF Row
  <2> QED BY <2>1 DEF Init
<1>3. \A a \in Assets : ContentOf(rows[a]) \in Content
  <2> SUFFICES ASSUME NEW a \in Assets PROVE ContentOf(rows[a]) \in Content
    OBVIOUS
  <2>1. rows[a] \in Row \cup {Absent}
    BY <1>2
  <2> QED BY <2>1 DEF ContentOf, Content, Row, Absent
<1>4. TypeOK
  BY <1>2, <1>3 DEF Init, TypeOK
<1> QED BY <1>1, <1>4 DEF BaseInv, TxsOK, LockExclusive, WriterFound, Locks

\* A request that is given up.
LEMMA GivenUpBase ==
    ASSUME BaseInv, NEW s \in Sessions, tx' = [tx EXCEPT ![s] = IdleTx],
           UNCHANGED <<rows, past, history, audit, last_id, requests>>
    PROVE  BaseInv'
<1>1. TypeOK'
  BY DEF BaseInv, TypeOK
<1>2. ~Busy(s)' /\ tx'[s].pc = "idle" /\ \A q \in Sessions \ {s} : tx'[q] = tx[q]
  BY DEF Busy, BaseInv, TypeOK, IdleTx
<1>3. TxsOK'
  BY <1>2 DEF BaseInv, TxsOK, Busy, TxOK
<1>4. LockExclusive'
  BY <1>2 DEF BaseInv, LockExclusive, Locks, Dirty
<1>5. WriterFound'
  BY <1>2 DEF BaseInv, WriterFound, Busy, Found, Dirty
<1> QED BY <1>1, <1>3, <1>4, <1>5 DEF BaseInv

\* The request that a Begin starts.
LEMMA BegunTx ==
    ASSUME BaseInv, NEW s \in Sessions, NEW a \in Assets, NEW op \in Operations(KindOf[a]),
           Begin(s, a, op)
    PROVE  \E t \in Tx :
              /\ tx' = [tx EXCEPT ![s] = t]
              /\ TxOK(t) /\ t # IdleTx /\ t.pc = "loaded"
              /\ t.op = op /\ t.asset = a /\ t.loaded = rows[a]
              /\ op = "create" => t.new.id = last_id + 1
              /\ op = "delete" => t.new = Absent
              /\ op \in {"update", "enable", "disable"} => t.new.id = t.loaded.id
<1>1. PICK body \in [left : Values, right : Values], on \in BOOLEAN, touched \in BOOLEAN :
         tx' = [tx EXCEPT ![s] =
                   [pc |-> "loaded", asset |-> a, op |-> op, touched |-> touched,
                    loaded |-> rows[a], new |-> Edited(a, op, rows[a], body, on),
                    seen |-> ContentOf(Absent)]]
  BY DEF Begin
<1> DEFINE t == [pc |-> "loaded", asset |-> a, op |-> op, touched |-> touched,
                 loaded |-> rows[a], new |-> Edited(a, op, rows[a], body, on),
                 seen |-> ContentOf(Absent)]
<1>2. Accepts(a, op) /\ TypeOK
  BY DEF Begin, BaseInv
<1> HIDE DEF t
<1>3. /\ t \in Tx /\ TxOK(t) /\ t # IdleTx /\ t.pc = "loaded"
      /\ op = "create" => t.new.id = last_id + 1
  BY <1>2, EditedTypes DEF t
<1>4. tx' = [tx EXCEPT ![s] = t] /\ t.op = op /\ t.asset = a /\ t.loaded = rows[a]
  BY <1>1 DEF t
<1>5. /\ op = "delete" => t.new = Absent
      /\ op \in {"update", "enable", "disable"} => t.new.id = t.loaded.id
  BY <1>3, <1>4 DEF TxOK
<1> QED BY <1>3, <1>5, <1>4

\* The request after its write, and the committed rows after its commit.
LEMMA WriteFacts ==
    ASSUME BaseInv, NEW s \in Sessions, Write(s)
    PROVE  /\ tx[s] \in Tx /\ TxOK(tx[s]) /\ tx[s].pc = "loaded" /\ Busy(s)
           /\ tx'[s] = [tx[s] EXCEPT !.pc = "written", !.seen = Seen(tx[s])]
           /\ \A q \in Sessions \ {s} : tx'[q] = tx[q]
           /\ Busy(s)' /\ tx'[s] \in Tx
           /\ Found(tx[s]) \/ tx[s].op = "delete" \/ ~Dirty(tx[s])
<1>1. tx[s] \in Tx /\ TxOK(tx[s]) /\ tx[s].pc = "loaded" /\ Busy(s)
  BY IdleOrBusy DEF BaseInv, TypeOK, TxsOK, Write, Busy
<1>2. /\ tx'[s] = [tx[s] EXCEPT !.pc = "written", !.seen = Seen(tx[s])]
      /\ \A q \in Sessions \ {s} : tx'[q] = tx[q]
  BY DEF Write, BaseInv, TypeOK
<1>3. Found(tx[s]) \/ tx[s].op = "delete" \/ ~Dirty(tx[s])
  BY DEF Write, Writable
<1>4. Seen(tx[s]) \in Content
  BY <1>1, <1>3, WrittenTypes DEF BaseInv, Seen
<1>5. tx'[s] \in Tx
  BY <1>1, <1>2, <1>4 DEF Tx
<1> QED BY <1>1, <1>2, <1>3, <1>5, IdleOrBusy DEF Busy

LEMMA CommitFacts ==
    ASSUME BaseInv, NEW s \in Sessions, Commit(s)
    PROVE  /\ tx[s] \in Tx /\ TxOK(tx[s]) /\ tx[s].pc = "written" /\ Busy(s)
           /\ ~Busy(s)' /\ tx'[s].pc = "idle"
           /\ \A q \in Sessions \ {s} : tx'[q] = tx[q]
           /\ Found(tx[s]) \/ tx[s].op = "delete" \/ ~Dirty(tx[s])
           /\ rows'[tx[s].asset] = Written(tx[s], rows[tx[s].asset])
           /\ \A a \in Assets \ {tx[s].asset} : rows'[a] = rows[a]
<1>1. tx[s] \in Tx /\ TxOK(tx[s]) /\ tx[s].pc = "written" /\ Busy(s)
  BY IdleOrBusy DEF BaseInv, TypeOK, TxsOK, Commit, Busy
<1>2. ~Busy(s)' /\ tx'[s].pc = "idle" /\ \A q \in Sessions \ {s} : tx'[q] = tx[q]
  BY DEF Commit, BaseInv, TypeOK, Busy, IdleTx
<1>3. Found(tx[s]) \/ tx[s].op = "delete" \/ ~Dirty(tx[s])
  BY <1>1 DEF BaseInv, WriterFound
<1>4. /\ rows'[tx[s].asset] = Written(tx[s], rows[tx[s].asset])
      /\ \A a \in Assets \ {tx[s].asset} : rows'[a] = rows[a]
  BY <1>1 DEF Commit, BaseInv, TypeOK, Tx
<1> QED BY <1>1, <1>2, <1>3, <1>4

LEMMA BaseStep ==
    ASSUME BaseInv, [Next]_vars
    PROVE  BaseInv'
<1>1. CASE UNCHANGED vars
  BY <1>1 DEF vars, BaseInv, TypeOK, TxsOK, TxOK, LockExclusive, WriterFound, Busy, Locks,
              Dirty, Found
<1>2. ASSUME NEW s \in Sessions, NEW a \in Assets, NEW op \in Operations(KindOf[a]),
             Begin(s, a, op)
      PROVE  BaseInv'
  <2>1. PICK t \in Tx : /\ tx' = [tx EXCEPT ![s] = t]
                        /\ TxOK(t) /\ t # IdleTx /\ t.pc = "loaded"
    BY <1>2, BegunTx
  <2>2. tx'[s] = t /\ \A q \in Sessions \ {s} : tx'[q] = tx[q]
    BY <2>1 DEF BaseInv, TypeOK
  <2>3. TypeOK'
    BY <1>2, <2>1 DEF BaseInv, TypeOK, Begin
  <2>4. TxsOK'
    BY <1>2, <2>1, <2>2 DEF BaseInv, TxsOK, TxOK, Busy, Begin
  <2>5. LockExclusive'
    BY <2>1, <2>2 DEF BaseInv, LockExclusive, Locks, Dirty
  <2>6. WriterFound'
    BY <1>2, <2>1, <2>2 DEF BaseInv, WriterFound, Busy, Found, Dirty, Begin
  <2> QED BY <2>3, <2>4, <2>5, <2>6 DEF BaseInv
<1>3. ASSUME NEW s \in Sessions, Write(s) PROVE BaseInv'
  <2>1. /\ tx[s] \in Tx /\ TxOK(tx[s])
        /\ tx'[s] = [tx[s] EXCEPT !.pc = "written", !.seen = Seen(tx[s])]
        /\ \A q \in Sessions \ {s} : tx'[q] = tx[q]
        /\ tx'[s] \in Tx
        /\ Found(tx[s]) \/ tx[s].op = "delete" \/ ~Dirty(tx[s])
    BY <1>3, WriteFacts
  <2>2. /\ tx'[s].pc = "written" /\ tx'[s].asset = tx[s].asset /\ tx'[s].op = tx[s].op
        /\ tx'[s].touched = tx[s].touched /\ tx'[s].loaded = tx[s].loaded
        /\ tx'[s].new = tx[s].new
    BY <2>1 DEF Tx
  <2>3. TypeOK'
    BY <1>3, <2>1 DEF BaseInv, TypeOK, Write
  <2>4. TxsOK'
    BY <1>3, <2>1, <2>2 DEF BaseInv, TxsOK, TxOK, Busy, Write
  <2>5. Dirty(tx[s]) => \A q \in Sessions \ {s} : ~Locks(tx[q], tx[s].asset)
    BY <1>3 DEF Write, RowFree
  <2>6. LockExclusive'
    <3>1. \A q \in Sessions \ {s}, a \in Assets : Locks(tx[q], a)' <=> Locks(tx[q], a)
      BY <2>1 DEF Locks, Dirty
    <3>2. \A a \in Assets : Locks(tx[s], a)' => a = tx[s].asset /\ Dirty(tx[s])
      BY <2>2 DEF Locks, Dirty
    <3> QED BY <2>5, <3>1, <3>2 DEF BaseInv, LockExclusive
  <2>7. WriterFound'
    BY <1>3, <2>1, <2>2 DEF BaseInv, WriterFound, Busy, Found, Dirty, Write
  <2> QED BY <2>3, <2>4, <2>6, <2>7 DEF BaseInv
<1>4. ASSUME NEW s \in Sessions, Conflict(s) \/ Abort(s) PROVE BaseInv'
  BY <1>4, GivenUpBase DEF Conflict, Abort
<1>5. ASSUME NEW s \in Sessions, Commit(s) PROVE BaseInv'
  <2> DEFINE t == tx[s]
  <2>1. /\ t \in Tx /\ TxOK(t) /\ t.pc = "written" /\ Busy(s)
        /\ ~Busy(s)' /\ tx'[s].pc = "idle"
        /\ \A q \in Sessions \ {s} : tx'[q] = tx[q]
        /\ Found(t) \/ t.op = "delete" \/ ~Dirty(t)
        /\ rows'[t.asset] = Written(t, rows[t.asset])
        /\ \A a \in Assets \ {t.asset} : rows'[a] = rows[a]
    BY <1>5, CommitFacts
  <2>2. /\ rows'[t.asset] \in Row \cup {Absent} /\ ContentOf(rows'[t.asset]) \in Content
        /\ ~Dirty(t) => rows'[t.asset] = rows[t.asset]
    BY <2>1, WrittenTypes DEF BaseInv
  <2>3. TypeOK'
    <3>1. rows' \in [Assets -> Row \cup {Absent}] /\ past' \in [Assets -> SUBSET Content]
      BY <1>5, <2>1, <2>2 DEF Commit, BaseInv, TypeOK
    <3>2. t.seen \in Content /\ t.asset \in Assets /\ t.op \in Actions
      BY <2>1 DEF Tx
    <3>3. history' \in [Assets -> SUBSET Content]
      BY <1>5, <3>2 DEF Commit, BaseInv, TypeOK
    <3>4. t.op = "create" => t.new.id \in Nat
      BY <2>1 DEF TxOK, Row
    <3>5. t.op # "create" => t.loaded.id \in Nat
      BY <2>1 DEF TxOK, Row
    <3>6. audit' \subseteq AuditRow
      BY <1>5, <3>2, <3>4, <3>5 DEF Commit, BaseInv, TypeOK, AuditRow
    <3> QED BY <1>5, <3>1, <3>3, <3>6 DEF Commit, BaseInv, TypeOK
  <2>4. TxsOK'
    BY <2>1 DEF BaseInv, TxsOK, TxOK, Busy
  <2>5. LockExclusive'
    BY <2>1 DEF BaseInv, LockExclusive, Locks, Dirty
  <2>6. ASSUME NEW q \in Sessions \ {s}, Busy(q), tx[q].pc = "written", Dirty(tx[q])
        PROVE  rows'[tx[q].asset] = rows[tx[q].asset]
    <3>1. tx[q] \in Tx
      BY <2>6, IdleOrBusy DEF BaseInv, TypeOK, Busy
    <3>2. tx[q].asset \in Assets
      BY <3>1 DEF Tx
    <3>3. tx[q].asset = t.asset => ~Dirty(t)
      BY <2>1, <2>6, <3>2 DEF BaseInv, LockExclusive, Locks
    <3> QED BY <2>1, <2>2, <3>2, <3>3
  <2>7. WriterFound'
    BY <2>1, <2>6 DEF BaseInv, WriterFound, Busy, Found, Dirty
  <2> QED BY <2>3, <2>4, <2>5, <2>7 DEF BaseInv
<1>6. ASSUME NEW s \in Sessions, NEW a \in Assets, NEW op \in Operations(KindOf[a]),
             Reject(s, a, op)
      PROVE  BaseInv'
  BY <1>1, <1>6 DEF Reject
<1> QED BY <1>1, <1>2, <1>3, <1>4, <1>5, <1>6 DEF Next

LEMMA BaseAlways == Spec => []BaseInv
  BY InitBase, BaseStep, PTL DEF Spec

\* Rows, history, audit rows and requests keep their shape: in particular no
\* UPDATE ever makes a row out of nothing.
THEOREM TypeCorrect == Spec => []TypeOK
  BY BaseAlways, PTL DEF BaseInv

----------------------------------------------------------------------------
(* History: what was read back after a write is what gets recorded.        *)

LEMMA InitHistory == Init => HistoryInv
<1> SUFFICES ASSUME Init PROVE HistoryInv
  OBVIOUS
<1>1. BaseInv
  BY InitBase
<1>2. \A s \in Sessions : ~Busy(s)
  BY DEF Init, Busy
<1>3. \A a \in Assets : history[a] = {} /\ past[a] = {ContentOf(rows[a])}
  BY DEF Init
<1> QED BY <1>1, <1>2, <1>3
        DEF HistoryInv, ReadBackOK, PastOK, HistoryIsReal, ContentRecorded

\* A step that leaves rows and history alone.
LEMMA QuietHistory ==
    ASSUME HistoryInv, BaseInv', UNCHANGED <<rows, past, history>>, NEW s \in Sessions,
           \A q \in Sessions \ {s} : tx'[q] = tx[q],
           Busy(s)' /\ tx'[s].pc = "written" /\ tx'[s].op \in {"create", "update"}
              => SeenOK(tx[s])'
    PROVE  HistoryInv'
<1>1. ReadBackOK'
  <2> SUFFICES ASSUME NEW q \in Sessions,
                      Busy(q)', tx'[q].pc = "written", tx'[q].op \in {"create", "update"}
               PROVE  SeenOK(tx[q])'
    BY DEF ReadBackOK
  <2>1. CASE q = s
    BY <2>1
  <2>2. CASE q # s
    <3>1. tx'[q] = tx[q] /\ SeenOK(tx[q])
      BY <2>2 DEF HistoryInv, ReadBackOK, Busy
    <3>2. /\ Versioned(tx[q].asset)' = Versioned(tx[q].asset)
          /\ Dirty(tx[q])' = Dirty(tx[q])
          /\ ContentOf(rows[tx[q].asset])' = ContentOf(rows[tx[q].asset])
      BY <3>1 DEF Dirty, Versioned, ContentOf
    <3>3. ContentOf(Written(tx[q], rows[tx[q].asset]))' = ContentOf(Written(tx[q], rows[tx[q].asset]))
      BY <3>1 DEF Written, ContentOf
    <3> QED BY <3>1, <3>2, <3>3 DEF SeenOK
  <2> QED BY <2>1, <2>2
<1> QED BY <1>1 DEF HistoryInv, PastOK, HistoryIsReal, ContentRecorded

\* A commit records what the row has become, or what it was and still is.
LEMMA CommitHistory ==
    ASSUME HistoryInv, NEW s \in Sessions, Commit(s)
    PROVE  HistoryInv'
<1> DEFINE t == tx[s]
           a == tx[s].asset
           row == Written(tx[s], rows[tx[s].asset])
<1>1. /\ t \in Tx /\ TxOK(t) /\ t.pc = "written" /\ Busy(s)
      /\ ~Busy(s)'
      /\ \A q \in Sessions \ {s} : tx'[q] = tx[q]
      /\ Found(t) \/ t.op = "delete" \/ ~Dirty(t)
      /\ rows'[a] = row
      /\ \A b \in Assets \ {a} : rows'[b] = rows[b]
  BY CommitFacts DEF HistoryInv
<1>2. a \in Assets /\ t.op \in Operations(KindOf[a]) /\ t.op \in Actions
  BY <1>1 DEF Tx, TxOK
<1>3. /\ ~Dirty(t) => row = rows[a]
      /\ t.op \in {"enable", "disable"} => ContentOf(row) = ContentOf(rows[a])
  BY <1>1, WrittenTypes DEF HistoryInv, BaseInv
<1>4. /\ past'[a] = past[a] \cup {ContentOf(row)}
      /\ \A b \in Assets \ {a} : past'[b] = past[b] /\ history'[b] = history[b]
      /\ history'[a] = IF Versioned(a) /\ t.op \in {"create", "update"}
                       THEN history[a] \cup {t.seen} ELSE history[a]
  BY <1>2 DEF Commit, HistoryInv, BaseInv, TypeOK
<1>5. t.op \in {"create", "update"} => SeenOK(t)
  BY <1>1 DEF HistoryInv, ReadBackOK
<1>6. BaseInv'
  BY BaseStep DEF HistoryInv, Next
<1>7. PastOK'
  BY <1>1, <1>2, <1>4 DEF HistoryInv, PastOK
<1>8. HistoryIsReal'
  <2>1. t.op \in {"create", "update"} => t.seen \in past'[a]
    BY <1>4, <1>5 DEF SeenOK
  <2> QED BY <1>4, <2>1 DEF HistoryInv, HistoryIsReal
<1>9. ContentRecorded'
  <2> SUFFICES ASSUME Versioned(a), history'[a] # {}
               PROVE  ContentOf(row) \in history'[a]
    BY <1>1, <1>4 DEF HistoryInv, ContentRecorded, Versioned
  <2>1. t.op \in {"create", "update", "enable", "disable"}
    BY <1>2, OperationTypes DEF Actions, Operations
  <2>2. history[a] # {} => ContentOf(rows[a]) \in history[a]
    BY <1>2 DEF HistoryInv, ContentRecorded
  <2>3. CASE t.op \in {"enable", "disable"}
    BY <1>3, <1>4, <2>2, <2>3
  <2>4. CASE t.op \in {"create", "update"} /\ Dirty(t)
    BY <1>4, <1>5, <2>4 DEF SeenOK
  <2>5. CASE t.op \in {"create", "update"} /\ ~Dirty(t)
    BY <1>3, <1>4, <1>5, <2>2, <2>5 DEF SeenOK
  <2> QED BY <2>1, <2>3, <2>4, <2>5
<1>10. ReadBackOK'
  <2> SUFFICES ASSUME NEW q \in Sessions \ {s}, Busy(q), tx[q].pc = "written",
                      tx[q].op \in {"create", "update"}
               PROVE  SeenOK(tx[q])'
    BY <1>1 DEF ReadBackOK, Busy
  <2>1. tx[q] \in Tx /\ SeenOK(tx[q])
    BY IdleOrBusy DEF HistoryInv, ReadBackOK, BaseInv, TypeOK, Busy
  <2>2. tx[q].asset \in Assets /\ tx'[q] = tx[q]
    BY <1>1, <2>1 DEF Tx
  <2>3. CASE tx[q].asset # a
    <3>1. /\ rows'[tx[q].asset] = rows[tx[q].asset] /\ past'[tx[q].asset] = past[tx[q].asset]
          /\ history'[tx[q].asset] = history[tx[q].asset]
      BY <1>1, <1>4, <2>2, <2>3
    <3> QED BY <2>1, <2>2, <3>1 DEF SeenOK, Dirty, Written, Versioned
  <2>4. CASE tx[q].asset = a /\ Dirty(tx[q])
    <3>1. ~Dirty(t)
      BY <1>1, <1>2, <2>4 DEF HistoryInv, BaseInv, LockExclusive, Locks
    <3>2. rows'[a] = rows[a]
      BY <1>1, <1>3, <3>1
    <3> QED BY <2>1, <2>2, <2>4, <3>2 DEF SeenOK, Dirty, Written
  <2>5. CASE tx[q].asset = a /\ ~Dirty(tx[q])
    <3>1. tx[q].seen \in past'[a]
      BY <1>4, <2>1, <2>5 DEF SeenOK
    <3>2. ASSUME Versioned(a), history'[a] = {} PROVE tx[q].seen = ContentOf(rows'[a])
      <4>1. t.op \notin {"create", "update"} /\ history[a] = {}
        BY <1>4, <3>2
      <4>2. t.op \in {"create", "update", "enable", "disable"}
        BY ZenonT(60), <1>2, <3>2, OperationTypes DEF Actions, Operations
      <4> QED BY <1>1, <1>3, <2>1, <2>5, <3>2, <4>1, <4>2 DEF SeenOK
    <3> QED BY <2>2, <2>5, <3>1, <3>2 DEF SeenOK, Dirty, Versioned
  <2> QED BY <2>3, <2>4, <2>5
<1> QED BY <1>6, <1>7, <1>8, <1>9, <1>10 DEF HistoryInv

LEMMA HistoryStep ==
    ASSUME HistoryInv, [Next]_vars
    PROVE  HistoryInv'
<1>1. BaseInv'
  BY BaseStep DEF HistoryInv
<1>2. CASE UNCHANGED vars
  BY ZenonT(60), <1>1, <1>2 DEF vars, HistoryInv, ReadBackOK, SeenOK, Busy, Dirty, Written, PastOK,
                    HistoryIsReal, ContentRecorded
<1>3. ASSUME NEW s \in Sessions, NEW a \in Assets, NEW op \in Operations(KindOf[a]),
             Begin(s, a, op)
      PROVE  HistoryInv'
  <2>1. PICK t \in Tx : tx' = [tx EXCEPT ![s] = t] /\ t.pc = "loaded"
    BY <1>3, BegunTx DEF HistoryInv
  <2>2. tx'[s] = t /\ \A q \in Sessions \ {s} : tx'[q] = tx[q]
    BY <2>1 DEF HistoryInv, BaseInv, TypeOK
  <2> QED BY <1>1, <1>3, <2>1, <2>2, QuietHistory DEF Begin
<1>4. ASSUME NEW s \in Sessions, Write(s) PROVE HistoryInv'
  <2>1. /\ tx[s] \in Tx /\ TxOK(tx[s])
        /\ tx'[s] = [tx[s] EXCEPT !.pc = "written", !.seen = Seen(tx[s])]
        /\ \A q \in Sessions \ {s} : tx'[q] = tx[q]
        /\ Found(tx[s]) \/ tx[s].op = "delete" \/ ~Dirty(tx[s])
    BY <1>4, WriteFacts DEF HistoryInv
  <2>2. /\ tx'[s].asset = tx[s].asset /\ tx'[s].op = tx[s].op /\ tx[s].asset \in Assets
        /\ tx'[s].touched = tx[s].touched /\ tx'[s].loaded = tx[s].loaded
        /\ tx'[s].new = tx[s].new
        /\ tx'[s].seen = ContentOf(Written(tx[s], rows[tx[s].asset]))
    BY <2>1 DEF Tx, Seen
  <2>3. ~Dirty(tx[s]) => Written(tx[s], rows[tx[s].asset]) = rows[tx[s].asset]
    BY <2>1, WrittenTypes DEF HistoryInv, BaseInv
  <2>4. UNCHANGED <<rows, past, history>>
    BY <1>4 DEF Write
  <2>5. Dirty(tx[s])' <=> Dirty(tx[s])
    BY <2>2 DEF Dirty
  <2>6. Written(tx[s], rows[tx[s].asset])' = Written(tx[s], rows[tx[s].asset])
    BY <2>2, <2>4 DEF Written
  <2>7. SeenOK(tx[s])'
    BY <2>2, <2>3, <2>4, <2>5, <2>6 DEF SeenOK, HistoryInv, PastOK, Versioned
  <2> QED BY <1>1, <2>1, <2>4, <2>7, QuietHistory
<1>5. ASSUME NEW s \in Sessions, Conflict(s) \/ Abort(s) PROVE HistoryInv'
  <2>1. /\ ~Busy(s)' /\ \A q \in Sessions \ {s} : tx'[q] = tx[q]
        /\ UNCHANGED <<rows, past, history>>
    BY <1>5 DEF Conflict, Abort, Busy, HistoryInv, BaseInv, TypeOK
  <2> QED BY <1>1, <2>1, QuietHistory
<1>6. ASSUME NEW s \in Sessions, Commit(s) PROVE HistoryInv'
  BY <1>6, CommitHistory
<1>7. ASSUME NEW s \in Sessions, NEW a \in Assets, NEW op \in Operations(KindOf[a]),
             Reject(s, a, op)
      PROVE  HistoryInv'
  BY <1>2, <1>7 DEF Reject
<1> QED BY <1>2, <1>3, <1>4, <1>5, <1>6, <1>7 DEF Next

LEMMA HistoryAlways == Spec => []HistoryInv
  BY InitHistory, HistoryStep, PTL DEF Spec

\* However edits overlap, the contents a policy or mapping ends up with are in
\* its history.
THEOREM ContentIsRecorded == Spec => []ContentRecorded
  BY HistoryAlways, PTL DEF HistoryInv

\* The history of a policy or mapping shows only contents it really had.
THEOREM HistoryOnlyReal == Spec => []HistoryIsReal
  BY HistoryAlways, PTL DEF HistoryInv

----------------------------------------------------------------------------
(* Existence: ids are handed out once, so that a late request can only reach *)
(* the row it loaded.                                                        *)

LEMMA InitExistence == Init => ExistenceInv
<1> SUFFICES ASSUME Init PROVE ExistenceInv
  OBVIOUS
<1>1. BaseInv /\ audit = {} /\ last_id = 1 /\ \A s \in Sessions : ~Busy(s)
  BY InitBase DEF Init, Busy
<1>2. \A r \in [id : {1}, active : {TRUE}, left : Values, right : Values] : r.id = 1
  OBVIOUS
<1>3. Absent.id = 0
  BY DEF Absent
<1>4. \A a \in Assets : rows[a].id <= 1 /\ ~(rows[a].id > 1)
  <2> SUFFICES ASSUME NEW a \in Assets PROVE rows[a].id <= 1 /\ ~(rows[a].id > 1)
    OBVIOUS
  <2>1. \/ rows[a] = Absent
        \/ rows[a] \in [id : {1}, active : {TRUE}, left : Values, right : Values]
    BY Zenon DEF Init
  <2>2. rows[a].id = 0 \/ rows[a].id = 1
    BY <2>1, <1>2, <1>3, Zenon
  <2> QED BY ONLY <2>2
<1> QED BY <1>1, <1>4 DEF ExistenceInv, IdsOK, CreatesFresh, ExistenceAudited

\* The ids of rows and of what requests loaded and made are natural numbers.
LEMMA IdTypes ==
    ASSUME TypeOK
    PROVE  /\ last_id \in Nat
           /\ \A a \in Assets : rows[a].id \in Nat
           /\ \A e \in audit : e.id \in Nat
           /\ \A t \in Tx : t.loaded.id \in Nat /\ t.new.id \in Nat /\ t.asset \in Assets
           /\ \A s \in Sessions : Busy(s) => tx[s] \in Tx
<1>1. \A r \in Row \cup {Absent} : r.id \in Nat
  BY DEF Row, Absent
<1>2. \A t \in Tx : t.loaded.id \in Nat /\ t.new.id \in Nat /\ t.asset \in Assets
  BY <1>1 DEF Tx
<1>3. \A a \in Assets : rows[a].id \in Nat
  BY <1>1 DEF TypeOK
<1>4. last_id \in Nat /\ \A e \in audit : e.id \in Nat
  BY DEF TypeOK, AuditRow
<1> QED BY <1>2, <1>3, <1>4, IdleOrBusy DEF TypeOK, Busy

\* A step that changes neither rows nor audit rows nor what requests made.
LEMMA QuietExistence ==
    ASSUME ExistenceInv, BaseInv', UNCHANGED <<rows, audit, last_id>>, NEW s \in Sessions,
           \A q \in Sessions \ {s} : tx'[q] = tx[q],
           Busy(s)' => /\ Busy(s) /\ tx'[s].op = tx[s].op
                       /\ tx'[s].loaded = tx[s].loaded /\ tx'[s].new = tx[s].new
    PROVE  ExistenceInv'
<1>1. \A q \in Sessions : Busy(q)' => /\ Busy(q) /\ tx'[q].op = tx[q].op
                                      /\ tx'[q].loaded = tx[q].loaded /\ tx'[q].new = tx[q].new
  BY DEF Busy
<1>2. IdsOK'
  BY <1>1 DEF ExistenceInv, IdsOK
<1>3. CreatesFresh'
  BY <1>1 DEF ExistenceInv, CreatesFresh, FreshId
<1>4. ExistenceAudited'
  BY DEF ExistenceInv, ExistenceAudited
<1> QED BY <1>2, <1>3, <1>4 DEF ExistenceInv

LEMMA BeginExistence ==
    ASSUME ExistenceInv, NEW s \in Sessions, NEW a \in Assets,
           NEW op \in Operations(KindOf[a]), Begin(s, a, op)
    PROVE  ExistenceInv'
<1>1. PICK t \in Tx : /\ tx' = [tx EXCEPT ![s] = t]
                      /\ TxOK(t) /\ t # IdleTx
                      /\ t.op = op /\ t.asset = a /\ t.loaded = rows[a]
                      /\ op = "create" => t.new.id = last_id + 1
                      /\ op = "delete" => t.new = Absent
                      /\ op \in {"update", "enable", "disable"} => t.new.id = t.loaded.id
  BY BegunTx DEF ExistenceInv
<1>2. tx'[s] = t /\ ~Busy(s) /\ \A q \in Sessions \ {s} : tx'[q] = tx[q]
  BY <1>1 DEF Begin, Busy, ExistenceInv, BaseInv, TypeOK
<1>3. /\ last_id' = IF op = "create" THEN last_id + 1 ELSE last_id
      /\ UNCHANGED <<rows, audit>>
  BY DEF Begin
<1>4. BaseInv'
  BY BaseStep DEF ExistenceInv, Next
<1>5. last_id \in Nat /\ last_id' \in Nat /\ last_id <= last_id'
  BY <1>3, IdTypes DEF ExistenceInv, BaseInv
<1>6. op \in {"create", "update", "enable", "disable", "delete"}
  BY OperationTypes DEF Actions, Operations
<1>7. t.loaded.id <= last_id /\ t.new.id <= last_id'
  <2>1. rows[a].id \in Nat /\ rows[a].id <= last_id
    BY IdTypes DEF ExistenceInv, BaseInv, IdsOK
  <2> QED BY <1>1, <1>3, <1>5, <1>6, <2>1 DEF Absent
<1>8. \A q \in Sessions \ {s} : Busy(q)' =>
         /\ Busy(q) /\ tx'[q] = tx[q] /\ tx[q].loaded.id \in Nat /\ tx[q].new.id \in Nat
         /\ tx[q].loaded.id <= last_id /\ tx[q].new.id <= last_id
  BY <1>2, IdTypes DEF Busy, ExistenceInv, BaseInv, IdsOK
<1>9. /\ \A b \in Assets : rows[b].id \in Nat /\ rows[b].id <= last_id
      /\ \A e \in audit : e.id \in Nat /\ e.id <= last_id /\ e.id # 0
  BY IdTypes DEF ExistenceInv, BaseInv, IdsOK
<1>10. IdsOK'
  <2>1. t.loaded.id \in Nat /\ t.new.id \in Nat
    BY IdTypes DEF ExistenceInv, BaseInv
  <2>2. \A b \in Assets : rows[b].id <= last_id'
    BY <1>5, <1>9
  <2>3. \A e \in audit : e.id <= last_id' /\ e.id # 0
    BY <1>5, <1>9
  <2>4. \A q \in Sessions \ {s} : Busy(q)' =>
           tx'[q].loaded.id <= last_id' /\ tx'[q].new.id <= last_id'
    BY <1>5, <1>8
  <2>5. tx'[s].loaded.id <= last_id' /\ tx'[s].new.id <= last_id'
    BY <1>2, <1>5, <1>7, <2>1
  <2> QED BY <1>3, <2>2, <2>3, <2>4, <2>5 DEF IdsOK
<1>11. CreatesFresh'
  <2> SUFFICES ASSUME NEW q \in Sessions, Busy(q)', tx'[q].op = "create"
               PROVE  FreshId(q)'
    BY DEF CreatesFresh
  <2>1. CASE q = s
    <3>1. tx'[s].new.id = last_id + 1 /\ op = "create"
      BY <1>1, <1>2, <2>1
    <3>2. \A b \in Assets : rows'[b].id # last_id + 1
      BY <1>3, <1>5, <1>9
    <3>3. \A e \in audit' : e.id # last_id + 1
      BY <1>3, <1>5, <1>9
    <3>4. \A p \in Sessions \ {s} : Busy(p)' =>
             tx'[p].loaded.id # last_id + 1 /\ tx'[p].new.id # last_id + 1
      BY <1>5, <1>8
    <3>5. tx'[s].loaded.id # last_id + 1
      BY <1>1, <1>2, <1>5, <1>7, IdTypes DEF ExistenceInv, BaseInv
    <3> QED BY <2>1, <3>1, <3>2, <3>3, <3>4, <3>5 DEF FreshId
  <2>2. CASE q # s
    <3>1. /\ Busy(q) /\ tx'[q] = tx[q] /\ FreshId(q)
          /\ tx[q].new.id \in Nat /\ tx[q].new.id <= last_id
      BY <1>8, <2>2 DEF ExistenceInv, CreatesFresh
    <3>2. t.loaded.id # tx[q].new.id
      BY <1>1, <3>1 DEF FreshId
    <3>3. op = "create" => t.new.id # tx[q].new.id
      BY <1>1, <1>5, <3>1
    <3>4. \A p \in Sessions \ {s} : Busy(p)' => Busy(p) /\ tx'[p] = tx[p]
      BY <1>8
    <3> QED BY <1>1, <1>2, <1>3, <3>1, <3>2, <3>3, <3>4 DEF FreshId
  <2> QED BY <2>1, <2>2
<1>12. ExistenceAudited'
  BY <1>3 DEF ExistenceInv, ExistenceAudited
<1> QED BY <1>4, <1>10, <1>11, <1>12 DEF ExistenceInv

LEMMA CommitExistence ==
    ASSUME ExistenceInv, NEW s \in Sessions, Commit(s)
    PROVE  ExistenceInv'
<1> DEFINE t == tx[s]
           a == tx[s].asset
           id == IF t.op = "create" THEN t.new.id ELSE t.loaded.id
           entry == [asset |-> a, action |-> t.op, id |-> id]
<1>1. /\ t \in Tx /\ TxOK(t) /\ Busy(s) /\ ~Busy(s)' /\ a \in Assets
      /\ \A q \in Sessions \ {s} : tx'[q] = tx[q]
      /\ Found(t) \/ t.op = "delete" \/ ~Dirty(t)
      /\ rows'[a] = Written(t, rows[a])
      /\ \A b \in Assets \ {a} : rows'[b] = rows[b]
  BY CommitFacts, IdTypes DEF ExistenceInv, BaseInv
<1>2. audit' = audit \cup {entry} /\ last_id' = last_id
  BY DEF Commit
<1>3. BaseInv'
  BY BaseStep DEF ExistenceInv, Next
<1>4. \A q \in Sessions : Busy(q)' => q # s /\ Busy(q) /\ tx'[q] = tx[q]
  BY <1>1 DEF Busy
<1>5. t.op \in {"create", "update", "enable", "disable", "delete"}
  BY <1>1 DEF Tx, Actions, Operations
<1>6. id \in Nat /\ id # 0 /\ id <= last_id
  BY <1>1 DEF TxOK, Row, ExistenceInv, IdsOK
<1>7. t.op = "create" => /\ rows'[a].id = id /\ rows[a].id = 0
                         /\ \A e \in audit : e.id # id
  <2> SUFFICES ASSUME t.op = "create" PROVE rows'[a].id = id /\ rows[a].id = 0
                                            /\ \A e \in audit : e.id # id
    OBVIOUS
  <2>1. rows'[a] = t.new
    BY <1>1 DEF Written
  <2>2. Dirty(t)
    BY <1>1 DEF Dirty, TxOK, Row, Absent
  <2>3. rows[a].id = 0
    BY <1>1, <2>2 DEF Found, TxOK, Absent
  <2>4. FreshId(s)
    BY <1>1 DEF ExistenceInv, CreatesFresh
  <2> QED BY <2>1, <2>3, <2>4 DEF FreshId
<1>8. t.op = "delete" => \/ rows[a].id = id /\ rows'[a].id = 0
                         \/ rows[a].id # id /\ rows'[a] = rows[a]
  BY <1>1 DEF Written, TxOK, Absent
<1>9. t.op \in {"update", "enable", "disable"} => rows'[a].id = rows[a].id
  BY <1>1, WrittenTypes DEF ExistenceInv, BaseInv
<1>10. rows'[a].id \in {0, rows[a].id, id}
  BY <1>5, <1>7, <1>8, <1>9
<1>11. IdsOK'
  <2>1. 0 <= last_id /\ \A b \in Assets : rows'[b].id <= last_id
    BY <1>1, <1>6, <1>10, IdTypes DEF ExistenceInv, BaseInv, IdsOK
  <2>2. \A e \in audit' : e.id <= last_id /\ e.id # 0
    BY <1>2, <1>6 DEF ExistenceInv, IdsOK
  <2> QED BY <1>2, <1>4, <2>1, <2>2 DEF ExistenceInv, IdsOK
<1>12. CreatesFresh'
  <2> SUFFICES ASSUME NEW q \in Sessions, Busy(q)', tx'[q].op = "create"
               PROVE  FreshId(q)'
    BY DEF CreatesFresh
  <2>1. q # s /\ Busy(q) /\ tx'[q] = tx[q] /\ FreshId(q)
    BY <1>4 DEF ExistenceInv, CreatesFresh
  <2>2. id # tx[q].new.id
    BY <1>1, <2>1 DEF FreshId
  <2>3. tx[q].new.id # 0
    BY <2>1 DEF ExistenceInv, BaseInv, TxsOK, TxOK, Row
  <2>4. \A b \in Assets : rows'[b].id # tx[q].new.id
    BY <1>1, <1>10, <2>1, <2>2, <2>3 DEF FreshId
  <2>5. \A e \in audit' : e.id # tx[q].new.id
    BY <1>2, <2>1, <2>2 DEF FreshId
  <2> QED BY <1>4, <2>1, <2>4, <2>5 DEF FreshId
<1>13. ExistenceAudited'
  <2> SUFFICES ASSUME NEW b \in Assets
               PROVE  /\ [asset |-> b, action |-> "delete", id |-> rows'[b].id] \notin audit'
                      /\ rows'[b].id > 1 =>
                            [asset |-> b, action |-> "create", id |-> rows'[b].id] \in audit'
                      /\ \A e \in audit' :
                            e.asset = b /\ e.action = "create" /\ e.id # rows'[b].id =>
                               [asset |-> b, action |-> "delete", id |-> e.id] \in audit'
    BY DEF ExistenceAudited
  <2>1. /\ [asset |-> b, action |-> "delete", id |-> rows[b].id] \notin audit
        /\ rows[b].id > 1 => [asset |-> b, action |-> "create", id |-> rows[b].id] \in audit
        /\ \A e \in audit :
              e.asset = b /\ e.action = "create" /\ e.id # rows[b].id =>
                 [asset |-> b, action |-> "delete", id |-> e.id] \in audit
    BY DEF ExistenceInv, ExistenceAudited
  <2>2. \A e \in audit : e.id # 0
    BY DEF ExistenceInv, IdsOK
  <2>3. CASE b # a
    BY <1>1, <1>2, <2>1, <2>3
  <2>4. CASE b = a /\ t.op = "create"
    <3>1. [asset |-> b, action |-> "delete", id |-> rows'[b].id] \notin audit'
      BY <1>2, <1>7, <2>4
    <3>2. [asset |-> b, action |-> "create", id |-> rows'[b].id] \in audit'
      BY <1>2, <1>7, <2>4
    <3> QED BY <1>2, <1>7, <2>1, <2>2, <2>4, <3>1, <3>2
  <2>5. CASE b = a /\ t.op = "delete"
    <3>1. [asset |-> b, action |-> "delete", id |-> id] \in audit'
      BY <1>2, <2>5
    <3>2. [asset |-> b, action |-> "delete", id |-> rows'[b].id] \notin audit'
      BY <1>2, <1>6, <1>8, <2>1, <2>2, <2>5
    <3>3. \A e \in audit' : e.action = "create" => e \in audit
      BY <1>2, <2>5
    <3>4. rows'[b].id > 1 =>
             [asset |-> b, action |-> "create", id |-> rows'[b].id] \in audit'
      BY <1>2, <1>8, <2>1, <2>5
    <3> QED BY <1>2, <1>8, <2>1, <2>5, <3>1, <3>2, <3>3, <3>4
  <2>6. CASE b = a /\ t.op \in {"update", "enable", "disable"}
    BY <1>2, <1>9, <2>1, <2>6
  <2> QED BY <1>5, <2>3, <2>4, <2>5, <2>6
<1> QED BY <1>3, <1>11, <1>12, <1>13 DEF ExistenceInv

LEMMA ExistenceStep ==
    ASSUME ExistenceInv, [Next]_vars
    PROVE  ExistenceInv'
<1>1. BaseInv'
  BY BaseStep DEF ExistenceInv
<1>2. CASE UNCHANGED vars
  BY <1>1, <1>2 DEF vars, ExistenceInv, IdsOK, CreatesFresh, FreshId, ExistenceAudited, Busy
<1>3. ASSUME NEW s \in Sessions, NEW a \in Assets, NEW op \in Operations(KindOf[a]),
             Begin(s, a, op)
      PROVE  ExistenceInv'
  BY <1>3, BeginExistence
<1>4. ASSUME NEW s \in Sessions, Write(s) PROVE ExistenceInv'
  <2>1. /\ tx[s] \in Tx /\ Busy(s)
        /\ tx'[s] = [tx[s] EXCEPT !.pc = "written", !.seen = Seen(tx[s])]
        /\ \A q \in Sessions \ {s} : tx'[q] = tx[q]
    BY <1>4, WriteFacts DEF ExistenceInv
  <2>2. tx'[s].op = tx[s].op /\ tx'[s].loaded = tx[s].loaded /\ tx'[s].new = tx[s].new
    BY <2>1 DEF Tx
  <2> QED BY <1>1, <1>4, <2>1, <2>2, QuietExistence DEF Write
<1>5. ASSUME NEW s \in Sessions, Conflict(s) \/ Abort(s) PROVE ExistenceInv'
  <2>1. /\ ~Busy(s)' /\ \A q \in Sessions \ {s} : tx'[q] = tx[q]
        /\ UNCHANGED <<rows, audit, last_id>>
    BY <1>5 DEF Conflict, Abort, Busy, ExistenceInv, BaseInv, TypeOK
  <2> QED BY <1>1, <2>1, QuietExistence
<1>6. ASSUME NEW s \in Sessions, Commit(s) PROVE ExistenceInv'
  BY <1>6, CommitExistence
<1>7. ASSUME NEW s \in Sessions, NEW a \in Assets, NEW op \in Operations(KindOf[a]),
             Reject(s, a, op)
      PROVE  ExistenceInv'
  BY <1>2, <1>7 DEF Reject
<1> QED BY <1>2, <1>3, <1>4, <1>5, <1>6, <1>7 DEF Next

\* The audit log tells which rows exist: those that it says were created and not
\* deleted, and of the seeded ones, which it does not say were created, those
\* not deleted; whatever requests reach rows that were deleted or created again
\* after they loaded them.
THEOREM ExistenceIsAudited == Spec => []ExistenceAudited
<1>1. Spec => []ExistenceInv
  BY InitExistence, ExistenceStep, PTL DEF Spec
<1> QED BY <1>1, PTL DEF ExistenceInv

----------------------------------------------------------------------------
(* Refinement: the commits implement the store of AssetStore.                *)

\* A row that a request loaded is still there or its deletion is logged.
GoneIsLogged ==
    \A s \in Sessions : Busy(s) /\ tx[s].op # "create" =>
        \/ rows[tx[s].asset].id = tx[s].loaded.id
        \/ [asset |-> tx[s].asset, action |-> "delete", id |-> tx[s].loaded.id] \in audit

StoreInv == HistoryInv /\ ExistenceInv /\ GoneIsLogged

\* What a commit does to the id of the row: a create fills a free key, a delete
\* empties the row it loaded and nothing else moves the id.
LEMMA CommittedId ==
    ASSUME BaseInv, NEW s \in Sessions, Commit(s)
    PROVE  LET t == tx[s] IN
           /\ t.op = "create" => /\ rows[t.asset] = Absent /\ rows'[t.asset] = t.new
                                 /\ t.new.id # 0 /\ Dirty(t)
           /\ t.op = "delete" => IF rows[t.asset].id = t.loaded.id
                                 THEN rows'[t.asset] = Absent /\ rows[t.asset].id # 0
                                 ELSE rows'[t.asset] = rows[t.asset]
           /\ t.op \notin {"create", "delete"} => rows'[t.asset].id = rows[t.asset].id
<1> DEFINE t == tx[s]
<1>1. /\ t \in Tx /\ TxOK(t)
      /\ Found(t) \/ t.op = "delete" \/ ~Dirty(t)
      /\ rows'[t.asset] = Written(t, rows[t.asset])
  BY CommitFacts
<1>2. CASE t.op = "create"
  <2>1. t.loaded = Absent /\ t.new \in Row /\ Dirty(t)
    BY <1>1, <1>2 DEF TxOK, Dirty, Row, Absent
  <2>2. rows[t.asset].id = 0 /\ rows[t.asset] \in Row \cup {Absent}
    BY <1>1, <1>2, <2>1 DEF Found, Absent, BaseInv, TypeOK, Tx
  <2>3. rows[t.asset] = Absent /\ t.new.id # 0
    BY <2>1, <2>2 DEF Row
  <2> QED BY <1>1, <1>2, <2>1, <2>3 DEF Written
<1>3. CASE t.op = "delete"
  BY <1>1, <1>3 DEF Written, TxOK, Row
<1>4. CASE t.op \notin {"create", "delete"}
  BY <1>1, <1>4, WrittenTypes DEF BaseInv
<1> QED BY <1>2, <1>3, <1>4

LEMMA GoneStep ==
    ASSUME ExistenceInv, GoneIsLogged, [Next]_vars
    PROVE  GoneIsLogged'
<1>1. ASSUME UNCHANGED <<rows, audit>>, NEW s \in Sessions,
             \A q \in Sessions \ {s} : tx'[q] = tx[q],
             Busy(s)' => \/ /\ Busy(s) /\ tx'[s].op = tx[s].op /\ tx'[s].asset = tx[s].asset
                            /\ tx'[s].loaded = tx[s].loaded
                         \/ tx'[s].loaded = rows[tx'[s].asset]
      PROVE  GoneIsLogged'
  BY <1>1 DEF GoneIsLogged, Busy
<1>2. CASE UNCHANGED vars
  BY <1>2 DEF vars, GoneIsLogged, Busy
<1>3. ASSUME NEW s \in Sessions, NEW a \in Assets, NEW op \in Operations(KindOf[a]),
             Begin(s, a, op)
      PROVE  GoneIsLogged'
  <2>1. PICK t \in Tx : tx' = [tx EXCEPT ![s] = t] /\ t.asset = a /\ t.loaded = rows[a]
    BY <1>3, BegunTx DEF ExistenceInv
  <2> QED BY <1>1, <1>3, <2>1 DEF Begin, ExistenceInv, BaseInv, TypeOK
<1>4. ASSUME NEW s \in Sessions, Write(s) PROVE GoneIsLogged'
  <2>1. /\ tx[s] \in Tx /\ Busy(s)
        /\ tx'[s] = [tx[s] EXCEPT !.pc = "written", !.seen = Seen(tx[s])]
        /\ \A q \in Sessions \ {s} : tx'[q] = tx[q]
    BY <1>4, WriteFacts DEF ExistenceInv
  <2>2. tx'[s].op = tx[s].op /\ tx'[s].asset = tx[s].asset /\ tx'[s].loaded = tx[s].loaded
    BY <2>1 DEF Tx
  <2> QED BY <1>1, <1>4, <2>1, <2>2 DEF Write
<1>5. ASSUME NEW s \in Sessions, Conflict(s) \/ Abort(s) PROVE GoneIsLogged'
  <2>1. /\ ~Busy(s)' /\ \A q \in Sessions \ {s} : tx'[q] = tx[q]
        /\ UNCHANGED <<rows, audit>>
    BY <1>5 DEF Conflict, Abort, Busy, ExistenceInv, BaseInv, TypeOK
  <2> QED BY <1>1, <2>1
<1>6. ASSUME NEW s \in Sessions, Commit(s) PROVE GoneIsLogged'
  <2> DEFINE t == tx[s]
             a == tx[s].asset
  <2>1. /\ ~Busy(s)' /\ Busy(s) /\ t \in Tx /\ a \in Assets
        /\ \A q \in Sessions \ {s} : tx'[q] = tx[q]
        /\ \A b \in Assets \ {a} : rows'[b] = rows[b]
    BY <1>6, CommitFacts, IdTypes DEF ExistenceInv, BaseInv
  <2> SUFFICES ASSUME NEW q \in Sessions, Busy(q)', tx'[q].op # "create"
               PROVE  \/ rows'[tx'[q].asset].id = tx'[q].loaded.id
                      \/ [asset |-> tx'[q].asset, action |-> "delete", id |-> tx'[q].loaded.id]
                            \in audit'
    BY DEF GoneIsLogged
  <2>2. q # s /\ tx'[q] = tx[q] /\ Busy(q)
    BY <2>1 DEF Busy
  <2>3. /\ tx[q] \in Tx /\ tx[q].loaded.id # 0 /\ tx[q].asset \in Assets
        /\ \/ rows[tx[q].asset].id = tx[q].loaded.id
           \/ [asset |-> tx[q].asset, action |-> "delete", id |-> tx[q].loaded.id] \in audit
    BY <2>2, IdTypes DEF GoneIsLogged, ExistenceInv, BaseInv, TxsOK, TxOK, Row
  <2>4. audit' = audit \cup {[asset |-> a, action |-> t.op,
                              id |-> IF t.op = "create" THEN t.new.id ELSE t.loaded.id]}
    BY <1>6 DEF Commit
  <2>5. CASE tx[q].asset # a
    BY <2>1, <2>2, <2>3, <2>4, <2>5
  <2>6. CASE tx[q].asset = a /\ t.op = "create"
    <3>1. rows[a] = Absent
      BY <1>6, <2>6, CommittedId DEF ExistenceInv
    <3> QED BY <2>2, <2>3, <2>4, <2>6, <3>1 DEF Absent
  <2>7. CASE tx[q].asset = a /\ t.op = "delete"
    <3>1. IF rows[a].id = t.loaded.id THEN rows'[a] = Absent ELSE rows'[a] = rows[a]
      BY <1>6, <2>7, CommittedId DEF ExistenceInv
    <3> QED BY <2>2, <2>3, <2>4, <2>7, <3>1
  <2>8. CASE tx[q].asset = a /\ t.op \notin {"create", "delete"}
    <3>1. rows'[a].id = rows[a].id
      BY <1>6, <2>8, CommittedId DEF ExistenceInv
    <3> QED BY <2>2, <2>3, <2>4, <2>8, <3>1
  <2> QED BY <2>5, <2>6, <2>7, <2>8
<1>7. ASSUME NEW s \in Sessions, NEW a \in Assets, NEW op \in Operations(KindOf[a]),
             Reject(s, a, op)
      PROVE  GoneIsLogged'
  BY <1>2, <1>7 DEF Reject
<1> QED BY <1>2, <1>3, <1>4, <1>5, <1>6, <1>7 DEF Next

LEMMA StoreAlways == Spec => []StoreInv
<1>1. Init => StoreInv
  BY InitHistory, InitExistence DEF Init, StoreInv, GoneIsLogged, Busy
<1>2. StoreInv /\ [Next]_vars => StoreInv'
  BY HistoryStep, ExistenceStep, GoneStep DEF StoreInv
<1> QED BY <1>1, <1>2, PTL DEF Spec

\* The store's row of an asset.
StoreRow == [a \in Assets |-> [id |-> rows[a].id, active |-> rows[a].active,
                               content |-> ContentOf(rows[a])]]

LEMMA StoreInit == Init => Store!Init
<1> SUFFICES ASSUME Init PROVE Store!Init
  OBVIOUS
<1>1. \A a \in Assets :
         StoreRow[a] = Store!Nothing \/ (StoreRow[a].id = 1 /\ StoreRow[a].active)
  <2> SUFFICES ASSUME NEW a \in Assets
               PROVE  StoreRow[a] = Store!Nothing \/ (StoreRow[a].id = 1 /\ StoreRow[a].active)
    OBVIOUS
  <2>1. \/ rows[a] = Absent
        \/ rows[a] \in [id : {1}, active : {TRUE}, left : Values, right : Values]
    BY Zenon DEF Init
  <2>2. CASE rows[a] = Absent
    <3>1. StoreRow[a] = [id |-> Absent.id, active |-> Absent.active,
                         content |-> ContentOf(Absent)]
      BY <2>2 DEF StoreRow
    <3>2. Absent.id = 0 /\ Absent.active = FALSE
      BY DEF Absent
    <3> QED BY <3>1, <3>2 DEF Store!Nothing
  <2>3. CASE rows[a] \in [id : {1}, active : {TRUE}, left : Values, right : Values]
    <3>1. rows[a].id \in {1} /\ rows[a].active \in {TRUE}
      BY <2>3, Zenon
    <3> QED BY <3>1 DEF StoreRow
  <2> QED BY <2>1, <2>2, <2>3
<1>2. past = [a \in Assets |-> {StoreRow[a].content}]
  BY DEF Init, StoreRow
<1> QED BY <1>1, <1>2 DEF Init, Store!Init, StoreRow

\* A commit that changes the row of one asset only.
Touches(a) ==
    /\ \A b \in Assets \ {a} : rows'[b] = rows[b]
    /\ past' = [past EXCEPT ![a] = @ \cup {ContentOf(rows'[a])}]

Logs(a, action, id) ==
    audit' = audit \cup {[asset |-> a, action |-> action, id |-> id]}

LEMMA StoreTouched ==
    ASSUME NEW a \in Assets
    PROVE  /\ StoreRow[a].id = rows[a].id /\ StoreRow[a].active = rows[a].active
           /\ StoreRow[a].content = ContentOf(rows[a])
           /\ StoreRow'[a].id = rows'[a].id /\ StoreRow'[a].active = rows'[a].active
           /\ StoreRow'[a].content = ContentOf(rows'[a])
           /\ rows[a] = Absent => StoreRow[a] = Store!Nothing
           /\ rows'[a] = Absent => StoreRow'[a] = Store!Nothing
           /\ rows[a].id # 0 => StoreRow[a] # Store!Nothing
           /\ Touches(a) => Store!Becomes(a)
           /\ \A action, id : Logs(a, action, id) => Store!Logged(a, action, id)
<1>1. /\ StoreRow[a] = [id |-> rows[a].id, active |-> rows[a].active,
                        content |-> ContentOf(rows[a])]
      /\ StoreRow'[a] = [id |-> rows'[a].id, active |-> rows'[a].active,
                         content |-> ContentOf(rows'[a])]
  BY DEF StoreRow
<1>2. Touches(a) => Store!Becomes(a)
  <2> SUFFICES ASSUME Touches(a) PROVE Store!Becomes(a)
    OBVIOUS
  <2>1. StoreRow' = [StoreRow EXCEPT ![a] = StoreRow'[a]]
    BY DEF StoreRow, Touches
  <2>2. past' = [past EXCEPT ![a] = @ \cup {StoreRow'[a].content}]
    BY DEF StoreRow, Touches
  <2> QED BY <2>1, <2>2 DEF StoreRow, Store!Becomes
<1>3. rows[a] = Absent => StoreRow[a] = Store!Nothing
  BY <1>1 DEF Absent, Store!Nothing
<1>4. rows'[a] = Absent => StoreRow'[a] = Store!Nothing
  BY <1>1 DEF Absent, Store!Nothing
<1>5. rows[a].id # 0 => StoreRow[a] # Store!Nothing
  BY <1>1 DEF Store!Nothing
<1>6. \A action, id : Logs(a, action, id) => Store!Logged(a, action, id)
  BY DEF Logs, Store!Logged, Store!Entry
<1> QED BY <1>1, <1>2, <1>3, <1>4, <1>5, <1>6

LEMMA StoreCreates ==
    ASSUME NEW a \in Assets, Touches(a), rows[a] = Absent, rows'[a].id # 0,
           \A e \in audit : e.id # rows'[a].id,
           Logs(a, "create", rows'[a].id),
           history' = IF Versioned(a) THEN [history EXCEPT ![a] = @ \cup {ContentOf(rows'[a])}]
                                      ELSE history
    PROVE  Store!Next
<1>1. Store!Recorded(a, StoreRow'[a].content)
  BY StoreTouched DEF Store!Recorded
<1>2. Store!Create(a)
  <2>1. /\ StoreRow[a] = Store!Nothing
        /\ StoreRow'[a].id # 0 /\ \A e \in audit : e.id # StoreRow'[a].id
        /\ Store!Logged(a, "create", StoreRow'[a].id)
        /\ Store!Becomes(a)
    BY StoreTouched
  <2> QED BY <1>1, <2>1 DEF Store!Create, StoreRow
<1> QED BY <1>2 DEF Store!Next

LEMMA StoreEdits ==
    ASSUME NEW a \in Assets, Touches(a), rows[a].id # 0,
           rows'[a].id = rows[a].id, rows'[a].active = rows[a].active,
           Logs(a, "update", rows[a].id),
           history' = IF Versioned(a) THEN [history EXCEPT ![a] = @ \cup {ContentOf(rows'[a])}]
                                      ELSE history
    PROVE  Store!Next
<1>1. Store!Recorded(a, StoreRow'[a].content)
  BY StoreTouched DEF Store!Recorded
<1>2. Store!Edit(a)
  <2>1. /\ StoreRow[a] # Store!Nothing
        /\ Store!Logged(a, "update", StoreRow[a].id)
        /\ StoreRow'[a].id = StoreRow[a].id /\ StoreRow'[a].active = StoreRow[a].active
        /\ Store!Becomes(a)
    BY StoreTouched
  <2> QED BY <1>1, <2>1 DEF Store!Edit, StoreRow
<1> QED BY <1>2 DEF Store!Next

LEMMA StoreSwitches ==
    ASSUME NEW a \in Assets, NEW action \in {"enable", "disable"}, Touches(a), rows[a].id # 0,
           rows'[a].id = rows[a].id, ContentOf(rows'[a]) = ContentOf(rows[a]),
           rows'[a].active \in {rows[a].active, action = "enable"},
           Logs(a, action, rows[a].id), history' = history
    PROVE  Store!Next
<1>1. Store!Switch(a, action)
  <2>1. /\ StoreRow[a] # Store!Nothing
        /\ Store!Logged(a, action, StoreRow[a].id)
        /\ StoreRow'[a].id = StoreRow[a].id /\ StoreRow'[a].content = StoreRow[a].content
        /\ Store!Becomes(a)
    BY StoreTouched
  <2>2. StoreRow'[a].active \in {StoreRow[a].active, action = "enable"}
    BY StoreTouched, Zenon
  <2> QED BY <2>1, <2>2 DEF Store!Switch, StoreRow
<1> QED BY <1>1 DEF Store!Next

LEMMA StoreDeletes ==
    ASSUME NEW a \in Assets, Touches(a), rows[a].id # 0, rows'[a] = Absent,
           Logs(a, "delete", rows[a].id), history' = history
    PROVE  Store!Next
<1>1. Store!Delete(a)
  <2>1. /\ StoreRow[a] # Store!Nothing /\ StoreRow'[a] = Store!Nothing
        /\ Store!Logged(a, "delete", StoreRow[a].id)
        /\ Store!Becomes(a)
    BY StoreTouched
  <2> QED BY <2>1 DEF Store!Delete, StoreRow
<1> QED BY <1>1 DEF Store!Next

LEMMA StoreNotes ==
    ASSUME NEW a \in Assets, NEW action, NEW id, UNCHANGED <<rows, past>>,
           rows[a].id = id \/ [asset |-> a, action |-> "delete", id |-> id] \in audit,
           Logs(a, action, id),
           \/ action \in {"enable", "disable"} /\ history' = history
           \/ action = "update" /\ \E content \in past[a] :
                 /\ Versioned(a) /\ history[a] = {} => content = ContentOf(rows[a])
                 /\ history' = IF Versioned(a) THEN [history EXCEPT ![a] = @ \cup {content}]
                                               ELSE history
    PROVE  Store!Next
<1>1. StoreRow' = StoreRow
  BY DEF StoreRow
<1>2. /\ id = StoreRow[a].id \/ Store!Entry(a, "delete", id) \in audit
      /\ Store!Logged(a, action, id)
  BY StoreTouched DEF Store!Entry
<1>3. \/ action = "update"
         /\ \E content \in past[a] :
               /\ a \in {b \in Assets : Versioned(b)} /\ history[a] = {} =>
                     content = StoreRow[a].content
               /\ Store!Recorded(a, content)
      \/ action \in {"enable", "disable"} /\ history' = history
  BY StoreTouched DEF Store!Recorded
<1>4. Store!Note(a, action, id)
  BY <1>1, <1>2, <1>3 DEF Store!Note, StoreRow
<1>5. PICK e \in audit' : e.action = action /\ e.id = id
  <2>1. [asset |-> a, action |-> action, id |-> id] \in audit'
    BY DEF Logs
  <2> QED BY <2>1
<1> QED BY <1>4, <1>5 DEF Store!Next

\* Every commit is one operation of the store, at once.
LEMMA StoreCommit ==
    ASSUME StoreInv, NEW s \in Sessions, Commit(s)
    PROVE  Store!Next \/ UNCHANGED <<StoreRow, past, history, audit>>
<1> DEFINE t == tx[s]
           id == IF t.op = "create" THEN t.new.id ELSE t.loaded.id
<1>1. /\ t \in Tx /\ TxOK(t) /\ t.pc = "written" /\ Busy(s) /\ t.asset \in Assets
      /\ Found(t) \/ t.op = "delete" \/ ~Dirty(t)
      /\ rows'[t.asset] = Written(t, rows[t.asset])
      /\ \A b \in Assets \ {t.asset} : rows'[b] = rows[b]
  BY CommitFacts, IdTypes DEF StoreInv, HistoryInv, BaseInv
<1>2. PICK a \in Assets : a = t.asset
  BY <1>1
<1>3. Touches(a) /\ Logs(a, t.op, id)
  BY <1>1, <1>2 DEF Commit, Touches, Logs
<1>4. history' = IF Versioned(a) /\ t.op \in {"create", "update"}
                 THEN [history EXCEPT ![a] = @ \cup {t.seen}] ELSE history
  BY <1>2 DEF Commit
<1>5. t.op # "create" => \/ rows[a].id = t.loaded.id
                         \/ [asset |-> a, action |-> "delete", id |-> t.loaded.id] \in audit
  BY <1>1, <1>2 DEF StoreInv, GoneIsLogged
<1>6. t.op \in {"create", "update"} => SeenOK(t)
  BY <1>1 DEF StoreInv, HistoryInv, ReadBackOK
<1>7. t.op # "create" => t.loaded.id # 0
  BY <1>1 DEF TxOK, Row
<1>8. ~Dirty(t) => rows'[a] = rows[a]
  BY <1>1, <1>2, WrittenTypes DEF StoreInv, HistoryInv, BaseInv
<1>9. rows'[a] = rows[a] => UNCHANGED <<StoreRow, past>>
  <2> SUFFICES ASSUME rows'[a] = rows[a] PROVE UNCHANGED <<StoreRow, past>>
    OBVIOUS
  <2>1. StoreRow' = StoreRow
    BY <1>1, <1>2 DEF StoreRow
  <2>2. past' = past
    BY <1>3 DEF Touches, StoreInv, HistoryInv, PastOK, BaseInv, TypeOK
  <2> QED BY <2>1, <2>2
<1>10. CASE t.op = "create"
  <2>1. rows[a] = Absent /\ rows'[a] = t.new /\ t.new.id # 0 /\ Dirty(t)
    BY <1>2, <1>10, CommittedId DEF StoreInv, HistoryInv
  <2>2. \A e \in audit : e.id # t.new.id
    BY <1>1, <1>10 DEF StoreInv, ExistenceInv, CreatesFresh, FreshId
  <2>3. t.seen = ContentOf(rows'[a])
    BY <1>1, <1>2, <1>6, <1>10, <2>1 DEF SeenOK
  <2> QED BY <1>3, <1>4, <1>10, <2>1, <2>2, <2>3, StoreCreates
<1>11. CASE t.op = "delete"
  <2>1. history' = history
    BY <1>4, <1>11
  <2>2. CASE rows[a].id = t.loaded.id
    <3>1. rows'[a] = Absent
      BY <1>2, <1>11, <2>2, CommittedId DEF StoreInv, HistoryInv
    <3> QED BY <1>3, <1>7, <1>11, <2>1, <2>2, <3>1, StoreDeletes
  <2>3. CASE rows[a].id # t.loaded.id
    <3>1. rows'[a] = rows[a]
      BY <1>2, <1>11, <2>3, CommittedId DEF StoreInv, HistoryInv
    <3>2. audit' = audit
      BY <1>3, <1>5, <1>11, <2>3 DEF Logs
    <3> QED BY <1>9, <2>1, <3>1, <3>2
  <2> QED BY <2>2, <2>3
<1>12. CASE t.op \in {"update", "enable", "disable"} /\ Dirty(t)
  <2>1. rows[a].id = t.loaded.id /\ rows'[a].id = rows[a].id
    BY <1>1, <1>2, <1>12, CommittedId DEF Found, StoreInv, HistoryInv
  <2>2. rows[a] \in Row /\ t.loaded \in Row /\ t.new \in Row
    BY <1>1, <1>2, <1>7, <1>12, <2>1 DEF TxOK, StoreInv, HistoryInv, BaseInv, TypeOK, Absent
  <2>3. rows'[a].active = IF t.new.active # t.loaded.active THEN t.new.active
                                                           ELSE rows[a].active
    BY <1>1, <1>2, <1>12, <2>2 DEF Written, Row
  <2>4. CASE t.op = "update"
    <3>1. rows'[a].active = rows[a].active
      BY <1>1, <2>3, <2>4 DEF TxOK
    <3>2. t.seen = ContentOf(rows'[a])
      BY <1>1, <1>2, <1>6, <1>12, <2>4 DEF SeenOK
    <3> QED BY <1>3, <1>4, <1>7, <2>1, <2>4, <3>1, <3>2, StoreEdits
  <2>5. CASE t.op \in {"enable", "disable"}
    <3>1. ContentOf(rows'[a]) = ContentOf(rows[a])
      BY <1>1, <1>2, <2>5, WrittenTypes DEF StoreInv, HistoryInv, BaseInv
    <3>2. rows'[a].active \in {rows[a].active, t.op = "enable"}
      <4>1. CASE t.op = "enable"
        <5>1. t.new.active = TRUE
          BY <1>1, <4>1 DEF TxOK
        <5> QED BY <2>3, <4>1, <5>1, Zenon
      <4>2. CASE t.op = "disable"
        <5>1. t.new.active = FALSE /\ t.op # "enable"
          BY <1>1, <4>2 DEF TxOK
        <5> QED BY <2>3, <5>1, Zenon
      <4> QED BY <2>5, <4>1, <4>2
    <3>3. history' = history
      BY <1>4, <2>5
    <3>4. PICK action \in {"enable", "disable"} : action = t.op
      BY <2>5
    <3>5. rows'[a].active \in {rows[a].active, action = "enable"}
      BY <3>2, <3>4, Zenon
    <3> QED BY <1>3, <1>7, <2>1, <2>5, <3>1, <3>3, <3>4, <3>5, StoreSwitches
  <2> QED BY <1>12, <2>4, <2>5
<1>13. CASE t.op \in {"update", "enable", "disable"} /\ ~Dirty(t)
  <2>1. UNCHANGED <<rows, past>>
    <3>1. rows' = rows
      BY <1>2, <1>8, <1>13 DEF Commit, StoreInv, HistoryInv, BaseInv, TypeOK
    <3> QED BY <1>8, <1>9, <1>13, <3>1
  <2>2. t.op = "update" => /\ t.seen \in past[a]
                           /\ Versioned(a) /\ history[a] = {} => t.seen = ContentOf(rows[a])
    BY <1>2, <1>6, <1>13 DEF SeenOK
  <2>3. PICK action, loaded : action = t.op /\ loaded = id
    OBVIOUS
  <2>4. /\ rows[a].id = loaded \/ [asset |-> a, action |-> "delete", id |-> loaded] \in audit
        /\ Logs(a, action, loaded)
    BY <1>3, <1>5, <1>13, <2>3
  <2>5. \/ action \in {"enable", "disable"} /\ history' = history
        \/ action = "update" /\ \E content \in past[a] :
              /\ Versioned(a) /\ history[a] = {} => content = ContentOf(rows[a])
              /\ history' = IF Versioned(a) THEN [history EXCEPT ![a] = @ \cup {content}]
                                            ELSE history
    BY <1>4, <1>13, <2>2, <2>3
  <2> QED BY <2>1, <2>4, <2>5, StoreNotes
<1> QED
  BY <1>1, <1>10, <1>11, <1>12, <1>13 DEF Tx, Actions, Operations

\* Only a commit is visible in the store.
LEMMA OnlyCommitStores ==
    ASSUME [Next]_vars, \A s \in Sessions : ~Commit(s)
    PROVE  UNCHANGED <<rows, past, history, audit>>
  BY DEF Next, vars, Begin, Reject, Write, Conflict, Abort

\* The concurrent transactions implement the store in which every operation
\* takes effect at once: nothing another request does between the load, the
\* write and the commit of a request shows in what its commit does.
THEOREM StoreRefined == Spec => RefinesStore
<1>1. Init => Store!Init
  BY StoreInit
<1>2. StoreInv /\ [Next]_vars => [Store!Next]_<<StoreRow, past, history, audit>>
  <2> SUFFICES ASSUME StoreInv, [Next]_vars
               PROVE  [Store!Next]_<<StoreRow, past, history, audit>>
    OBVIOUS
  <2>1. CASE \E s \in Sessions : Commit(s)
    BY <2>1, StoreCommit
  <2>2. CASE \A s \in Sessions : ~Commit(s)
    BY <2>2, OnlyCommitStores DEF StoreRow
  <2> QED BY <2>1, <2>2
<1> QED BY <1>1, <1>2, StoreAlways, PTL DEF Spec, RefinesStore, Store!Spec, Store!vars, StoreRow

----------------------------------------------------------------------------
(* What one request at a time per asset would ensure.                      *)

RequestsApart ==
    \A s, q \in Sessions : s # q /\ Busy(s) /\ Busy(q) => tx[s].asset # tx[q].asset

\* A commit replaces the row that the handler loaded, which is the before_state
\* of its audit row, by the row the handler made, which is the after_state and
\* the answer.
CommitDoesAsShown ==
    \A s \in Sessions : Commit(s) =>
        /\ rows[tx[s].asset] = tx[s].loaded
        /\ rows' = [rows EXCEPT ![tx[s].asset] = tx[s].new]

LoadedIsCurrent == \A s \in Sessions : Busy(s) => rows[tx[s].asset] = tx[s].loaded

ShownInv == BaseInv /\ LoadedIsCurrent

\* A request whose row is as it was loaded leaves what its handler made of it.
LEMMA WritesAsMade ==
    ASSUME NEW t \in Tx, TxOK(t)
    PROVE  Written(t, t.loaded) = t.new
<1>1. t.op \in Actions
  BY DEF Tx
<1>2. CASE t.op \in {"create", "delete"}
  BY <1>2 DEF Written
<1>3. CASE t.op \in {"update", "enable", "disable"}
  <2>1. t.loaded \in Row /\ t.new \in Row /\ t.new.id = t.loaded.id
    BY <1>3 DEF TxOK
  <2>2. Written(t, t.loaded) =
           [t.loaded EXCEPT !.active = IF t.new.active # t.loaded.active THEN t.new.active ELSE @,
                            !.left = IF t.new.left # t.loaded.left THEN t.new.left ELSE @,
                            !.right = IF t.new.right # t.loaded.right THEN t.new.right ELSE @]
    BY <1>3 DEF Written
  <2>3. Written(t, t.loaded) = [id |-> t.loaded.id, active |-> t.new.active,
                                left |-> t.new.left, right |-> t.new.right]
    BY <2>1, <2>2 DEF Row
  <2> QED BY <2>1, <2>3 DEF Row
<1> QED BY <1>1, <1>2, <1>3 DEF Actions, Operations

LEMMA ShownStep ==
    ASSUME ShownInv, RequestsApart, RequestsApart', [Next]_vars
    PROVE  ShownInv'
<1>1. BaseInv'
  BY BaseStep DEF ShownInv
<1>2. ASSUME UNCHANGED rows, NEW s \in Sessions,
             \A q \in Sessions \ {s} : tx'[q] = tx[q],
             Busy(s)' => \/ /\ Busy(s) /\ tx'[s].asset = tx[s].asset
                            /\ tx'[s].loaded = tx[s].loaded
                         \/ tx'[s].loaded = rows[tx'[s].asset]
      PROVE  LoadedIsCurrent'
  BY <1>2 DEF ShownInv, LoadedIsCurrent, Busy
<1>3. ASSUME UNCHANGED vars PROVE LoadedIsCurrent'
  BY <1>3 DEF vars, ShownInv, LoadedIsCurrent, Busy
<1>4. ASSUME NEW s \in Sessions, NEW a \in Assets, NEW op \in Operations(KindOf[a]),
             Begin(s, a, op)
      PROVE  LoadedIsCurrent'
  <2>1. PICK t \in Tx : tx' = [tx EXCEPT ![s] = t] /\ t.asset = a /\ t.loaded = rows[a]
    BY <1>4, BegunTx DEF ShownInv
  <2> QED BY <1>2, <1>4, <2>1 DEF Begin, ShownInv, BaseInv, TypeOK
<1>5. ASSUME NEW s \in Sessions, Write(s) PROVE LoadedIsCurrent'
  <2>1. /\ tx[s] \in Tx /\ Busy(s)
        /\ tx'[s] = [tx[s] EXCEPT !.pc = "written", !.seen = Seen(tx[s])]
        /\ \A q \in Sessions \ {s} : tx'[q] = tx[q]
    BY <1>5, WriteFacts DEF ShownInv
  <2>2. tx'[s].asset = tx[s].asset /\ tx'[s].loaded = tx[s].loaded
    BY <2>1 DEF Tx
  <2> QED BY <1>2, <1>5, <2>1, <2>2 DEF Write
<1>6. ASSUME NEW s \in Sessions, Conflict(s) \/ Abort(s) PROVE LoadedIsCurrent'
  <2>1. ~Busy(s)' /\ \A q \in Sessions \ {s} : tx'[q] = tx[q]
    BY <1>6 DEF Conflict, Abort, Busy, ShownInv, BaseInv, TypeOK
  <2> QED BY <1>2, <1>6, <2>1 DEF Conflict, Abort
<1>7. ASSUME NEW s \in Sessions, Commit(s) PROVE LoadedIsCurrent'
  <2>1. /\ Busy(s) /\ ~Busy(s)' /\ \A q \in Sessions \ {s} : tx'[q] = tx[q]
        /\ \A a \in Assets \ {tx[s].asset} : rows'[a] = rows[a]
    BY <1>7, CommitFacts DEF ShownInv
  <2> SUFFICES ASSUME NEW q \in Sessions, Busy(q)' PROVE rows'[tx'[q].asset] = tx'[q].loaded
    BY DEF LoadedIsCurrent
  <2>2. q # s /\ tx'[q] = tx[q] /\ Busy(q)
    BY <2>1 DEF Busy
  <2>3. tx[q].asset \in Assets /\ tx[q].asset # tx[s].asset
    BY <2>1, <2>2, IdleOrBusy DEF RequestsApart, ShownInv, BaseInv, TypeOK, Busy, Tx
  <2> QED BY <2>1, <2>2, <2>3 DEF ShownInv, LoadedIsCurrent
<1>8. ASSUME NEW s \in Sessions, NEW a \in Assets, NEW op \in Operations(KindOf[a]),
             Reject(s, a, op)
      PROVE  LoadedIsCurrent'
  BY <1>3, <1>8 DEF Reject
<1>9. LoadedIsCurrent'
  BY <1>3, <1>4, <1>5, <1>6, <1>7, <1>8 DEF Next
<1> QED BY <1>1, <1>9 DEF ShownInv

\* If requests for one asset did not overlap, an audit row would show the row
\* before and after the commit as they were: the before_state of
\* source_registry.py:88 would not be stale, and the enable or disable of
\* policy_registry.py:99 would not leave the policy as somebody else set it.
THEOREM ApartCommitsAsShown == Spec /\ []RequestsApart => [][CommitDoesAsShown]_vars
<1>1. Init => ShownInv
  BY InitBase DEF Init, ShownInv, LoadedIsCurrent, Busy
<1>2. ShownInv /\ RequestsApart /\ RequestsApart' /\ [Next]_vars => ShownInv'
  BY ShownStep
<1>3. ShownInv => CommitDoesAsShown
  <2> SUFFICES ASSUME ShownInv, NEW s \in Sessions, Commit(s)
               PROVE  /\ rows[tx[s].asset] = tx[s].loaded
                      /\ rows' = [rows EXCEPT ![tx[s].asset] = tx[s].new]
    BY DEF CommitDoesAsShown
  <2>1. tx[s] \in Tx /\ TxOK(tx[s]) /\ rows[tx[s].asset] = tx[s].loaded
    BY CommitFacts DEF ShownInv, LoadedIsCurrent
  <2>2. rows' = [rows EXCEPT ![tx[s].asset] = Written(tx[s], rows[tx[s].asset])]
    BY DEF Commit
  <2> QED BY <2>1, <2>2, WritesAsMade
<1> QED BY <1>1, <1>2, <1>3, PTL DEF Spec
=============================================================================
