------------------------- MODULE SchemaRegistryProofs -------------------------
(* Theorems about SchemaRegistry for any finite number of sessions, any names *)
(* and versions and any bound MaxId.                                          *)
EXTENDS SchemaRegistry, FiniteSetTheorems, TLAPS

\* What a request that is under way has inserted: a creation at most one
\* schema, of its own name and never the seeded one, together with the audit
\* row that reports it; an addition a version of a committed schema of its name.
InsertedOK(t) ==
    /\ t.pc = "checked" => t.schemas = {} /\ t.audit = {}
    /\ t.op = "create" /\ t.pc # "checked" =>
          \E r \in SchemaRow : /\ t.schemas = {r} /\ r.name = t.name /\ r # SeededSchema
                               /\ t.audit = {[action |-> "SCHEMA_CREATED", name |-> t.name,
                                              row |-> r.id]}
    /\ t.op = "add_version" =>
          /\ t.schemas = {}
          /\ t.version \in Versions
          /\ \E r \in schemas : r.id = t.schema /\ r.name = t.name
          /\ \A e \in t.audit :
                /\ e.action = "SCHEMA_VERSION_ADDED" /\ e.name = t.name
                /\ \E v \in t.versions : v.id = e.row /\ v.schema = t.schema

RegistryInv ==
    /\ TypeOK
    /\ \A s \in Sessions : tx[s] # IdleTx => InsertedOK(tx[s])
    /\ CreationsAudited
    /\ SeededSchema \in schemas
    /\ last_id >= 2

\* Committed schemas stay, so what a request has inserted stays right.
LEMMA InsertedStays ==
    ASSUME NEW t, InsertedOK(t), schemas \subseteq schemas'
    PROVE  InsertedOK(t)'
  BY DEF InsertedOK, SeededSchema

LEMMA IdleOrTx ==
    ASSUME NEW t \in Tx \cup {IdleTx}
    PROVE  (t = IdleTx <=> t.pc = "idle") /\ (t \in Tx <=> t # IdleTx)
  BY DEF Tx, IdleTx

\* A request that has just passed its checks.
LEMMA NewTxOK ==
    ASSUME NEW op \in {"create", "add_version"}, NEW name \in Names,
           NEW version \in Versions \cup {NoVersion}, NEW schema \in Nat,
           op = "add_version" =>
              version \in Versions /\ \E r \in schemas : r.id = schema /\ r.name = name
    PROVE  LET t == NewTx("checked", op, name, version, schema)
           IN  t \in Tx /\ t # IdleTx /\ InsertedOK(t) /\ t.op = op /\ t.name = name
  BY DEF NewTx, Tx, IdleTx, InsertedOK

\* What the INSERTs of a creation and of an added version leave in the request.
LEMMA InsertSchemaOK ==
    ASSUME RegistryInv, NEW s \in Sessions, InsertSchema(s)
    PROVE  \E t \in Tx : /\ tx' = [tx EXCEPT ![s] = t] /\ InsertedOK(t)
                         /\ t.op = "create" /\ t.name = tx[s].name
<1> DEFINE row == [id |-> last_id + 1, name |-> tx[s].name]
           entry == [action |-> "SCHEMA_CREATED", name |-> tx[s].name, row |-> last_id + 1]
           first == IF tx[s].version = NoVersion THEN {}
                    ELSE {[id |-> last_id + 2, schema |-> last_id + 1,
                           version |-> tx[s].version]}
           t == [tx[s] EXCEPT !.pc = "inserted", !.schemas = {row}, !.versions = first,
                              !.audit = {entry}]
<1>1. tx[s] \in Tx /\ last_id \in Nat /\ last_id >= 2 /\ tx[s].op = "create"
  BY DEF InsertSchema, RegistryInv, TypeOK, IdleTx
<1>2. row \in SchemaRow /\ entry \in AuditRow /\ first \subseteq VersionRow
  BY <1>1 DEF Tx, SchemaRow, AuditRow, VersionRow
<1>3. tx' = [tx EXCEPT ![s] = t]
  BY DEF InsertSchema
<1>4. row.id = last_id + 1 /\ row.name = tx[s].name /\ row # SeededSchema
  BY <1>1 DEF SeededSchema
<1>5. entry = [action |-> "SCHEMA_CREATED", name |-> tx[s].name, row |-> row.id]
  OBVIOUS
<1> HIDE DEF row, entry, first
<1>6. /\ t \in Tx /\ t.pc = "inserted" /\ t.op = "create" /\ t.name = tx[s].name
      /\ t.schemas = {row} /\ t.audit = {entry}
  BY <1>1, <1>2 DEF Tx
<1> HIDE DEF t
<1>7. InsertedOK(t)
  BY <1>2, <1>4, <1>5, <1>6 DEF InsertedOK
<1> QED BY <1>3, <1>6, <1>7

LEMMA InsertVersionOK ==
    ASSUME RegistryInv, NEW s \in Sessions, InsertVersion(s)
    PROVE  \E t \in Tx : /\ tx' = [tx EXCEPT ![s] = t] /\ InsertedOK(t)
                         /\ t.op = "add_version" /\ t.name = tx[s].name
<1> DEFINE row == [id |-> last_id + 1, schema |-> tx[s].schema, version |-> tx[s].version]
           entry == [action |-> "SCHEMA_VERSION_ADDED", name |-> tx[s].name,
                     row |-> last_id + 1]
           t == [tx[s] EXCEPT !.pc = "ready", !.versions = {row}, !.audit = {entry}]
<1>1. /\ tx[s] \in Tx /\ last_id \in Nat /\ tx[s].op = "add_version"
      /\ tx[s].schemas = {} /\ tx[s].version \in Versions
      /\ \E r \in schemas : r.id = tx[s].schema /\ r.name = tx[s].name
  BY DEF InsertVersion, RegistryInv, TypeOK, IdleTx, InsertedOK
<1>2. /\ row \in VersionRow /\ entry \in AuditRow
      /\ entry.action = "SCHEMA_VERSION_ADDED" /\ entry.name = tx[s].name
      /\ entry.row = row.id /\ row.schema = tx[s].schema
  BY <1>1 DEF Tx, AuditRow, VersionRow
<1>3. tx' = [tx EXCEPT ![s] = t]
  BY DEF InsertVersion
<1> HIDE DEF row, entry
<1>4. /\ t \in Tx /\ t.pc = "ready" /\ t.op = "add_version" /\ t.name = tx[s].name
      /\ t.schemas = {} /\ t.audit = {entry} /\ t.version \in Versions
      /\ t.versions = {row} /\ t.schema = tx[s].schema
  BY <1>1, <1>2 DEF Tx
<1> HIDE DEF t
<1>5. InsertedOK(t)
  BY <1>1, <1>2, <1>4 DEF InsertedOK
<1> QED BY <1>3, <1>4, <1>5

\* A step that gives one session a well-formed request, or ends its request,
\* and commits nothing.
LEMMA QuietStep ==
    ASSUME RegistryInv, NEW s \in Sessions, NEW t \in Tx \cup {IdleTx},
           tx' = [tx EXCEPT ![s] = t], t # IdleTx => InsertedOK(t),
           last_id' \in Nat, last_id' >= last_id,
           UNCHANGED <<schemas, schema_versions, audit_logs>>
    PROVE  RegistryInv'
<1>1. TypeOK' /\ SeededSchema' \in schemas' /\ last_id' >= 2
  BY DEF RegistryInv, TypeOK, SeededSchema
<1>2. \A q \in Sessions : tx'[q] # IdleTx => InsertedOK(tx[q])'
  BY InsertedStays DEF RegistryInv, TypeOK
<1>3. CreationsAudited'
  BY DEF RegistryInv, CreationsAudited, Audited, SeededSchema
<1> QED BY <1>1, <1>2, <1>3 DEF RegistryInv

LEMMA BeginKeepsRegistry ==
    ASSUME RegistryInv, NEW s \in Sessions, NEW name \in Names,
           NEW version \in Versions \cup {NoVersion},
           \/ BeginCreate(s, name, version)
           \/ version \in Versions /\ BeginAddVersion(s, name, version)
    PROVE  RegistryInv'
<1>1. UNCHANGED <<schemas, schema_versions, audit_logs, last_id>> /\ last_id \in Nat
  BY DEF BeginCreate, BeginAddVersion, RegistryInv, TypeOK
<1>2. CASE BeginCreate(s, name, version)
  <2> DEFINE new == NewTx("checked", "create", name, version, 0)
  <2>1. new \in Tx \cup {IdleTx} /\ InsertedOK(new)
    BY NewTxOK
  <2>2. tx' = [tx EXCEPT ![s] = new]
    BY <1>2 DEF BeginCreate
  <2> HIDE DEF new
  <2>3. last_id' \in Nat /\ last_id' >= last_id
    BY <1>1
  <2> QED BY <1>1, <2>1, <2>2, <2>3, QuietStep
<1>3. CASE version \in Versions /\ BeginAddVersion(s, name, version)
  <2>1. PICK r \in schemas :
          /\ r.name = name
          /\ tx' = [tx EXCEPT ![s] = NewTx("checked", "add_version", name, version, r.id)]
    BY <1>3 DEF BeginAddVersion, Named
  <2>2. r.id \in Nat
    BY DEF RegistryInv, TypeOK, SchemaRow
  <2> DEFINE t == NewTx("checked", "add_version", name, version, r.id)
  <2>3. t \in Tx /\ InsertedOK(t)
    BY <1>3, <2>1, <2>2, NewTxOK
  <2>4. tx' = [tx EXCEPT ![s] = t]
    BY <2>1
  <2> HIDE DEF t
  <2>5. last_id' \in Nat /\ last_id' >= last_id /\ t \in Tx \cup {IdleTx}
    BY <1>1, <2>3
  <2>6. UNCHANGED <<schemas, schema_versions, audit_logs>>
    BY <1>1
  <2> QED BY <2>3, <2>4, <2>5, <2>6, QuietStep
<1> QED BY <1>2, <1>3

LEMMA CommitKeepsRegistry ==
    ASSUME RegistryInv, NEW s \in Sessions, Commit(s)
    PROVE  RegistryInv'
<1>1. tx[s] \in Tx /\ InsertedOK(tx[s]) /\ tx[s].pc = "ready"
  BY DEF Commit, RegistryInv, TypeOK, IdleTx
<1>2. /\ schemas' = schemas \cup tx[s].schemas
      /\ audit_logs' = audit_logs \cup tx[s].audit
      /\ tx' = [tx EXCEPT ![s] = IdleTx]
  BY DEF Commit
<1>3. TypeOK' /\ SeededSchema' \in schemas' /\ last_id' >= 2
  BY <1>1 DEF Commit, RegistryInv, TypeOK, Tx, SeededSchema
<1>4. \A q \in Sessions : tx'[q] # IdleTx => InsertedOK(tx[q])'
  BY <1>2, InsertedStays DEF RegistryInv, TypeOK
<1>5. CreationsAudited'
  <2> DEFINE Rows(A) == {[id |-> e.row, name |-> e.name] :
                            e \in {a \in A : a.action = "SCHEMA_CREATED"}}
             Committed(e) == \E v \in schema_versions', r \in schemas' :
                                v.id = e.row /\ v.schema = r.id /\ r.name = e.name
  <2>1. Rows(audit_logs) = schemas \ {SeededSchema}
    BY DEF RegistryInv, CreationsAudited, Audited
  <2>2. \A e \in audit_logs : e.action = "SCHEMA_VERSION_ADDED" => Committed(e)
    BY <1>2 DEF RegistryInv, CreationsAudited, Audited, Commit
  <2>3. Rows(audit_logs') = schemas' \ {SeededSchema}
    <3>1. CASE tx[s].op = "create"
      <4>1. PICK r \in SchemaRow :
              /\ tx[s].schemas = {r} /\ r.name = tx[s].name /\ r # SeededSchema
              /\ tx[s].audit = {[action |-> "SCHEMA_CREATED", name |-> tx[s].name,
                                 row |-> r.id]}
        BY <1>1, <3>1 DEF InsertedOK
      <4> DEFINE entry == [action |-> "SCHEMA_CREATED", name |-> tx[s].name, row |-> r.id]
      <4>2. /\ entry.action = "SCHEMA_CREATED"
            /\ [id |-> entry.row, name |-> entry.name] = r
        BY <4>1 DEF SchemaRow
      <4>3. schemas' = schemas \cup {r} /\ audit_logs' = audit_logs \cup {entry}
        BY <1>2, <4>1
      <4> HIDE DEF entry
      <4>4. Rows(audit_logs') = Rows(audit_logs) \cup {r}
        BY <4>2, <4>3
      <4> HIDE DEF Rows
      <4> QED BY <2>1, <4>1, <4>3, <4>4
    <3>2. CASE tx[s].op = "add_version"
      <4>1. tx[s].schemas = {} /\ \A e \in tx[s].audit : e.action = "SCHEMA_VERSION_ADDED"
        BY <1>1, <3>2 DEF InsertedOK
      <4>2. Rows(audit_logs') = Rows(audit_logs)
        BY <1>2, <4>1
      <4> QED BY <1>2, <2>1, <4>1, <4>2
    <3> QED BY <1>1, <3>1, <3>2 DEF Tx
  <2>4. \A e \in audit_logs' : e.action = "SCHEMA_VERSION_ADDED" => Committed(e)
    <3> SUFFICES ASSUME NEW e \in tx[s].audit, e.action = "SCHEMA_VERSION_ADDED"
                 PROVE  Committed(e)
      BY <1>2, <2>2
    <3>1. tx[s].op = "add_version"
      BY <1>1 DEF InsertedOK, Tx
    <3>2. /\ \E r \in schemas : r.id = tx[s].schema /\ r.name = tx[s].name
          /\ e.name = tx[s].name
          /\ \E v \in tx[s].versions : v.id = e.row /\ v.schema = tx[s].schema
      BY <1>1, <3>1 DEF InsertedOK
    <3> QED BY <1>2, <3>2 DEF Commit
  <2> HIDE DEF Committed
  <2>5. \A e \in Audited("SCHEMA_VERSION_ADDED")' : Committed(e)
    BY <2>4 DEF Audited
  <2> USE DEF Committed
  <2> QED BY <2>3, <2>5 DEF CreationsAudited, Audited, SeededSchema
<1> QED BY <1>3, <1>4, <1>5 DEF RegistryInv

\* get_by_name at the end of a creation: the request goes on, or is rolled back.
LEMMA FetchOK ==
    ASSUME RegistryInv, NEW s \in Sessions, FetchSchema(s)
    PROVE  \E t \in Tx \cup {IdleTx} :
              /\ tx' = [tx EXCEPT ![s] = t]
              /\ t # IdleTx => /\ InsertedOK(t) /\ t.op = tx[s].op /\ t.name = tx[s].name
                               /\ Named(tx[s].name) = {} /\ t.pc = "ready"
<1>1. tx[s] \in Tx /\ InsertedOK(tx[s]) /\ tx[s].pc = "inserted"
  BY DEF FetchSchema, RegistryInv, TypeOK, IdleTx
<1>2. CASE Named(tx[s].name) = {}
  <2> DEFINE t == [tx[s] EXCEPT !.pc = "ready"]
  <2>1. tx' = [tx EXCEPT ![s] = t]
    BY <1>2 DEF FetchSchema
  <2>2. /\ t \in Tx /\ t.pc = "ready" /\ t.op = tx[s].op /\ t.name = tx[s].name
        /\ t.schemas = tx[s].schemas /\ t.audit = tx[s].audit /\ t.version = tx[s].version
        /\ t.schema = tx[s].schema /\ t.versions = tx[s].versions
    BY <1>1 DEF Tx
  <2> HIDE DEF t
  <2>3. InsertedOK(t)
    BY <1>1, <2>2 DEF InsertedOK
  <2> QED BY <1>2, <2>1, <2>2, <2>3
<1>3. CASE Named(tx[s].name) # {}
  BY <1>3 DEF FetchSchema
<1> QED BY <1>2, <1>3

LEMMA NextKeepsRegistry == RegistryInv /\ [Next]_vars => RegistryInv'
<1> SUFFICES ASSUME RegistryInv, [Next]_vars PROVE RegistryInv'
  OBVIOUS
<1>1. ASSUME NEW s \in Sessions, InsertSchema(s) PROVE RegistryInv'
  <2>1. last_id' \in Nat /\ last_id' >= last_id /\ UNCHANGED <<schemas, schema_versions, audit_logs>>
    BY <1>1 DEF InsertSchema, RegistryInv, TypeOK
  <2> QED BY <1>1, <2>1, InsertSchemaOK, QuietStep
<1>2. ASSUME NEW s \in Sessions, InsertVersion(s) PROVE RegistryInv'
  <2>1. last_id' \in Nat /\ last_id' >= last_id /\ UNCHANGED <<schemas, schema_versions, audit_logs>>
    BY <1>2 DEF InsertVersion, RegistryInv, TypeOK
  <2> QED BY <1>2, <2>1, InsertVersionOK, QuietStep
<1>3. ASSUME NEW s \in Sessions, FetchSchema(s) PROVE RegistryInv'
  <2>1. last_id' \in Nat /\ last_id' >= last_id /\ UNCHANGED <<schemas, schema_versions, audit_logs>>
    BY <1>3 DEF FetchSchema, RegistryInv, TypeOK
  <2> QED BY <1>3, <2>1, FetchOK, QuietStep
<1>4. ASSUME NEW s \in Sessions, Abort(s) PROVE RegistryInv'
  <2>1. /\ last_id' \in Nat /\ last_id' >= last_id /\ UNCHANGED <<schemas, schema_versions, audit_logs>>
        /\ tx' = [tx EXCEPT ![s] = IdleTx]
    BY <1>4 DEF Abort, RegistryInv, TypeOK
  <2> QED BY <2>1, QuietStep
<1>5. CASE UNCHANGED vars
  BY <1>5, InsertedStays DEF vars, RegistryInv, TypeOK, CreationsAudited, Audited, SeededSchema
<1> QED
  BY <1>1, <1>2, <1>3, <1>4, <1>5, BeginKeepsRegistry, CommitKeepsRegistry DEF Next, Reject

LEMMA InitRegistry == Init => RegistryInv
  BY SeedAssumption DEF Init, RegistryInv, TypeOK, CreationsAudited, Audited, SeededSchema,
                        SeededVersion, SchemaRow, VersionRow

LEMMA SpecKeepsRegistry == Spec => []RegistryInv
  BY InitRegistry, NextKeepsRegistry, PTL DEF Spec

\* The state always has the shape of TypeOK.
THEOREM TypeCorrect == Spec => []TypeOK
<1>1. RegistryInv => TypeOK
  BY DEF RegistryInv
<1> QED BY <1>1, SpecKeepsRegistry, PTL

\* The SCHEMA_CREATED audit rows report exactly the committed schemas other
\* than the seeded one, which the scripts insert unreported, and every audited
\* addition of a version is committed under the schema it names.
THEOREM CreationsAreAudited == Spec => []CreationsAudited
<1>1. RegistryInv => CreationsAudited
  BY DEF RegistryInv
<1> QED BY <1>1, SpecKeepsRegistry, PTL

----------------------------------------------------------------------------
(* How many rows a name can get.                                           *)

\* The creations of a name that are under way.
Creators(name) ==
    {s \in Sessions : tx[s] # IdleTx /\ tx[s].op = "create" /\ tx[s].name = name}

\* At most K creations of a name are under way at a time.
OverlapAtMost(K) == \A name \in Names : Cardinality(Creators(name)) <= K

\* A name has at most K committed rows, the seeded name one.
RowsAtMost(K) == \A name \in Names : Cardinality(Named(name)) <= Limit(K, name)

\* The inductive invariant: the rows of a name and the creations of it that are
\* under way, each of which adds at most one row, are K together, since once a
\* row of the name is committed no creation of it passes the first check.  The
\* seeded name has a row from the start.
BoundInv(K) ==
    \A name \in Names :
        /\ IsFiniteSet(Named(name))
        /\ Cardinality(Named(name)) + Cardinality(Creators(name)) <= Limit(K, name)

LEMMA LimitType ==
    ASSUME NEW K \in Nat, NEW name
    PROVE  Limit(K, name) \in Nat
  BY DEF Limit

\* A step that ends a request, or leaves it the same creation, adds no creator.
LEMMA CreatorsShrink ==
    ASSUME RegistryInv, NEW s \in Sessions, NEW t, tx' = [tx EXCEPT ![s] = t],
           t # IdleTx => tx[s] # IdleTx /\ t.op = tx[s].op /\ t.name = tx[s].name,
           NEW name \in Names
    PROVE  Creators(name)' \subseteq Creators(name)
<1>1. tx'[s] = t /\ \A q \in Sessions \ {s} : tx'[q] = tx[q]
  BY DEF RegistryInv, TypeOK
<1> QED BY <1>1 DEF Creators

\* Fewer creators and the same rows keep the bound.
LEMMA FewerCreators ==
    ASSUME NEW K \in Nat, BoundInv(K), schemas' = schemas,
           \A name \in Names : Creators(name)' \subseteq Creators(name)
    PROVE  BoundInv(K)'
<1> SUFFICES ASSUME NEW name \in Names
             PROVE  /\ IsFiniteSet(Named(name))'
                    /\ Cardinality(Named(name))' + Cardinality(Creators(name))' <= Limit(K, name)
  BY DEF BoundInv
<1>1. Named(name)' = Named(name)
  BY DEF Named
<1>2. IsFiniteSet(Creators(name)) /\ IsFiniteSet(Creators(name)')
  BY SessionsAssumption, FS_Subset DEF Creators
<1>3. Cardinality(Creators(name)') <= Cardinality(Creators(name))
  BY <1>2, FS_Subset
<1>4. /\ Cardinality(Named(name)) \in Nat /\ Cardinality(Creators(name)) \in Nat
      /\ Cardinality(Creators(name)') \in Nat /\ Cardinality(Sessions) \in Nat
  BY <1>2, SessionsAssumption, FS_CardinalityType DEF BoundInv
<1> QED BY <1>1, <1>3, <1>4, LimitType DEF BoundInv

LEMMA InitBound ==
    ASSUME NEW K \in Nat, Init
    PROVE  BoundInv(K)
<1> SUFFICES ASSUME NEW name \in Names
             PROVE  /\ IsFiniteSet(Named(name))
                    /\ Cardinality(Named(name)) + Cardinality(Creators(name)) <= Limit(K, name)
  BY DEF BoundInv
<1>1. Creators(name) = {} /\ Named(name) = IF name = Ues THEN {SeededSchema} ELSE {}
  BY DEF Init, Named, Creators, SeededSchema
<1>2. CASE name = Ues
  <2>1. Named(name) = {SeededSchema} /\ Limit(K, name) = 1
    BY <1>1, <1>2 DEF Limit
  <2>2. IsFiniteSet({SeededSchema}) /\ Cardinality({SeededSchema}) = 1
    BY FS_Singleton
  <2> QED BY <1>1, <2>1, <2>2, FS_EmptySet
<1>3. CASE name # Ues
  BY <1>1, <1>3, FS_EmptySet DEF Limit
<1> QED BY <1>2, <1>3

\* The first check: only a name without committed rows gets a new creator.
LEMMA BeginKeepsBound ==
    ASSUME NEW K \in Nat, RegistryInv, BoundInv(K), NEW s \in Sessions, NEW n \in Names,
           NEW version \in Versions \cup {NoVersion}, OverlapAtMost(K)',
           \/ BeginCreate(s, n, version)
           \/ version \in Versions /\ BeginAddVersion(s, n, version)
    PROVE  BoundInv(K)'
<1>1. PICK t : /\ tx' = [tx EXCEPT ![s] = t]
               /\ t.op = "create" => t.name = n /\ Named(n) = {}
  <2>1. CASE BeginCreate(s, n, version)
    <3> DEFINE t == NewTx("checked", "create", n, version, 0)
    <3>1. t.name = n /\ tx' = [tx EXCEPT ![s] = t] /\ Named(n) = {}
      BY <2>1 DEF BeginCreate, NameExists, NewTx
    <3> HIDE DEF t
    <3> QED BY <3>1
  <2>2. CASE version \in Versions /\ BeginAddVersion(s, n, version)
    <3>1. PICK r : tx' = [tx EXCEPT ![s] = NewTx("checked", "add_version", n, version, r.id)]
      BY <2>2 DEF BeginAddVersion
    <3>2. NewTx("checked", "add_version", n, version, r.id).op # "create"
      BY DEF NewTx
    <3> QED BY <3>1, <3>2
  <2> QED BY <2>1, <2>2
<1>2. schemas' = schemas
  BY DEF BeginCreate, BeginAddVersion
<1> SUFFICES ASSUME NEW name \in Names
             PROVE  /\ IsFiniteSet(Named(name))'
                    /\ Cardinality(Named(name))' + Cardinality(Creators(name))' <= Limit(K, name)
  BY DEF BoundInv
<1>3. Named(name)' = Named(name) /\ IsFiniteSet(Named(name))
  BY <1>2 DEF Named, BoundInv
<1>4. /\ IsFiniteSet(Creators(name)) /\ IsFiniteSet(Creators(name)')
      /\ Cardinality(Creators(name)') <= K
  <2>1. Creators(name) \subseteq Sessions /\ Creators(name)' \subseteq Sessions
    BY DEF Creators
  <2>2. Cardinality(Creators(name)') <= K
    BY DEF OverlapAtMost
  <2> QED BY <2>1, <2>2, SessionsAssumption, FS_Subset
<1>5. CASE Named(name) = {}
  <2>1. Limit(K, name) = K
    BY <1>5 DEF RegistryInv, Named, SeededSchema, Limit
  <2> QED BY <1>3, <1>4, <1>5, <2>1, FS_EmptySet, FS_CardinalityType, SessionsAssumption
<1>6. CASE Named(name) # {}
  <2>1. tx'[s] = t /\ \A q \in Sessions \ {s} : tx'[q] = tx[q]
    BY <1>1 DEF RegistryInv, TypeOK
  <2>2. Creators(name)' \subseteq Creators(name)
    BY <1>1, <1>6, <2>1 DEF Creators
  <2>3. Cardinality(Creators(name)') <= Cardinality(Creators(name))
    BY <1>4, <2>2, FS_Subset
  <2>4. /\ Cardinality(Named(name)) \in Nat /\ Cardinality(Creators(name)) \in Nat
        /\ Cardinality(Creators(name)') \in Nat /\ Cardinality(Sessions) \in Nat
    BY <1>3, <1>4, SessionsAssumption, FS_CardinalityType
  <2> QED BY <1>3, <2>3, <2>4, LimitType DEF BoundInv
<1> QED BY <1>5, <1>6

\* Commit: the session stops being a creator and adds at most one row.
LEMMA CommitKeepsBound ==
    ASSUME NEW K \in Nat, RegistryInv, BoundInv(K), NEW s \in Sessions, Commit(s)
    PROVE  BoundInv(K)'
<1>1. tx[s] \in Tx /\ InsertedOK(tx[s]) /\ tx[s].pc = "ready" /\ tx[s] # IdleTx
  BY DEF Commit, RegistryInv, TypeOK, IdleTx
<1>2. /\ schemas' = schemas \cup tx[s].schemas
      /\ tx'[s] = IdleTx /\ \A q \in Sessions \ {s} : tx'[q] = tx[q]
  BY DEF Commit, RegistryInv, TypeOK
<1> SUFFICES ASSUME NEW name \in Names
             PROVE  /\ IsFiniteSet(Named(name))'
                    /\ Cardinality(Named(name))' + Cardinality(Creators(name))' <= Limit(K, name)
  BY DEF BoundInv
<1>3. Creators(name)' = Creators(name) \ {s}
  BY <1>2 DEF Creators
<1>4. /\ IsFiniteSet(Creators(name)) /\ IsFiniteSet(Named(name))
      /\ Cardinality(Creators(name)) \in Nat /\ Cardinality(Named(name)) \in Nat
      /\ Cardinality(Sessions) \in Nat
  <2>1. Creators(name) \subseteq Sessions
    BY DEF Creators
  <2>2. IsFiniteSet(Creators(name)) /\ IsFiniteSet(Named(name))
    BY <2>1, SessionsAssumption, FS_Subset DEF BoundInv
  <2> QED BY <2>2, SessionsAssumption, FS_CardinalityType
<1>5. CASE s \in Creators(name)
  <2>1. PICK r \in SchemaRow : tx[s].schemas = {r} /\ r.name = name
    BY <1>1, <1>5 DEF InsertedOK, Creators
  <2>2. Named(name)' = Named(name) \cup {r}
    BY <1>2, <2>1 DEF Named
  <2>3. /\ IsFiniteSet(Named(name) \cup {r})
        /\ Cardinality(Named(name) \cup {r}) <= Cardinality(Named(name)) + 1
    <3>1. /\ IsFiniteSet(Named(name) \cup {r})
          /\ Cardinality(Named(name) \cup {r}) =
                IF r \in Named(name) THEN Cardinality(Named(name))
                ELSE Cardinality(Named(name)) + 1
      BY <1>4, FS_AddElement
    <3> QED BY <1>4, <3>1
  <2>4. Cardinality(Creators(name) \ {s}) = Cardinality(Creators(name)) - 1
    BY <1>4, <1>5, FS_RemoveElement
  <2>5. Cardinality(Named(name) \cup {r}) \in Nat
    BY <2>3, FS_CardinalityType
  <2> QED BY <1>3, <1>4, <2>2, <2>3, <2>4, <2>5, LimitType DEF BoundInv
<1>6. CASE s \notin Creators(name)
  <2>1. Named(name)' = Named(name)
    <3>1. CASE tx[s].op = "create"
      <4>1. PICK r \in SchemaRow : tx[s].schemas = {r} /\ r.name = tx[s].name
        BY <1>1, <3>1 DEF InsertedOK
      <4>2. r.name # name
        BY <1>1, <1>6, <3>1, <4>1 DEF Creators
      <4> QED BY <1>2, <4>1, <4>2 DEF Named
    <3>2. CASE tx[s].op = "add_version"
      BY <1>1, <1>2, <3>2 DEF InsertedOK, Named
    <3> QED BY <1>1, <3>1, <3>2 DEF Tx
  <2>2. Creators(name)' = Creators(name)
    BY <1>3, <1>6
  <2> QED BY <1>4, <2>1, <2>2 DEF BoundInv
<1> QED BY <1>5, <1>6

LEMMA NextKeepsBound ==
    ASSUME NEW K \in Nat, RegistryInv, BoundInv(K), OverlapAtMost(K)', [Next]_vars
    PROVE  BoundInv(K)'
<1>1. ASSUME NEW s \in Sessions, NEW t, tx' = [tx EXCEPT ![s] = t], schemas' = schemas,
             t # IdleTx => tx[s] # IdleTx /\ t.op = tx[s].op /\ t.name = tx[s].name
      PROVE  BoundInv(K)'
  BY <1>1, CreatorsShrink, FewerCreators
<1>2. ASSUME NEW s \in Sessions, InsertSchema(s) PROVE BoundInv(K)'
  <2>1. tx[s] # IdleTx /\ tx[s].op = "create" /\ schemas' = schemas
    BY <1>2 DEF InsertSchema, IdleTx
  <2>2. PICK t \in Tx : /\ tx' = [tx EXCEPT ![s] = t]
                        /\ t.op = "create" /\ t.name = tx[s].name
    BY <1>2, InsertSchemaOK
  <2> QED BY <1>1, <2>1, <2>2
<1>3. ASSUME NEW s \in Sessions, InsertVersion(s) PROVE BoundInv(K)'
  <2>1. tx[s] # IdleTx /\ tx[s].op = "add_version" /\ schemas' = schemas
    BY <1>3 DEF InsertVersion, IdleTx
  <2>2. PICK t \in Tx : /\ tx' = [tx EXCEPT ![s] = t]
                        /\ t.op = "add_version" /\ t.name = tx[s].name
    BY <1>3, InsertVersionOK
  <2> QED BY <1>1, <2>1, <2>2
<1>4. ASSUME NEW s \in Sessions, FetchSchema(s) PROVE BoundInv(K)'
  <2>1. tx[s] # IdleTx /\ schemas' = schemas
    BY <1>4 DEF FetchSchema, IdleTx
  <2>2. PICK t \in Tx \cup {IdleTx} :
          /\ tx' = [tx EXCEPT ![s] = t]
          /\ t # IdleTx => t.op = tx[s].op /\ t.name = tx[s].name
    BY <1>4, FetchOK
  <2> QED BY <1>1, <2>1, <2>2
<1>5. ASSUME NEW s \in Sessions, Abort(s) PROVE BoundInv(K)'
  <2>1. tx' = [tx EXCEPT ![s] = IdleTx] /\ schemas' = schemas
    BY <1>5 DEF Abort
  <2> QED BY <1>1, <2>1
<1>6. CASE UNCHANGED vars
  BY <1>6 DEF vars, BoundInv, Named, Creators
<1> QED
  BY <1>2, <1>3, <1>4, <1>5, <1>6, BeginKeepsBound, CommitKeepsBound DEF Next, Reject

LEMMA BoundedRows ==
    ASSUME NEW K \in Nat, BoundInv(K)
    PROVE  RowsAtMost(K)
<1> SUFFICES ASSUME NEW name \in Names
             PROVE  Cardinality(Named(name)) <= Limit(K, name)
  BY DEF RowsAtMost
<1>1. Creators(name) \subseteq Sessions
  BY DEF Creators
<1>2. IsFiniteSet(Creators(name)) /\ IsFiniteSet(Named(name))
  BY <1>1, SessionsAssumption, FS_Subset DEF BoundInv
<1>3. Cardinality(Creators(name)) \in Nat /\ Cardinality(Named(name)) \in Nat
  BY <1>2, FS_CardinalityType
<1> QED BY <1>3, LimitType DEF BoundInv

\* A name, the seeded one aside, never has more rows than creations of it ever
\* overlapped, and the seeded one only its own row: whoever
\* limits the concurrency of creations to K, by workers, queues or locks, limits
\* the duplicates to K.
THEOREM OverlapBoundsRows ==
    ASSUME NEW K \in Nat
    PROVE  Spec /\ []OverlapAtMost(K) => []RowsAtMost(K)
<1>1. BoundInv(K) => RowsAtMost(K)
  BY BoundedRows
<1>2. RegistryInv /\ OverlapAtMost(K)' /\ BoundInv(K) /\ [Next]_vars => BoundInv(K)'
  BY NextKeepsBound
<1>3. Init => BoundInv(K)
  BY InitBound
<1> QED BY <1>1, <1>2, <1>3, SpecKeepsRegistry, PTL DEF Spec

\* A name never has more rows than there are sessions, and the seeded name
\* never gets a second one.
THEOREM DuplicatesAreBounded == Spec => []DuplicatesBounded
<1> DEFINE K == Cardinality(Sessions)
<1>1. K \in Nat
  BY SessionsAssumption, FS_CardinalityType
<1>2. OverlapAtMost(K)'
  <2> SUFFICES ASSUME NEW name \in Names
               PROVE  Cardinality(Creators(name)') <= Cardinality(Sessions)
    BY DEF OverlapAtMost
  <2>1. Creators(name)' \subseteq Sessions
    BY DEF Creators
  <2> QED BY <2>1, SessionsAssumption, FS_Subset
<1>3. BoundInv(K) => DuplicatesBounded
  BY <1>1, BoundedRows DEF RowsAtMost, DuplicatesBounded, Named
<1>4. RegistryInv /\ BoundInv(K) /\ [Next]_vars => BoundInv(K)'
  BY <1>1, <1>2, NextKeepsBound
<1>5. Init => BoundInv(K)
  BY <1>1, InitBound
<1> HIDE DEF K
<1> QED BY <1>3, <1>4, <1>5, SpecKeepsRegistry, PTL DEF Spec

\* Creations of one name that do not overlap are served: get_by_name never
\* finds two rows, whatever else runs at the same time.
THEOREM ApartNamesServed == Spec /\ []OverlapAtMost(1) => []NameServed
<1>1. BoundInv(1) => NameServed
  BY BoundedRows DEF RowsAtMost, NameServed, Named, Limit
<1>2. RegistryInv /\ OverlapAtMost(1)' /\ BoundInv(1) /\ [Next]_vars => BoundInv(1)'
  BY NextKeepsBound
<1>3. Init => BoundInv(1)
  BY InitBound
<1> QED BY <1>1, <1>2, <1>3, SpecKeepsRegistry, PTL DEF Spec

----------------------------------------------------------------------------
(* One request at a time: the checks are enough.                           *)

\* At most one session serves a request.
AloneInv == \A s, q \in Sessions : tx[s] # IdleTx /\ tx[q] # IdleTx => s = q

LEMMA StepKeepsAlone ==
    ASSUME Serial, TypeOK, AloneInv, [Next]_vars
    PROVE  AloneInv'
<1>1. CASE \A s \in Sessions : tx'[s] # IdleTx => tx[s] # IdleTx
  BY <1>1 DEF AloneInv
<1>2. ASSUME NEW s \in Sessions,
             InsertSchema(s) \/ FetchSchema(s) \/ InsertVersion(s) \/ Commit(s) \/ Abort(s)
      PROVE  \A q \in Sessions : tx'[q] # IdleTx => tx[q] # IdleTx
  <2>1. tx[s] # IdleTx
    BY <1>2 DEF InsertSchema, FetchSchema, InsertVersion, Commit, Abort, IdleTx
  <2>2. \A q \in Sessions \ {s} : tx'[q] = tx[q]
    BY <1>2 DEF InsertSchema, FetchSchema, InsertVersion, Commit, Abort, TypeOK
  <2> QED BY <2>1, <2>2
<1>3. ASSUME NEW s \in Sessions, NEW name, NEW version, BeginCreate(s, name, version)
      PROVE  AloneInv'
  <2>1. Busy = {} /\ \A q \in Sessions \ {s} : tx'[q] = tx[q]
    BY <1>3 DEF BeginCreate, TypeOK
  <2> QED BY <2>1 DEF AloneInv, Busy
<1>4. ASSUME NEW s \in Sessions, NEW name, NEW version, BeginAddVersion(s, name, version)
      PROVE  AloneInv'
  <2>1. Busy = {} /\ \A q \in Sessions \ {s} : tx'[q] = tx[q]
    BY <1>4 DEF BeginAddVersion, TypeOK
  <2> QED BY <2>1 DEF AloneInv, Busy
<1>5. CASE UNCHANGED vars
  BY <1>1, <1>5 DEF vars
<1> QED BY <1>1, <1>2, <1>3, <1>4, <1>5 DEF Next, Reject

\* When requests do not overlap, get_by_name never finds two rows.
THEOREM SerialNamesServed == Serial => (Spec => []NameServed)
<1> SUFFICES ASSUME Serial PROVE Spec => []NameServed
  OBVIOUS
<1>1. Init => AloneInv
  BY DEF Init, AloneInv
<1>2. TypeOK /\ AloneInv /\ [Next]_vars => AloneInv'
  BY StepKeepsAlone
<1>3. AloneInv => OverlapAtMost(1)
  <2> SUFFICES ASSUME AloneInv, NEW name \in Names PROVE Cardinality(Creators(name)) <= 1
    BY DEF OverlapAtMost
  <2>1. CASE Creators(name) = {}
    BY <2>1, FS_EmptySet
  <2>2. ASSUME NEW s \in Creators(name) PROVE Cardinality(Creators(name)) <= 1
    <3>1. Creators(name) = {s}
      BY <2>2 DEF AloneInv, Creators
    <3> QED BY <3>1, FS_Singleton
  <2> QED BY <2>1, <2>2
<1> QED BY <1>1, <1>2, <1>3, TypeCorrect, ApartNamesServed, PTL DEF Spec
=============================================================================
