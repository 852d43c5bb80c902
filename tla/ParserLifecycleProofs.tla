----------------------- MODULE ParserLifecycleProofs -----------------------
(* Theorems about ParserLifecycle for any number of sessions, parsers and   *)
(* users, any role assignment and any bound MaxStamp.                       *)
EXTENDS ParserLifecycle, TLAPS

\* What is known of a transaction in flight and of the row it works on: its
\* user is allowed the operation, the operation accepted the row it loaded, the row has not disappeared since,
\* and an approval that was loaded is still recorded.
TransactionOK(t, row) ==
    /\ Permitted(t.user, t.op)
    /\ Accepts(t.op, t.loaded)
    /\ t.version \in Arguments(t.op)
    /\ t.loaded # Absent => row # Absent
    /\ t.loaded.approved_by # NoUser => row.approved_by \in Approvers
    /\ t.op = "register" /\ t.pc # "loaded" => row = Absent
    /\ t.pc = "recorded" => /\ t.seen \in ParserStatus
                            /\ t.op # "update" => t.seen = After(t).status

TransactionsOK == \A r \in Requests : tx[r] \in Tx => TransactionOK(tx[r], parsers[tx[r].parser])

\* An approver's name, once there, is the only kind of name in approved_by.
ApproverNamed ==
    \A p \in Parsers : parsers[p].approved_by # NoUser => parsers[p].approved_by \in Approvers

\* A transaction that loaded an approved status loaded an approver's name.
LoadedApproved ==
    \A r \in Requests : tx[r] \in Tx /\ tx[r].loaded.status \in ApprovedStatus =>
        tx[r].loaded.approved_by # NoUser

\* The inductive invariant behind ApprovalRecorded.
ApprovalInv ==
    TypeOK /\ TransactionsOK /\ ApproverNamed /\ LoadedApproved /\ ApprovalRecorded

USE DEF ParserStatus

\* A transaction is either idle or a full record, told apart by its pc.
LEMMA IdleOrTx ==
    ASSUME NEW t \in Tx \cup {IdleTx}
    PROVE  (t \in Tx <=> t.pc # "idle") /\ (t = IdleTx <=> t.pc = "idle")
  BY DEF Tx, IdleTx

\* The object a handler builds is a full row, and every operation except the
\* metadata update gives it another status than the one it loaded.
LEMMA AfterIsRow ==
    ASSUME NEW t \in Tx, Permitted(t.user, t.op), Accepts(t.op, t.loaded),
           t.version \in Arguments(t.op)
    PROVE  /\ After(t) \in Row
           /\ t.op # "update" => After(t).status # t.loaded.status
           /\ t.op = "update" => /\ After(t).status = t.loaded.status
                                 /\ After(t).approved_by = t.loaded.approved_by
           /\ t.op = "approve" => After(t).approved_by = t.user /\ t.user \in Approvers
           /\ t.op \notin {"approve", "register"} => After(t).approved_by = t.loaded.approved_by
           /\ After(t).status \in ApprovedStatus =>
                 t.op = "approve" \/ t.loaded.status \in ApprovedStatus
           /\ t.op = "register" <=> t.loaded = Absent
           /\ t.op \in Lifecycle =>
                 <<t.loaded.status, After(t).status>> \in PARSER_TRANSITIONS
<1>1. CASE t.op = "register"
  BY <1>1, UsersAssumption, VersionsAssumption
     DEF Tx, Row, Absent, After, Accepts, Arguments, ApprovedStatus, Lifecycle
<1>2. CASE t.op = "update"
  BY <1>2, UsersAssumption, VersionsAssumption
     DEF Tx, Row, Absent, After, Accepts, Arguments, ApprovedStatus, Lifecycle
<1>3. CASE t.op \in Lifecycle
  <2>5. <<t.loaded.status, Target(t.op)>> \in PARSER_TRANSITIONS
    BY <1>3 DEF Accepts, Lifecycle
  <2>1. t.loaded \in Row
    <3>1. t.loaded.status # "NONE"
      BY <2>5 DEF PARSER_TRANSITIONS
    <3> QED BY <3>1 DEF Tx, Absent
  <2>2. After(t) = [t.loaded EXCEPT !.status = Target(t.op),
                       !.approved_by = IF t.op = "approve" THEN t.user ELSE @]
    BY <1>3 DEF After, Lifecycle
  <2>3. Target(t.op) \in ParserStatus /\ t.user \in Users
    BY <1>3 DEF Target, Lifecycle, Tx
  <2>4. /\ After(t) \in Row
        /\ After(t).status = Target(t.op)
        /\ After(t).approved_by = IF t.op = "approve" THEN t.user ELSE t.loaded.approved_by
    BY <2>1, <2>2, <2>3 DEF Row
  <2>6. t.op = "approve" => t.user \in Approvers
    BY <2>3 DEF Approvers
  <2>7. Target(t.op) # t.loaded.status
    BY <2>5 DEF PARSER_TRANSITIONS
  <2>8. Target(t.op) \in ApprovedStatus => t.op = "approve" \/ t.loaded.status \in ApprovedStatus
    BY <2>5, <1>3 DEF PARSER_TRANSITIONS, ApprovedStatus, Target, Lifecycle
  <2> QED
    BY <1>3, <2>1, <2>4, <2>5, <2>6, <2>7, <2>8 DEF Lifecycle, Absent, Row
<1> QED BY <1>1, <1>2, <1>3 DEF Tx, Operations

\* The row a commit writes: a full row whose status is the handler's, unless it
\* is a metadata update, which leaves the status that is there; approved_by
\* changes in approve only.
LEMMA WrittenIsRow ==
    ASSUME NEW t \in Tx, Permitted(t.user, t.op), Accepts(t.op, t.loaded),
           t.version \in Arguments(t.op),
           NEW row \in Row \cup {Absent},
           t.loaded # Absent => row # Absent,
           t.op = "register" => row = Absent
    PROVE  /\ Written(row, t) \in Row
           /\ Written(row, t).status = IF t.op = "update" THEN row.status ELSE After(t).status
           /\ t.op # "approve" => Written(row, t).approved_by = row.approved_by
           /\ t.op = "approve" =>
                 \/ Written(row, t).approved_by = t.user
                 \/ /\ Written(row, t).approved_by = row.approved_by
                    /\ t.loaded.approved_by = t.user
<1>1. /\ After(t) \in Row
      /\ t.op # "update" => After(t).status # t.loaded.status
      /\ t.op = "update" => /\ After(t).status = t.loaded.status
                            /\ After(t).approved_by = t.loaded.approved_by
      /\ t.op = "approve" => After(t).approved_by = t.user
      /\ t.op \notin {"approve", "register"} => After(t).approved_by = t.loaded.approved_by
      /\ t.op = "register" <=> t.loaded = Absent
  BY AfterIsRow
<1>2. CASE t.op = "register"
  <2>1. After(t) = [status |-> "DRAFT", version |-> t.version, approved_by |-> NoUser]
    BY <1>2 DEF After, Lifecycle
  <2>2. t.version \in Versions
    BY <1>2 DEF Arguments
  <2>3. t.loaded = Absent /\ row = Absent
    BY <1>1, <1>2
  <2>4. t.version # NoVersion
    BY <2>2, VersionsAssumption
  <2>5. Written(row, t) = [status |-> "DRAFT", version |-> t.version, approved_by |-> NoUser]
    BY <2>1, <2>3, <2>4 DEF Written, Absent
  <2> QED
    BY <1>2, <2>1, <2>2, <2>3, <2>5 DEF Row, Absent
<1>3. CASE t.op # "register"
  <2>1. t.loaded \in Row /\ row \in Row
    BY <1>1, <1>3 DEF Tx
  <2>2. /\ Written(row, t).status =
              IF After(t).status # t.loaded.status THEN After(t).status ELSE row.status
        /\ Written(row, t).approved_by =
              IF After(t).approved_by # t.loaded.approved_by
              THEN After(t).approved_by ELSE row.approved_by
        /\ Written(row, t) \in Row
    BY <1>1, <2>1 DEF Written, Row
  <2> QED
    BY <1>1, <1>3, <2>2
<1> QED BY <1>2, <1>3

\* Every initial state satisfies the invariant: seeded parsers are drafts
\* without an approver or active ones approved by the seeding superuser.
LEMMA InitApproval == Init => ApprovalInv
<1> SUFFICES ASSUME Init PROVE ApprovalInv
  OBVIOUS
<1>1. \A p \in Parsers : parsers[p] \in SeedRows
  BY DEF Init
<1>2. SeedAdmin \in Approvers /\ SeedAdmin \in Users
  BY UsersAssumption DEF Approvers, Permitted
<1>3. SeedRows \subseteq Row \cup {Absent}
  BY <1>2 DEF SeedRows, Row
<1>4. TypeOK
  BY <1>3 DEF Init, TypeOK
<1>5. \A r \in Requests : tx[r] \notin Tx
  BY DEF Init, IdleTx, Tx
<1>6. ApproverNamed /\ ApprovalRecorded
  BY <1>1, <1>2 DEF ApproverNamed, ApprovalRecorded, SeedRows, Absent, ApprovedStatus
<1> QED BY <1>4, <1>5, <1>6 DEF ApprovalInv, TransactionsOK, LoadedApproved

\* A step that only ends transactions, or leaves everything alone, keeps it.
LEMMA EndKeepsApproval ==
    ASSUME ApprovalInv, NEW r \in Requests, tx' = [tx EXCEPT ![r] = IdleTx],
           UNCHANGED <<parsers, parser_versions, audit_logs, clock>>
    PROVE  ApprovalInv'
<1>1. \A s \in Requests : tx'[s] \in Tx => tx'[s] = tx[s]
  BY DEF ApprovalInv, TypeOK, Tx, IdleTx
<1>2. TypeOK'
  BY DEF ApprovalInv, TypeOK
<1>3. TransactionsOK'
  BY <1>1 DEF ApprovalInv, TransactionsOK, TransactionOK
<1> QED
  BY <1>1, <1>2, <1>3 DEF ApprovalInv, ApproverNamed, LoadedApproved, ApprovalRecorded

\* Loading a row: what Begin checks is what TransactionOK asks.
LEMMA BeginKeepsApproval ==
    ASSUME ApprovalInv, NEW r \in Requests, NEW op \in Operations, NEW u \in Users,
           NEW p \in Parsers, Begin(r, op, u, p)
    PROVE  ApprovalInv'
<1>1. PICK v \in Arguments(op) :
         tx' = [tx EXCEPT ![r] =
                   [pc |-> "loaded", op |-> op, user |-> u, parser |-> p, version |-> v,
                    loaded |-> parsers[p], seen |-> "NONE", at |-> 0]]
  BY DEF Begin
<1> DEFINE t == [pc |-> "loaded", op |-> op, user |-> u, parser |-> p, version |-> v,
                 loaded |-> parsers[p], seen |-> "NONE", at |-> 0]
<1>2. t \in Tx
  BY DEF Tx, ApprovalInv, TypeOK, Arguments
<1>3. tx' = [tx EXCEPT ![r] = t]
  BY <1>1
<1>4. UNCHANGED <<parsers, parser_versions, audit_logs, clock>>
  BY DEF Begin
<1> HIDE DEF t
<1>5. TypeOK'
  BY <1>2, <1>3, <1>4 DEF ApprovalInv, TypeOK
<1>6. tx'[r] = t /\ \A s \in Requests \ {r} : tx'[s] = tx[s]
  BY <1>3 DEF ApprovalInv, TypeOK
<1>7. TransactionOK(t, parsers'[t.parser])
  <2>1. Permitted(u, op) /\ Accepts(op, parsers[p])
    BY DEF Begin
  <2> QED
    BY <1>1, <1>4, <2>1 DEF t, TransactionOK, ApprovalInv, ApproverNamed
<1>8. TransactionsOK'
  BY <1>4, <1>6, <1>7 DEF ApprovalInv, TransactionsOK, TransactionOK
<1>9. t.loaded.status \in ApprovedStatus => t.loaded.approved_by # NoUser
  BY UsersAssumption DEF t, ApprovalInv, ApprovalRecorded, Approvers
<1> QED
  BY <1>4, <1>5, <1>6, <1>8, <1>9
     DEF ApprovalInv, ApproverNamed, LoadedApproved, ApprovalRecorded

LEMMA FlushKeepsApproval ==
    ASSUME ApprovalInv, NEW r \in Requests, Flush(r)
    PROVE  ApprovalInv'
<1>1. tx[r] \in Tx /\ tx[r].pc = "loaded"
  BY IdleOrTx DEF ApprovalInv, TypeOK, Flush
<1> DEFINE t == [tx[r] EXCEPT !.pc = "flushed"]
<1>2. /\ tx' = [tx EXCEPT ![r] = t]
      /\ UNCHANGED <<parsers, parser_versions, audit_logs, clock>>
  BY DEF Flush
<1>3. /\ t \in Tx /\ t.pc = "flushed"
      /\ t.op = tx[r].op /\ t.user = tx[r].user /\ t.parser = tx[r].parser
      /\ t.version = tx[r].version /\ t.loaded = tx[r].loaded
  BY <1>1 DEF Tx
<1> HIDE DEF t
<1>4. TypeOK' /\ tx'[r] = t /\ \A s \in Requests \ {r} : tx'[s] = tx[s]
  BY <1>2, <1>3 DEF ApprovalInv, TypeOK
<1>5. t.op = "register" => parsers[t.parser] = Absent
  BY <1>3 DEF Flush
<1>6. TransactionOK(t, parsers'[t.parser])
  BY <1>1, <1>2, <1>3, <1>5 DEF ApprovalInv, TransactionsOK, TransactionOK
<1>7. TransactionsOK'
  BY <1>2, <1>4, <1>6 DEF ApprovalInv, TransactionsOK, TransactionOK
<1> QED
  BY <1>1, <1>2, <1>3, <1>4, <1>7
     DEF ApprovalInv, ApproverNamed, LoadedApproved, ApprovalRecorded

LEMMA RecordKeepsApproval ==
    ASSUME ApprovalInv, NEW r \in Requests, Record(r)
    PROVE  ApprovalInv'
<1>1. tx[r] \in Tx /\ tx[r].pc = "flushed"
  BY IdleOrTx DEF ApprovalInv, TypeOK, Record
<1>2. TransactionOK(tx[r], parsers[tx[r].parser])
  BY <1>1 DEF ApprovalInv, TransactionsOK
<1> DEFINE seen == IF tx[r].op = "update" THEN parsers[tx[r].parser].status
                                          ELSE After(tx[r]).status
           t == [tx[r] EXCEPT !.pc = "recorded", !.seen = seen, !.at = clock + 1]
<1>3. /\ tx' = [tx EXCEPT ![r] = t]
      /\ UNCHANGED <<parsers, parser_versions, audit_logs>>
      /\ clock' = clock + 1 /\ clock + 1 \in Nat
  BY DEF Record, ApprovalInv, TypeOK
<1>4. seen \in ParserStatus
  <2>1. CASE tx[r].op = "update"
    <3>1. tx[r].loaded # Absent
      BY <1>2, <2>1 DEF TransactionOK, Accepts, Lifecycle
    <3>2. parsers[tx[r].parser] \in Row
      BY <1>1, <1>2, <3>1 DEF TransactionOK, ApprovalInv, TypeOK, Tx
    <3> QED BY <2>1, <3>2 DEF Row
  <2>2. CASE tx[r].op # "update"
    <3>1. After(tx[r]) \in Row
      BY <1>1, <1>2, AfterIsRow DEF TransactionOK
    <3> QED BY <2>2, <3>1 DEF Row
  <2> QED BY <2>1, <2>2
<1>5. /\ t \in Tx /\ t.pc = "recorded" /\ t.seen = seen
      /\ t.op = tx[r].op /\ t.user = tx[r].user /\ t.parser = tx[r].parser
      /\ t.version = tx[r].version /\ t.loaded = tx[r].loaded
  BY <1>1, <1>3, <1>4 DEF Tx
<1> HIDE DEF t
<1>6. After(t) = After(tx[r])
  BY <1>5 DEF After
<1>7. TypeOK' /\ tx'[r] = t /\ \A s \in Requests \ {r} : tx'[s] = tx[s]
  BY <1>3, <1>5 DEF ApprovalInv, TypeOK
<1>8. TransactionOK(t, parsers'[t.parser])
  BY <1>1, <1>2, <1>3, <1>4, <1>5, <1>6 DEF TransactionOK
<1>9. TransactionsOK'
  BY <1>3, <1>7, <1>8 DEF ApprovalInv, TransactionsOK, TransactionOK
<1> QED
  BY <1>1, <1>3, <1>5, <1>7, <1>9
     DEF ApprovalInv, ApproverNamed, LoadedApproved, ApprovalRecorded

\* At most one transaction holds the lock of a row.
LockExclusive ==
    \A r, s \in Requests, p \in Parsers : Locks(tx[r], p) /\ Locks(tx[s], p) => r = s

\* Only Flush takes a lock, and it waits for the lock to be free.
LEMMA StepKeepsLocks ==
    ASSUME TypeOK, LockExclusive, [Next]_vars
    PROVE  LockExclusive'
<1>1. CASE UNCHANGED vars
  BY <1>1 DEF LockExclusive, vars, Locks
<1>2. ASSUME NEW r \in Requests, NEW op \in Operations, NEW u \in Users, NEW p \in Parsers,
             Begin(r, op, u, p)
      PROVE  LockExclusive'
  <2>1. tx'[r].pc = "loaded" /\ \A s \in Requests \ {r} : tx'[s] = tx[s]
    BY <1>2 DEF Begin, TypeOK
  <2> QED BY <2>1 DEF LockExclusive, Locks
<1>3. ASSUME NEW r \in Requests, Flush(r) PROVE LockExclusive'
  <2>1. tx[r] \in Tx
    BY <1>3, IdleOrTx DEF Flush, TypeOK
  <2>2. /\ \A s \in Requests \ {r} : tx'[s] = tx[s]
        /\ tx'[r].parser = tx[r].parser
        /\ tx'[r] = [tx[r] EXCEPT !.pc = "flushed"]
    BY <1>3, <2>1 DEF Flush, TypeOK, Tx
  <2>3. Dirty(tx'[r]) <=> Dirty(tx[r])
    <3>1. /\ tx'[r].op = tx[r].op /\ tx'[r].version = tx[r].version
          /\ tx'[r].loaded = tx[r].loaded /\ tx'[r].user = tx[r].user
      BY <2>1, <2>2 DEF Tx
    <3> QED BY <3>1 DEF Dirty, After
  <2>4. \A p \in Parsers : Locks(tx'[r], p) =>
          \A s \in Requests \ {r} : ~Locks(tx[s], p)
    BY <1>3, <2>2, <2>3 DEF Locks, Flush, RowFree
  <2> QED BY <2>2, <2>4 DEF LockExclusive
<1>4. ASSUME NEW r \in Requests, Record(r) PROVE LockExclusive'
  <2>1. tx[r] \in Tx /\ tx[r].pc = "flushed"
    BY <1>4, IdleOrTx DEF Record, TypeOK
  <2>2. /\ \A s \in Requests \ {r} : tx'[s] = tx[s]
        /\ tx'[r].op = tx[r].op /\ tx'[r].version = tx[r].version
        /\ tx'[r].loaded = tx[r].loaded /\ tx'[r].user = tx[r].user
        /\ tx'[r].parser = tx[r].parser
    BY <1>4, <2>1 DEF Record, TypeOK, Tx
  <2>3. Dirty(tx'[r]) <=> Dirty(tx[r])
    BY <2>2 DEF Dirty, After
  <2>4. \A p \in Parsers : Locks(tx'[r], p) => Locks(tx[r], p)
    BY <2>1, <2>2, <2>3 DEF Locks
  <2> QED BY <2>2, <2>4 DEF LockExclusive
<1>5. ASSUME NEW r \in Requests, tx' = [tx EXCEPT ![r] = IdleTx] PROVE LockExclusive'
  <2>1. tx'[r].pc = "idle" /\ \A s \in Requests \ {r} : tx'[s] = tx[s]
    BY <1>5 DEF TypeOK, IdleTx
  <2> QED BY <2>1 DEF LockExclusive, Locks
<1> QED
  BY <1>1, <1>2, <1>3, <1>4, <1>5
     DEF Next, Progress, ViolateUnique, Commit, Abort, Reject

\* Committing: the row stays approved, for the transactions still in flight too.
LEMMA CommitKeepsApproval ==
    ASSUME ApprovalInv, LockExclusive, NEW r \in Requests, Commit(r)
    PROVE  ApprovalInv'
<1> DEFINE t == tx[r]
           p == t.parser
           new == Written(parsers[p], t)
<1>1. t \in Tx /\ t.pc = "recorded" /\ p \in Parsers
  BY IdleOrTx DEF ApprovalInv, TypeOK, Commit, Tx
<1>2. TransactionOK(t, parsers[p])
  BY <1>1 DEF ApprovalInv, TransactionsOK
<1>3. parsers[p] \in Row \cup {Absent}
  BY <1>1 DEF ApprovalInv, TypeOK
<1>4. /\ new \in Row
      /\ new.status = IF t.op = "update" THEN parsers[p].status ELSE After(t).status
      /\ t.op # "approve" => new.approved_by = parsers[p].approved_by
      /\ t.op = "approve" =>
            \/ new.approved_by = t.user
            \/ new.approved_by = parsers[p].approved_by /\ t.loaded.approved_by = t.user
  BY <1>1, <1>2, <1>3, WrittenIsRow DEF TransactionOK
<1>5. /\ After(t) \in Row
      /\ t.op = "approve" => t.user \in Approvers
      /\ After(t).status \in ApprovedStatus => t.op = "approve" \/ t.loaded.status \in ApprovedStatus
      /\ t.op = "register" <=> t.loaded = Absent
  BY <1>1, <1>2, AfterIsRow DEF TransactionOK
<1>6. /\ parsers' = [parsers EXCEPT ![p] = new]
      /\ parser_versions' = [parser_versions EXCEPT ![p] = @ \cup AddedVersions(t)]
      /\ audit_logs' = audit_logs \cup {AuditEntry(t)}
      /\ tx' = [tx EXCEPT ![r] = IdleTx]
      /\ clock' = clock
  BY DEF Commit
<1>7. AddedVersions(t) \subseteq VersionRow /\ AuditEntry(t) \in AuditRow
  <2>1. AddedVersions(t) \subseteq VersionRow
    BY <1>1, <1>5 DEF AddedVersions, VersionRow, Row, Tx
  <2>2. AuditEntry(t) \in AuditRow
    BY <1>1, <1>2 DEF AuditEntry, AuditRow, TransactionOK, Tx, Row, Absent
  <2> QED BY <2>1, <2>2
<1> HIDE DEF t, p, new
<1>8. TypeOK'
  BY <1>1, <1>4, <1>6, <1>7 DEF ApprovalInv, TypeOK
<1>9. parsers'[p] = new /\ \A q \in Parsers \ {p} : parsers'[q] = parsers[q]
  BY <1>1, <1>6 DEF ApprovalInv, TypeOK
<1>10. \A s \in Requests : tx'[s] \in Tx => s # r /\ tx'[s] = tx[s]
  BY <1>6 DEF ApprovalInv, TypeOK, Tx, IdleTx
<1>11. parsers[p].approved_by \in Approvers => new.approved_by \in Approvers
  BY <1>4, <1>5
<1>12. new.status \in ApprovedStatus => new.approved_by \in Approvers
  <2>1. t.loaded.status \in ApprovedStatus => parsers[p].approved_by \in Approvers
    BY <1>1, <1>2 DEF TransactionOK, ApprovalInv, LoadedApproved, t
  <2>2. t.op = "approve" => new.approved_by \in Approvers
    <3>1. t.op = "approve" /\ t.loaded.approved_by = t.user => parsers[p].approved_by \in Approvers
      BY <1>1, <1>2, UsersAssumption DEF TransactionOK, Tx
    <3> QED BY <1>4, <1>5, <3>1
  <2>3. parsers[p].status \in ApprovedStatus => parsers[p].approved_by \in Approvers
    BY <1>1 DEF ApprovalInv, ApprovalRecorded
  <2> QED BY <1>4, <1>5, <1>11, <2>1, <2>2, <2>3
<1>13. new.approved_by # NoUser => new.approved_by \in Approvers
  BY <1>1, <1>4, <1>5, <1>11 DEF ApprovalInv, ApproverNamed
<1>14. ASSUME NEW s \in Requests, tx'[s] \in Tx
       PROVE  TransactionOK(tx'[s], parsers'[tx'[s].parser])
  <2>1. TransactionOK(tx[s], parsers[tx[s].parser]) /\ tx'[s] = tx[s] /\ s # r
    BY <1>10, <1>14 DEF ApprovalInv, TransactionsOK
  <2>2. CASE tx[s].parser # p
    BY <1>9, <1>14, <2>1, <2>2 DEF Tx
  <2>3. CASE tx[s].parser = p
    <3>1. new # Absent
      BY <1>4 DEF Row, Absent
    <3>2. ~(tx[s].op = "register" /\ tx[s].pc # "loaded")
      <4> SUFFICES ASSUME tx[s].op = "register", tx[s].pc # "loaded" PROVE FALSE
        OBVIOUS
      <4>1. parsers[p] = Absent
        BY <2>1, <2>3 DEF TransactionOK
      <4>2. t.op = "register"
        BY <1>2, <1>5, <4>1 DEF TransactionOK
      <4>3. Dirty(t) /\ Dirty(tx[s])
        BY <1>1, <1>2, <1>14, <2>1, <4>2, AfterIsRow DEF TransactionOK, Dirty
      <4>4. Locks(t, p) /\ Locks(tx[s], p)
        BY <1>1, <1>14, <2>1, <2>3, <4>3 DEF Locks, Tx, p
      <4> QED BY <1>1, <2>1, <4>4 DEF LockExclusive, t
    <3> QED
      BY <1>9, <1>11, <2>1, <2>3, <3>1, <3>2 DEF TransactionOK
  <2> QED BY <2>2, <2>3
<1> QED
  BY <1>8, <1>9, <1>10, <1>12, <1>13, <1>14
     DEF ApprovalInv, TransactionsOK, ApproverNamed, LoadedApproved, ApprovalRecorded

\* The inductive invariant of the whole module.
LEMMA StepKeepsApproval ==
    ASSUME ApprovalInv, LockExclusive, [Next]_vars
    PROVE  ApprovalInv' /\ LockExclusive'
<1>1. LockExclusive'
  BY StepKeepsLocks DEF ApprovalInv
<1>2. ApprovalInv'
  <2>1. CASE UNCHANGED vars
    BY <2>1 DEF vars, ApprovalInv, TypeOK, TransactionsOK, ApproverNamed, LoadedApproved,
                ApprovalRecorded
  <2>2. ASSUME NEW r \in Requests, ViolateUnique(r) \/ Abort(r) PROVE ApprovalInv'
    BY <2>2, EndKeepsApproval DEF ViolateUnique, Abort
  <2> QED
    BY <2>1, <2>2, BeginKeepsApproval, FlushKeepsApproval, RecordKeepsApproval,
       CommitKeepsApproval DEF Next, Progress, Reject
<1> QED BY <1>1, <1>2

LEMMA ApprovalInvariant == Spec => [](ApprovalInv /\ LockExclusive)
<1>1. Init => ApprovalInv /\ LockExclusive
  <2>1. Init => LockExclusive
    BY DEF Init, LockExclusive, Locks, IdleTx
  <2> QED BY <2>1, InitApproval
<1>2. ApprovalInv /\ LockExclusive /\ [Next]_vars => (ApprovalInv /\ LockExclusive)'
  BY StepKeepsApproval
<1> QED BY <1>1, <1>2, PTL DEF Spec

\* Rows, history, audit rows and transactions keep their shape.
THEOREM TypeCorrect == Spec => []TypeOK
BY ApprovalInvariant, PTL DEF ApprovalInv

\* No parser is approved, active, disabled or rolled back without the name of a
\* user who may approve, however requests interleave.
THEOREM ParsersAreApproved == Spec => []ApprovalRecorded
BY ApprovalInvariant, PTL DEF ApprovalInv

----------------------------------------------------------------------------
(* History and audit.                                                      *)

Recorded(r) == tx[r] \in Tx /\ tx[r].pc = "recorded"

\* No stamp is ahead of the clock.
StampsPast ==
    /\ \A p \in Parsers : \A v \in parser_versions[p] : v.at <= clock
    /\ \A e \in audit_logs : e.at <= clock
    /\ \A r \in Requests : Recorded(r) => tx[r].at <= clock

\* A stamp that is about to be committed is nobody else's.
StampsDistinct ==
    \A r \in Requests : Recorded(r) =>
        /\ \A e \in audit_logs : e.at # tx[r].at
        /\ \A s \in Requests \ {r} : Recorded(s) => tx[s].at # tx[r].at

\* The history row of a transaction that holds the parser's lock is newer than
\* every committed one: nobody else commits history under that lock.
HistoryBeforeHolder ==
    \A r \in Requests : Recorded(r) /\ tx[r].op # "update" =>
        \A v \in parser_versions[tx[r].parser] : v.at < tx[r].at

\* A parser with a registration in the audit log exists.
RegisteredExists ==
    \A e \in audit_logs : e.action = "register" => parsers[e.parser] # Absent

HistoryInv ==
    /\ StampsPast /\ StampsDistinct /\ HistoryBeforeHolder /\ RegisteredExists
    /\ HistoryEndsAtStatus /\ RegisteredOnce

\* Steps that commit nothing and record nothing.
LEMMA PrivateKeepsHistory ==
    ASSUME ApprovalInv, HistoryInv, UNCHANGED <<parsers, parser_versions, audit_logs, clock>>,
           \A r \in Requests : Recorded(r)' => Recorded(r) /\ tx'[r] = tx[r]
    PROVE  HistoryInv'
  BY DEF HistoryInv, StampsPast, StampsDistinct, HistoryBeforeHolder, RegisteredExists,
         HistoryEndsAtStatus, RegisteredOnce

LEMMA RecordKeepsHistory ==
    ASSUME ApprovalInv, HistoryInv, NEW r \in Requests, Record(r)
    PROVE  HistoryInv'
<1>1. tx[r] \in Tx
  BY IdleOrTx DEF ApprovalInv, TypeOK, Record
<1>2. /\ UNCHANGED <<parsers, parser_versions, audit_logs>> /\ clock' = clock + 1
      /\ \A s \in Requests \ {r} : tx'[s] = tx[s]
      /\ tx'[r].at = clock + 1 /\ tx'[r].parser = tx[r].parser /\ tx'[r].op = tx[r].op
  BY <1>1 DEF Record, ApprovalInv, TypeOK, Tx
<1>3. \A s \in Requests \ {r} : Recorded(s)' <=> Recorded(s)
  BY <1>2 DEF Recorded
<1>4. clock \in Nat /\ \A p \in Parsers : \A v \in parser_versions[p] : v.at \in Nat
  BY DEF ApprovalInv, TypeOK, VersionRow
<1>5. \A e \in audit_logs : e.at \in Nat
  BY DEF ApprovalInv, TypeOK, AuditRow
<1>6. \A s \in Requests : Recorded(s) => tx[s].at \in Nat
  BY DEF Recorded, Tx
<1>7. tx[r].parser \in Parsers
  BY <1>1 DEF Tx
<1>8. StampsPast'
  BY <1>2, <1>3, <1>4, <1>5, <1>6 DEF HistoryInv, StampsPast
<1>9. StampsDistinct'
  BY <1>2, <1>3, <1>4, <1>5, <1>6 DEF HistoryInv, StampsPast, StampsDistinct
<1>10. HistoryBeforeHolder'
  BY <1>2, <1>3, <1>4, <1>7 DEF HistoryInv, StampsPast, HistoryBeforeHolder
<1> QED
  BY <1>2, <1>8, <1>9, <1>10 DEF HistoryInv, RegisteredExists, HistoryEndsAtStatus, RegisteredOnce

\* What a commit writes, in one place.
LEMMA CommitEffect ==
    ASSUME ApprovalInv, NEW r \in Requests, Commit(r)
    PROVE  /\ Recorded(r) /\ tx[r].parser \in Parsers /\ tx[r].at \in Nat
           /\ TransactionOK(tx[r], parsers[tx[r].parser])
           /\ parsers'[tx[r].parser].status =
                 IF tx[r].op = "update" THEN parsers[tx[r].parser].status ELSE tx[r].seen
           /\ tx[r].op # "approve" =>
                 parsers'[tx[r].parser].approved_by = parsers[tx[r].parser].approved_by
           /\ parsers'[tx[r].parser] # Absent
           /\ tx[r].op # "update" => Dirty(tx[r])
           /\ tx[r].op = "register" => parsers[tx[r].parser] = Absent
           /\ \A q \in Parsers \ {tx[r].parser} : parsers'[q] = parsers[q]
           /\ \A q \in Parsers \ {tx[r].parser} : parser_versions'[q] = parser_versions[q]
           /\ parser_versions'[tx[r].parser] =
                 parser_versions[tx[r].parser] \cup AddedVersions(tx[r])
           /\ audit_logs' = audit_logs \cup {AuditEntry(tx[r])}
           /\ \A s \in Requests : Recorded(s)' => s # r /\ Recorded(s) /\ tx'[s] = tx[s]
           /\ clock' = clock
<1>1. tx[r] \in Tx /\ tx[r].pc = "recorded"
  BY IdleOrTx DEF ApprovalInv, TypeOK, Commit
<1>2. TransactionOK(tx[r], parsers[tx[r].parser]) /\ tx[r].parser \in Parsers
  BY <1>1 DEF ApprovalInv, TransactionsOK, Tx
<1>3. parsers[tx[r].parser] \in Row \cup {Absent}
  BY <1>2 DEF ApprovalInv, TypeOK
<1>4. /\ Written(parsers[tx[r].parser], tx[r]) \in Row
      /\ Written(parsers[tx[r].parser], tx[r]).status =
            IF tx[r].op = "update" THEN parsers[tx[r].parser].status ELSE After(tx[r]).status
      /\ tx[r].op # "approve" => Written(parsers[tx[r].parser], tx[r]).approved_by =
            parsers[tx[r].parser].approved_by
  BY <1>1, <1>2, <1>3, WrittenIsRow DEF TransactionOK
<1>5. tx[r].op # "update" => Dirty(tx[r]) /\ tx[r].seen = After(tx[r]).status
  BY <1>1, <1>2, AfterIsRow DEF TransactionOK, Dirty
<1>6. tx[r].op = "register" => parsers[tx[r].parser] = Absent
  BY <1>1, <1>2 DEF TransactionOK
<1>7. /\ parsers'[tx[r].parser] = Written(parsers[tx[r].parser], tx[r])
      /\ \A q \in Parsers \ {tx[r].parser} : parsers'[q] = parsers[q]
      /\ \A q \in Parsers \ {tx[r].parser} : parser_versions'[q] = parser_versions[q]
      /\ parser_versions'[tx[r].parser] = parser_versions[tx[r].parser] \cup AddedVersions(tx[r])
  BY <1>2 DEF Commit, ApprovalInv, TypeOK
<1>8. \A s \in Requests : Recorded(s)' => s # r /\ Recorded(s) /\ tx'[s] = tx[s]
  BY DEF Commit, ApprovalInv, TypeOK, Recorded, Tx, IdleTx
<1>9. Written(parsers[tx[r].parser], tx[r]) # Absent
  BY <1>4 DEF Row, Absent
<1> QED
  BY <1>1, <1>2, <1>4, <1>5, <1>6, <1>7, <1>8, <1>9 DEF Commit, Recorded, Tx

LEMMA CommitKeepsHistory ==
    ASSUME ApprovalInv, LockExclusive, HistoryInv, NEW r \in Requests, Commit(r)
    PROVE  HistoryInv'
<1> DEFINE t == tx[r]
           p == t.parser
<1>1. /\ Recorded(r) /\ p \in Parsers /\ t.at \in Nat
      /\ parsers'[p].status = IF t.op = "update" THEN parsers[p].status ELSE t.seen
      /\ parsers'[p] # Absent
      /\ t.op # "update" => Dirty(t) /\ t.seen = After(t).status
      /\ t.op = "register" => parsers[p] = Absent
      /\ \A q \in Parsers \ {p} : parsers'[q] = parsers[q]
      /\ \A q \in Parsers \ {p} : parser_versions'[q] = parser_versions[q]
      /\ parser_versions'[p] = parser_versions[p] \cup AddedVersions(t)
      /\ audit_logs' = audit_logs \cup {AuditEntry(t)}
      /\ \A s \in Requests : Recorded(s)' => s # r /\ Recorded(s) /\ tx'[s] = tx[s]
      /\ clock' = clock
  BY CommitEffect DEF TransactionOK, Recorded
<1>2. t.at <= clock
  BY <1>1 DEF HistoryInv, StampsPast
<1>3. \A v \in AddedVersions(t) : t.op # "update" /\ v.at = t.at /\ v.status = After(t).status
  BY DEF AddedVersions
<1>4. AuditEntry(t).at = t.at /\ AuditEntry(t).action = t.op /\ AuditEntry(t).parser = p
  BY DEF AuditEntry
<1>5. \A q \in Parsers : \A v \in parser_versions[q] : v.at \in Nat
  BY DEF ApprovalInv, TypeOK, VersionRow
<1> HIDE DEF t, p
<1>6. StampsPast'
  BY <1>1, <1>2, <1>3, <1>4 DEF HistoryInv, StampsPast
<1>7. StampsDistinct'
  BY <1>1, <1>4 DEF HistoryInv, StampsDistinct, t
<1>8. HistoryBeforeHolder'
  <2> SUFFICES ASSUME NEW s \in Requests, Recorded(s)', tx'[s].op # "update",
                      NEW v \in parser_versions'[tx'[s].parser]
               PROVE  v.at < tx'[s].at
    BY DEF HistoryBeforeHolder
  <2>1. s # r /\ Recorded(s) /\ tx'[s] = tx[s]
    BY <1>1
  <2>2. TransactionOK(tx[s], parsers[tx[s].parser]) /\ tx[s].parser \in Parsers
    BY <2>1 DEF Recorded, ApprovalInv, TransactionsOK, Tx
  <2>3. Locks(tx[s], tx[s].parser)
    BY <2>1, <2>2, AfterIsRow DEF Locks, Recorded, TransactionOK, Dirty
  <2>4. CASE tx[s].parser = p /\ t.op # "update"
    <3>1. Locks(t, p)
      BY <1>1, <2>4 DEF Locks, Recorded, t, p
    <3> QED BY <1>1, <2>1, <2>3, <2>4, <3>1 DEF LockExclusive, t
  <2>5. CASE ~(tx[s].parser = p /\ t.op # "update")
    <3>1. v \in parser_versions[tx[s].parser]
      BY <1>1, <1>3, <2>1, <2>2, <2>5
    <3> QED BY <2>1, <3>1 DEF HistoryInv, HistoryBeforeHolder
  <2> QED BY <2>4, <2>5
<1>9. RegisteredExists'
  BY <1>1, <1>4 DEF HistoryInv, RegisteredExists, ApprovalInv, TypeOK, AuditRow
<1>10. RegisteredOnce'
  BY <1>1, <1>4 DEF HistoryInv, RegisteredOnce, RegisteredExists
<1>11. HistoryEndsAtStatus'
  <2> SUFFICES ASSUME NEW q \in Parsers, NEW v \in parser_versions'[q],
                      \A w \in parser_versions'[q] : w.at <= v.at
               PROVE  v.status = parsers'[q].status
    BY DEF HistoryEndsAtStatus
  <2>1. CASE q # p
    BY <1>1, <2>1 DEF HistoryInv, HistoryEndsAtStatus
  <2>2. CASE q = p /\ t.op = "update"
    <3>1. parser_versions'[q] = parser_versions[q]
      BY <1>1, <1>3, <2>2
    <3> QED BY <1>1, <2>2, <3>1 DEF HistoryInv, HistoryEndsAtStatus
  <2>3. CASE q = p /\ t.op # "update"
    <3>1. \A w \in parser_versions[p] : w.at < t.at
      BY <1>1, <2>3 DEF HistoryInv, HistoryBeforeHolder, t, p
    <3>2. PICK w \in AddedVersions(t) : w.at = t.at
      BY <2>3 DEF AddedVersions
    <3>3. v \in AddedVersions(t)
      BY <1>1, <1>5, <2>3, <3>1, <3>2
    <3> QED BY <1>1, <1>3, <2>3, <3>3
  <2> QED BY <2>1, <2>2, <2>3
<1> QED
  BY <1>6, <1>7, <1>8, <1>9, <1>10, <1>11 DEF HistoryInv

\* The inductive invariant of history and audit.
LEMMA StepKeepsHistory ==
    ASSUME ApprovalInv, LockExclusive, HistoryInv, [Next]_vars
    PROVE  HistoryInv'
<1>1. CASE UNCHANGED vars
  BY <1>1, PrivateKeepsHistory DEF vars, Recorded
<1>2. ASSUME NEW r \in Requests, NEW op \in Operations, NEW u \in Users, NEW p \in Parsers,
             Begin(r, op, u, p)
      PROVE  HistoryInv'
  <2>1. \A s \in Requests : Recorded(s)' => Recorded(s) /\ tx'[s] = tx[s]
    BY <1>2 DEF Begin, ApprovalInv, TypeOK, Recorded
  <2> QED BY <1>2, <2>1, PrivateKeepsHistory DEF Begin
<1>3. ASSUME NEW r \in Requests, Flush(r) PROVE HistoryInv'
  <2>1. tx[r] \in Tx
    BY <1>3, IdleOrTx DEF ApprovalInv, TypeOK, Flush
  <2>2. tx'[r].pc = "flushed" /\ \A s \in Requests \ {r} : tx'[s] = tx[s]
    BY <1>3, <2>1 DEF Flush, ApprovalInv, TypeOK, Tx
  <2>3. \A s \in Requests : Recorded(s)' => Recorded(s) /\ tx'[s] = tx[s]
    BY <2>2 DEF Recorded
  <2> QED BY <1>3, <2>3, PrivateKeepsHistory DEF Flush
<1>4. ASSUME NEW r \in Requests, ViolateUnique(r) \/ Abort(r) PROVE HistoryInv'
  <2>1. \A s \in Requests : Recorded(s)' => Recorded(s) /\ tx'[s] = tx[s]
    BY <1>4 DEF ViolateUnique, Abort, ApprovalInv, TypeOK, Recorded, Tx, IdleTx
  <2> QED BY <1>4, <2>1, PrivateKeepsHistory DEF ViolateUnique, Abort
<1> QED
  BY <1>1, <1>2, <1>3, <1>4, RecordKeepsHistory, CommitKeepsHistory
     DEF Next, Progress, Reject, vars

LEMMA HistoryInvariant == Spec => []HistoryInv
<1>1. Init => HistoryInv
  <2> SUFFICES ASSUME Init PROVE HistoryInv
    OBVIOUS
  <2>1. \A r \in Requests : ~Recorded(r)
    BY DEF Init, Recorded, IdleTx
  <2> QED
    BY <2>1 DEF Init, HistoryInv, StampsPast, StampsDistinct, HistoryBeforeHolder,
            RegisteredExists, HistoryEndsAtStatus, RegisteredOnce
<1>2. ApprovalInv /\ LockExclusive /\ HistoryInv /\ [Next]_vars => HistoryInv'
  BY StepKeepsHistory
<1> QED BY <1>1, <1>2, ApprovalInvariant, PTL DEF Spec

\* The newest history row of a parser shows its current status: the history is
\* stamped and written under the lock that the status UPDATE took.
THEOREM HistoryIsCurrent == Spec => []HistoryEndsAtStatus
BY HistoryInvariant, PTL DEF HistoryInv

\* A parser identifier is registered at most once.
THEOREM RegistrationIsUnique == Spec => []RegisteredOnce
BY HistoryInvariant, PTL DEF HistoryInv

\* Only a commit changes rows, history or the audit log.
LEMMA OnlyCommitPublishes ==
    ASSUME [Next]_vars
    PROVE  UNCHANGED <<parsers, parser_versions, audit_logs>> \/ \E r \in Requests : Commit(r)
  BY ZenonT(60) DEF Next, Progress, Begin, Reject, Flush, ViolateUnique, Record, Abort, vars

\* Every status change is committed together with an audit row that shows it.
THEOREM AuditFollowsStatus == Spec => StatusChangesAudited
<1>1. ASSUME ApprovalInv, HistoryInv, [Next]_vars,
             NEW p \in Parsers, parsers'[p].status # parsers[p].status
      PROVE  \E e \in audit_logs' \ audit_logs :
                e.parser = p /\ e.after = parsers'[p].status /\ Permitted(e.actor, e.action)
  <2>1. PICK r \in Requests : Commit(r)
    BY <1>1, OnlyCommitPublishes
  <2>2. p = tx[r].parser /\ tx[r].op # "update" /\ parsers'[p].status = tx[r].seen
    BY <1>1, <2>1, CommitEffect
  <2>3. AuditEntry(tx[r]) \in audit_logs' \ audit_logs
    BY <1>1, <2>1, CommitEffect DEF HistoryInv, StampsDistinct, AuditEntry
  <2>4. Permitted(tx[r].user, tx[r].op)
    BY <1>1, <2>1, CommitEffect DEF TransactionOK
  <2> QED BY <2>2, <2>3, <2>4 DEF AuditEntry
<1>2. ApprovalInv /\ HistoryInv /\ [Next]_vars =>
        [\A p \in Parsers :
          parsers'[p].status # parsers[p].status =>
             \E e \in audit_logs' \ audit_logs :
                /\ e.parser = p
                /\ e.after = parsers'[p].status
                /\ Permitted(e.actor, e.action)]_vars
  BY <1>1
<1> QED BY <1>2, ApprovalInvariant, HistoryInvariant, PTL DEF Spec, StatusChangesAudited

\* A metadata update never undoes a lifecycle operation that it overlapped.
THEOREM UpdatesKeepLifecycle == Spec => UpdateKeepsLifecycle
<1>1. ASSUME ApprovalInv, [Next]_vars, NEW e \in audit_logs' \ audit_logs, e.action = "update"
      PROVE  /\ parsers'[e.parser].status = parsers[e.parser].status
             /\ parsers'[e.parser].approved_by = parsers[e.parser].approved_by
  <2>1. PICK r \in Requests : Commit(r)
    BY <1>1, OnlyCommitPublishes
  <2>2. e = AuditEntry(tx[r])
    BY <1>1, <2>1, CommitEffect
  <2>3. tx[r].op = "update" /\ tx[r].parser = e.parser
    BY <1>1, <2>2 DEF AuditEntry
  <2> QED BY <1>1, <2>1, <2>3, CommitEffect
<1>2. ApprovalInv /\ [Next]_vars =>
        [\A e \in audit_logs' \ audit_logs :
          e.action = "update" =>
             /\ parsers'[e.parser].status = parsers[e.parser].status
             /\ parsers'[e.parser].approved_by = parsers[e.parser].approved_by]_vars
  BY <1>1
<1> QED BY <1>2, ApprovalInvariant, PTL DEF Spec, UpdateKeepsLifecycle

----------------------------------------------------------------------------
(* Where requests do not overlap, the lifecycle state machine is what happens. *)

\* Request r is under way with one of ops on parser p.
Acts(r, p, ops) == tx[r] \in Tx /\ tx[r].op \in ops /\ tx[r].parser = p

\* No two lifecycle requests are under way on one parser.
LifecycleAlone ==
    \A p \in Parsers : \A r, s \in Requests :
        Acts(r, p, Lifecycle) /\ Acts(s, p, Lifecycle) => r = s

\* No lifecycle request is under way on a parser together with another one or
\* with an update of its metadata.
LifecycleApart ==
    \A p \in Parsers : \A r, s \in Requests :
        Acts(r, p, Lifecycle) /\ Acts(s, p, Lifecycle \cup {"update"}) => r = s

\* What a lifecycle request has loaded is still the parser's status ...
FreshStatus ==
    \A r \in Requests : \A p \in Parsers :
        Acts(r, p, Lifecycle) => tx[r].loaded.status = parsers[p].status

\* ... or its whole row.
FreshRow ==
    \A r \in Requests : \A p \in Parsers :
        Acts(r, p, Lifecycle) => tx[r].loaded = parsers[p]

\* A request under way has loaded its row just now, or loaded it before and
\* nobody else has committed since.
LEMMA RequestStep ==
    ASSUME TypeOK, [Next]_vars, NEW r \in Requests, tx'[r] \in Tx
    PROVE  \/ tx'[r].loaded = parsers[tx'[r].parser] /\ parsers' = parsers
           \/ /\ tx[r] \in Tx
              /\ tx'[r].op = tx[r].op /\ tx'[r].parser = tx[r].parser
              /\ tx'[r].loaded = tx[r].loaded
              /\ parsers' = parsers \/ \E s \in Requests \ {r} : Commit(s)
<1>1. CASE UNCHANGED vars
  BY <1>1 DEF vars
<1>2. ASSUME NEW s \in Requests, NEW op \in Operations, NEW u \in Users, NEW p \in Parsers,
             Begin(s, op, u, p)
      PROVE  \/ tx'[r].loaded = parsers[tx'[r].parser] /\ parsers' = parsers
             \/ tx'[r] = tx[r] /\ parsers' = parsers
  BY <1>2 DEF Begin, TypeOK
<1>3. ASSUME NEW s \in Requests, Flush(s) \/ Record(s)
      PROVE  /\ tx[r] \in Tx /\ parsers' = parsers
             /\ tx'[r].op = tx[r].op /\ tx'[r].parser = tx[r].parser
             /\ tx'[r].loaded = tx[r].loaded
  <2>1. tx[s] \in Tx
    BY <1>3, IdleOrTx DEF TypeOK, Flush, Record
  <2>2. CASE Flush(s)
    BY <2>1, <2>2 DEF TypeOK, Flush, Tx
  <2>3. CASE Record(s)
    BY <2>1, <2>3 DEF TypeOK, Record, Tx
  <2> QED BY <1>3, <2>2, <2>3
<1>4. ASSUME NEW s \in Requests, ViolateUnique(s) \/ Abort(s)
      PROVE  tx'[r] = tx[r] /\ parsers' = parsers
  BY <1>4 DEF ViolateUnique, Abort, TypeOK, Tx, IdleTx
<1>5. ASSUME NEW s \in Requests, Commit(s)
      PROVE  s # r /\ tx'[r] = tx[r]
  BY <1>5 DEF Commit, TypeOK, Tx, IdleTx
<1> QED
  BY <1>1, <1>2, <1>3, <1>4, <1>5 DEF Next, Progress, Reject, vars

\* What the commit of another request does to a parser on which lifecycle
\* request r is under way: a registration cannot commit, since the parser is
\* there, and an update leaves the status alone.
LEMMA OthersCommit ==
    ASSUME ApprovalInv, NEW r \in Requests, NEW p \in Parsers, Acts(r, p, Lifecycle),
           tx[r].loaded.status = parsers[p].status,
           NEW s \in Requests \ {r}, Commit(s), ~Acts(s, p, Lifecycle)
    PROVE  /\ parsers'[p].status = parsers[p].status
           /\ ~Acts(s, p, {"update"}) => parsers'[p] = parsers[p]
<1>1. /\ Recorded(s) /\ tx[s].parser \in Parsers
      /\ parsers'[tx[s].parser].status =
            IF tx[s].op = "update" THEN parsers[tx[s].parser].status ELSE tx[s].seen
      /\ tx[s].op = "register" => parsers[tx[s].parser] = Absent
      /\ \A q \in Parsers \ {tx[s].parser} : parsers'[q] = parsers[q]
  BY CommitEffect
<1>2. <<parsers[p].status, Target(tx[r].op)>> \in PARSER_TRANSITIONS
  BY DEF Acts, ApprovalInv, TransactionsOK, TransactionOK, Accepts, Lifecycle
<1>3. parsers[p] # Absent
  BY <1>2 DEF PARSER_TRANSITIONS, Absent
<1>4. CASE tx[s].parser = p
  <2>1. tx[s].op = "update"
    BY <1>1, <1>3, <1>4 DEF Acts, Recorded, Tx, Operations
  <2> QED BY <1>1, <1>4, <2>1 DEF Acts, Recorded
<1>5. CASE tx[s].parser # p
  BY <1>1, <1>5
<1> QED BY <1>4, <1>5

LEMMA StepKeepsStatusFresh ==
    ASSUME ApprovalInv, LifecycleAlone, FreshStatus, [Next]_vars
    PROVE  FreshStatus'
<1> SUFFICES ASSUME NEW r \in Requests, NEW p \in Parsers, Acts(r, p, Lifecycle)'
             PROVE  tx'[r].loaded.status = parsers'[p].status
  BY DEF FreshStatus
<1>1. tx'[r] \in Tx /\ tx'[r].op \in Lifecycle /\ tx'[r].parser = p
  BY DEF Acts
<1>2. ASSUME Acts(r, p, Lifecycle), tx'[r].loaded = tx[r].loaded,
             NEW s \in Requests \ {r}, Commit(s)
      PROVE  tx'[r].loaded.status = parsers'[p].status
  <2>1. ~Acts(s, p, Lifecycle)
    BY <1>2 DEF LifecycleAlone
  <2>2. tx[r].loaded.status = parsers[p].status
    BY <1>2 DEF FreshStatus
  <2> QED BY <1>2, <2>1, <2>2, OthersCommit
<1>3. \/ tx'[r].loaded = parsers[tx'[r].parser] /\ parsers' = parsers
      \/ /\ tx[r] \in Tx
         /\ tx'[r].op = tx[r].op /\ tx'[r].parser = tx[r].parser
         /\ tx'[r].loaded = tx[r].loaded
         /\ parsers' = parsers \/ \E s \in Requests \ {r} : Commit(s)
  BY <1>1, RequestStep DEF ApprovalInv
<1> QED BY <1>1, <1>2, <1>3 DEF Acts, FreshStatus

LEMMA StepKeepsRowFresh ==
    ASSUME ApprovalInv, LifecycleApart, FreshRow, [Next]_vars
    PROVE  FreshRow'
<1> SUFFICES ASSUME NEW r \in Requests, NEW p \in Parsers, Acts(r, p, Lifecycle)'
             PROVE  tx'[r].loaded = parsers'[p]
  BY DEF FreshRow
<1>1. tx'[r] \in Tx /\ tx'[r].op \in Lifecycle /\ tx'[r].parser = p
  BY DEF Acts
<1>2. ASSUME Acts(r, p, Lifecycle), tx'[r].loaded = tx[r].loaded,
             NEW s \in Requests \ {r}, Commit(s)
      PROVE  tx'[r].loaded = parsers'[p]
  <2>1. ~Acts(s, p, Lifecycle) /\ ~Acts(s, p, {"update"})
    BY <1>2 DEF LifecycleApart, Acts
  <2>2. tx[r].loaded = parsers[p]
    BY <1>2 DEF FreshRow
  <2> QED BY <1>2, <2>1, <2>2, OthersCommit
<1>3. \/ tx'[r].loaded = parsers[tx'[r].parser] /\ parsers' = parsers
      \/ /\ tx[r] \in Tx
         /\ tx'[r].op = tx[r].op /\ tx'[r].parser = tx[r].parser
         /\ tx'[r].loaded = tx[r].loaded
         /\ parsers' = parsers \/ \E s \in Requests \ {r} : Commit(s)
  BY <1>1, RequestStep DEF ApprovalInv
<1> QED BY <1>1, <1>2, <1>3 DEF Acts, FreshRow

LEMMA InitFresh == Init => FreshStatus /\ FreshRow
  BY DEF Init, FreshStatus, FreshRow, Acts, IdleTx, Tx

\* A commit moves its parser along the lifecycle, or leaves its status alone.
LEMMA CommitMoves ==
    ASSUME ApprovalInv, FreshStatus, NEW r \in Requests, Commit(r)
    PROVE  /\ tx[r].parser \in Parsers
           /\ \A x \in Parsers \ {tx[r].parser} : parsers'[x] = parsers[x]
           /\ \/ parsers'[tx[r].parser].status = parsers[tx[r].parser].status
              \/ <<parsers[tx[r].parser].status, parsers'[tx[r].parser].status>>
                    \in Lifecycle_FSM!Moves
           /\ parsers[tx[r].parser] # Absent =>
                 \/ parsers'[tx[r].parser].status = parsers[tx[r].parser].status
                 \/ <<parsers[tx[r].parser].status, parsers'[tx[r].parser].status>>
                       \in PARSER_TRANSITIONS
<1> DEFINE q == tx[r].parser
           old == parsers[q].status
           new == parsers'[q].status
<1>1. /\ Recorded(r) /\ q \in Parsers
      /\ TransactionOK(tx[r], parsers[q])
      /\ new = IF tx[r].op = "update" THEN old ELSE tx[r].seen
      /\ tx[r].op = "register" => parsers[q] = Absent
      /\ \A x \in Parsers \ {q} : parsers'[x] = parsers[x]
  BY CommitEffect
<1>2. CASE tx[r].op = "register"
  <2>1. After(tx[r]).status = "DRAFT" /\ old = "NONE"
    BY <1>1, <1>2 DEF After, Lifecycle, Absent
  <2> QED BY <1>1, <1>2, <2>1 DEF TransactionOK, Recorded, Lifecycle_FSM!Moves
<1>3. CASE tx[r].op \in Lifecycle
  <2>1. tx[r].loaded.status = old
    BY <1>1, <1>3 DEF FreshStatus, Acts, Recorded
  <2>2. <<old, After(tx[r]).status>> \in PARSER_TRANSITIONS
    BY <1>1, <1>3, <2>1, AfterIsRow DEF TransactionOK, Recorded
  <2>3. new = After(tx[r]).status
    BY <1>1, <1>3 DEF TransactionOK, Recorded, Lifecycle
  <2> QED BY <1>1, <2>2, <2>3 DEF PARSER_TRANSITIONS, Lifecycle_FSM!Moves
<1>4. CASE tx[r].op = "update"
  BY <1>1, <1>4
<1> QED BY <1>1, <1>2, <1>3, <1>4 DEF Recorded, Tx, Operations

\* However registrations, updates and the requests of other parsers overlap,
\* the parsers implement the lifecycle state machine as long as no two lifecycle
\* requests are under way on one parser: it is what a lock taken by the SELECT
\* of a lifecycle request would be enough for.
THEOREM ExclusionRefinesFSM == Spec /\ []LifecycleAlone => RefinesFSM
<1>1. Init => Lifecycle_FSM!Init
  BY DEF Init, Lifecycle_FSM!Init, SeedRows, Absent
<1>2. ApprovalInv /\ LifecycleAlone /\ FreshStatus /\ [Next]_vars => FreshStatus'
  BY StepKeepsStatusFresh
<1>3. ASSUME ApprovalInv, FreshStatus, [Next]_vars
      PROVE  [Lifecycle_FSM!Next]_([p \in Parsers |-> parsers[p].status])
  <2>1. CASE parsers' = parsers
    BY <2>1
  <2>2. ASSUME NEW r \in Requests, Commit(r)
        PROVE  [Lifecycle_FSM!Next]_([p \in Parsers |-> parsers[p].status])
    <3> DEFINE q == tx[r].parser
               old == parsers[q].status
               new == parsers'[q].status
    <3>1. /\ q \in Parsers
          /\ \A x \in Parsers \ {q} : parsers'[x] = parsers[x]
          /\ new = old \/ <<old, new>> \in Lifecycle_FSM!Moves
      BY <1>3, <2>2, CommitMoves
    <3>2. [p \in Parsers |-> parsers'[p].status] =
             [[p \in Parsers |-> parsers[p].status] EXCEPT ![q] = new]
      BY <3>1
    <3>3. [p \in Parsers |-> parsers[p].status][q] = old
      BY <3>1
    <3>4. CASE new = old
      <4>1. \A x \in Parsers : parsers'[x].status = parsers[x].status
        BY <3>1, <3>4
      <4> QED BY <4>1
    <3>5. CASE <<old, new>> \in Lifecycle_FSM!Moves
      <4>1. new \in Lifecycle_FSM!Reachable
        BY <3>5 DEF Lifecycle_FSM!Moves, Lifecycle_FSM!Reachable
      <4> HIDE DEF q, old, new
      <4>2. Lifecycle_FSM!Next
        BY <3>1, <3>2, <3>3, <3>5, <4>1 DEF Lifecycle_FSM!Next, Lifecycle_FSM!Move
      <4> QED BY <4>2
    <3> QED BY <3>1, <3>4, <3>5
  <2> QED BY <1>3, <2>1, <2>2, OnlyCommitPublishes
<1> QED
  BY <1>1, <1>2, <1>3, InitFresh, ApprovalInvariant, PTL
     DEF Spec, RefinesFSM, Lifecycle_FSM!Spec

\* The same condition is enough for every committed status change to be a
\* published transition: overlapping lifecycle requests are the only way to an
\* illegal one.
THEOREM ExclusionKeepsTransitions == Spec /\ []LifecycleAlone => LegalTransitions
<1> DEFINE Legal ==
      \A p \in Parsers :
          parsers[p] # Absent /\ parsers'[p].status # parsers[p].status =>
             <<parsers[p].status, parsers'[p].status>> \in PARSER_TRANSITIONS
<1>1. ApprovalInv /\ LifecycleAlone /\ FreshStatus /\ [Next]_vars => FreshStatus'
  BY StepKeepsStatusFresh
<1>2. ApprovalInv /\ FreshStatus /\ [Next]_vars => [Legal]_vars
  BY OnlyCommitPublishes, CommitMoves
<1> QED BY <1>1, <1>2, InitFresh, ApprovalInvariant, PTL DEF Spec, LegalTransitions

\* A history row shows the row that its commit leaves, unless a lifecycle
\* request overlaps with another one, or with an update, of the same parser.
THEOREM ApartHistoryIsTrue == Spec /\ []LifecycleApart => HistoryRowIsParserState
<1> DEFINE True ==
      \A p \in Parsers : \A v \in parser_versions'[p] \ parser_versions[p] :
          v.status = parsers'[p].status /\ v.version = parsers'[p].version
<1>1. ApprovalInv /\ LifecycleApart /\ FreshRow /\ [Next]_vars => FreshRow'
  BY StepKeepsRowFresh
<1>2. ASSUME ApprovalInv, FreshRow, [Next]_vars,
             NEW p \in Parsers, NEW v \in parser_versions'[p] \ parser_versions[p]
      PROVE  v.status = parsers'[p].status /\ v.version = parsers'[p].version
  <2>1. PICK r \in Requests : Commit(r)
    BY <1>2, OnlyCommitPublishes
  <2>2. /\ Recorded(r) /\ TransactionOK(tx[r], parsers[tx[r].parser])
        /\ tx[r].parser = p /\ v \in AddedVersions(tx[r])
        /\ tx[r].op = "register" => parsers[p] = Absent
    BY <1>2, <2>1, CommitEffect
  <2>3. tx[r] \in Tx /\ tx[r].op # "update"
    BY <2>2 DEF Recorded, AddedVersions
  <2>4. tx[r].loaded = parsers[p]
    <3>1. CASE tx[r].op = "register"
      BY <2>2, <2>3, <3>1, AfterIsRow DEF TransactionOK
    <3>2. CASE tx[r].op \in Lifecycle
      BY <1>2, <2>2, <2>3, <3>2 DEF FreshRow, Acts
    <3> QED BY <2>3, <3>1, <3>2 DEF Tx, Operations
  <2>5. parsers'[p] = Written(parsers[p], tx[r])
    BY <1>2, <2>1, <2>2 DEF Commit, ApprovalInv, TypeOK
  <2>6. After(tx[r]) \in Row
    BY <2>2, <2>3, AfterIsRow DEF TransactionOK
  <2>7. /\ Written(parsers[p], tx[r]).status = After(tx[r]).status
        /\ Written(parsers[p], tx[r]).version = After(tx[r]).version
    BY <2>4, <2>6 DEF Written
  <2>8. v.status = After(tx[r]).status /\ v.version = After(tx[r]).version
    BY <2>2 DEF AddedVersions
  <2> QED BY <2>5, <2>7, <2>8
<1>3. ApprovalInv /\ FreshRow /\ [Next]_vars => [True]_vars
  BY <1>2
<1> QED BY <1>1, <1>3, InitFresh, ApprovalInvariant, PTL DEF Spec, HistoryRowIsParserState

----------------------------------------------------------------------------
(* Requests served one at a time.                                          *)

\* Serial requests are alone, whatever parser they are about.
Alone == \A r, s \in Requests : tx[r] \in Tx /\ tx[s] \in Tx => r = s

LEMMA SerialIsAlone ==
    ASSUME Serial
    PROVE  Spec => [](LifecycleAlone /\ LifecycleApart)
<1>1. Init => Alone
  BY DEF Init, Alone, IdleTx, Tx
<1>2. ASSUME TypeOK, Alone, [Next]_vars PROVE Alone'
  <2>1. CASE \A r \in Requests : tx'[r] \in Tx => tx[r] \in Tx
    BY <1>2, <2>1 DEF Alone
  <2>2. ASSUME NEW r \in Requests, NEW op \in Operations, NEW u \in Users, NEW p \in Parsers,
               Begin(r, op, u, p)
        PROVE  Alone'
    <3>1. \A s \in Requests : tx[s] \notin Tx
      BY <1>2, <2>2, IdleOrTx DEF Begin, InFlight, TypeOK
    <3>2. \A s \in Requests \ {r} : tx'[s] = tx[s]
      BY <1>2, <2>2 DEF Begin, TypeOK
    <3> QED BY <3>1, <3>2 DEF Alone
  <2>3. ASSUME NEW s \in Requests, Flush(s) \/ ViolateUnique(s) \/ Record(s) \/ Commit(s) \/ Abort(s)
        PROVE  \A r \in Requests : tx'[r] \in Tx => tx[r] \in Tx
    <3>1. tx[s] \in Tx
      BY <1>2, <2>3, IdleOrTx
         DEF TypeOK, Flush, ViolateUnique, Record, Commit, Abort
    <3>2. \A r \in Requests \ {s} : tx'[r] = tx[r]
      BY <1>2, <2>3 DEF TypeOK, Flush, ViolateUnique, Record, Commit, Abort
    <3> QED BY <3>1, <3>2
  <2> QED BY <1>2, <2>1, <2>2, <2>3 DEF Next, Progress, Reject, vars
<1>3. Alone => LifecycleAlone /\ LifecycleApart
  BY DEF Alone, LifecycleAlone, LifecycleApart, Acts
<1> QED BY <1>1, <1>2, <1>3, TypeCorrect, PTL DEF Spec

\* One request at a time: every commit is a move of the lifecycle or leaves the
\* status alone, and every parser starts absent, drafted or active.
THEOREM SerialRefinesFSM ==
    ASSUME Serial
    PROVE  Spec => RefinesFSM
BY SerialIsAlone, ExclusionRefinesFSM, PTL

\* One request at a time: what a history row shows is the row that its commit
\* leaves, since the UPDATE writes onto the very row that was loaded.
THEOREM SerialHistoryIsTrue ==
    ASSUME Serial
    PROVE  Spec => HistoryRowIsParserState
BY SerialIsAlone, ApartHistoryIsTrue, PTL

============================================================================
