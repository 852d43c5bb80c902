---------------------------- MODULE AssetRegistry ----------------------------
(***************************************************************************)
(* The source, policy and mapping registries.  The three share one shape:  *)
(* a row with a unique key that requests create, edit column by column     *)
(* (PUT), enable, disable and, for sources, delete; policies and mappings  *)
(* keep a history of their contents.  Requests are concurrent READ         *)
(* COMMITTED transactions: a SELECT takes no lock, a write waits for the   *)
(* lock of the row and keeps it until the transaction ends.                *)
(*                                                                         *)
(* The rows that a request inserts for the history and the audit log are   *)
(* seen by others when it commits, so a request is three steps: load and   *)
(* check, write, commit.  Requests are those that passed the role check.   *)
(***************************************************************************)
EXTENDS Integers, FiniteSets

CONSTANTS
    Assets,       \* the unique keys: source_id, policy_id and mapping_id values
    KindOf,       \* KindOf[a]: what asset a is
    Sessions,     \* the database sessions that serve requests
    Values,       \* the values of an editable column
    NoValue,      \* the columns of an asset that does not exist
    MaxRequests   \* bound: requests that pass their checks

Kinds == {"source", "policy", "mapping"}

ASSUME AssetsAssumption ==
    KindOf \in [Assets -> Kinds] /\ NoValue \notin Values /\ MaxRequests \in Nat

VARIABLES
    rows,      \* the committed row of each asset
    past,      \* auxiliary: the contents that the committed row of each asset has had
    history,   \* the contents in the committed history rows of each asset
    audit,     \* the committed audit rows; the id of the row they are about is auxiliary,
               \* the table has the key only
    tx,        \* the request each session serves
    last_id,   \* the ids handed out so far
    requests   \* the requests that passed their checks so far

vars == <<rows, past, history, audit, tx, last_id, requests>>

Operations(kind) ==
    CASE kind = "source"  -> {"create", "update", "enable", "disable", "delete"}
      [] kind = "policy"  -> {"create", "update", "enable", "disable"}
      [] kind = "mapping" -> {"create", "update"}

Actions == Operations("source")

\* An id, whether the asset is part of the distributed configuration, and two
\* columns that a PUT may change together or one at a time.
Row == [id : Nat \ {0}, active : BOOLEAN, left : Values, right : Values]
Absent == [id |-> 0, active |-> FALSE, left |-> NoValue, right |-> NoValue]
Content == [left : Values \cup {NoValue}, right : Values \cup {NoValue}]
ContentOf(row) == [left |-> row.left, right |-> row.right]

AuditRow == [asset : Assets, action : Actions, id : Nat]

\* loaded: the row as loaded; new: the object after the assignments; touched:
\* the actor is not the one in updated_by, so that the UPDATE is never empty;
\* seen: the contents after the write.
IdleTx == [pc |-> "idle"]
Tx == [pc : {"loaded", "written"}, asset : Assets, op : Actions, touched : BOOLEAN,
       loaded : Row \cup {Absent}, new : Row \cup {Absent}, seen : Content]

Versioned(a) == KindOf[a] # "source"

\* The seed script creates rows without history or audit rows.
Init ==
    /\ rows \in [Assets -> {Absent} \cup [id : {1}, active : {TRUE}, left : Values, right : Values]]
    /\ past = [a \in Assets |-> {ContentOf(rows[a])}]
    /\ history = [a \in Assets |-> {}]
    /\ audit = {}
    /\ tx = [s \in Sessions |-> IdleTx]
    /\ last_id = 1
    /\ requests = 0

----------------------------------------------------------------------------
(* The steps of a request.                                                 *)

\* What the handler makes of the row it loaded, given the columns of the body;
\* a policy may be created disabled, a source is created ACTIVE, a mapping too.
Edited(a, op, row, body, on) ==
    CASE op = "create"  -> [id |-> last_id + 1, left |-> body.left, right |-> body.right,
                            active |-> KindOf[a] # "policy" \/ on]
      [] op = "update"  -> [row EXCEPT !.left = body.left, !.right = body.right]
      [] op = "enable"  -> [row EXCEPT !.active = TRUE]
      [] op = "disable" -> [row EXCEPT !.active = FALSE]
      [] op = "delete"  -> Absent

\* Fault: update does not look whether the row was found.
AcceptsUnknownUpdate(a, op) == op # "update" => ((op = "create") <=> (rows[a] = Absent))

\* A create needs a free key, everything else a row.
Accepts(a, op) == (op = "create") <=> (rows[a] = Absent)

Begin(s, a, op) ==
    /\ tx[s] = IdleTx
    /\ requests < MaxRequests
    /\ Accepts(a, op)
    /\ \E body \in [left : Values, right : Values], on, touched \in BOOLEAN :
          tx' = [tx EXCEPT ![s] =
                    [pc |-> "loaded", asset |-> a, op |-> op, touched |-> touched,
                     loaded |-> rows[a], new |-> Edited(a, op, rows[a], body, on),
                     seen |-> ContentOf(Absent)]]
    /\ last_id' = IF op = "create" THEN last_id + 1 ELSE last_id
    /\ requests' = requests + 1
    /\ UNCHANGED <<rows, past, history, audit>>

\* 409 or 404.
Reject(s, a, op) ==
    /\ tx[s] = IdleTx
    /\ ~Accepts(a, op)
    /\ UNCHANGED vars

\* Whether the flush has anything to write.
Dirty(t) == t.touched \/ t.new # t.loaded

Locks(t, a) == t.pc = "written" /\ t.asset = a /\ Dirty(t)

RowFree(s, a) == \A q \in Sessions \ {s} : ~Locks(tx[q], a)

\* The row the request loaded is still there (for a create: still not there).
Found(t) == rows[t.asset].id = t.loaded.id

\* Fault: DELETE names the key of the row and not its id.
WrittenByKey(t, row) ==
    CASE t.op \in {"create", "delete"} -> t.new
      [] t.op \notin {"create", "delete"} ->
            [row EXCEPT !.active = IF t.new.active # t.loaded.active THEN t.new.active ELSE @,
                        !.left = IF t.new.left # t.loaded.left THEN t.new.left ELSE @,
                        !.right = IF t.new.right # t.loaded.right THEN t.new.right ELSE @]

\* Fault: an UPDATE writes every column of the object.
WrittenWhole(t, row) == IF t.op = "delete" /\ row.id # t.loaded.id THEN row ELSE t.new

\* The row after the write of t: a DELETE finds it by id, an UPDATE writes the
\* columns that the handler changed.
Written(t, row) ==
    CASE t.op = "create" -> t.new
      [] t.op = "delete" -> IF row.id = t.loaded.id THEN t.new ELSE row
      [] t.op \notin {"create", "delete"} ->
            [row EXCEPT !.active = IF t.new.active # t.loaded.active THEN t.new.active ELSE @,
                        !.left = IF t.new.left # t.loaded.left THEN t.new.left ELSE @,
                        !.right = IF t.new.right # t.loaded.right THEN t.new.right ELSE @]

\* Fault: the object is not refreshed after the flush.
SeenLoaded(t) == ContentOf(t.new)

\* create and update refresh the object before they copy it to the history.
Seen(t) == ContentOf(Written(t, rows[t.asset]))

\* An UPDATE of a row that is gone raises, and so does the refresh of one; a
\* DELETE of a row that is gone only warns.
Writable(t) ==
    \/ Found(t)
    \/ t.op = "delete"
    \/ t.op \in {"enable", "disable"} /\ ~Dirty(t)

\* The UPDATE, INSERT or DELETE, which waits for the lock.
Write(s) ==
    LET t == tx[s] IN
    /\ t.pc = "loaded"
    /\ Dirty(t) => RowFree(s, t.asset)
    /\ Writable(t)
    /\ tx' = [tx EXCEPT ![s] = [t EXCEPT !.pc = "written", !.seen = Seen(t)]]
    /\ UNCHANGED <<rows, past, history, audit, last_id, requests>>

\* The row changed under the request: StaleDataError or a unique violation.
Conflict(s) ==
    LET t == tx[s] IN
    /\ t.pc = "loaded"
    /\ Dirty(t) => RowFree(s, t.asset)
    /\ ~Writable(t)
    /\ tx' = [tx EXCEPT ![s] = IdleTx]
    /\ UNCHANGED <<rows, past, history, audit, last_id, requests>>

Commit(s) ==
    LET t == tx[s]
        a == t.asset
        row == Written(t, rows[a])
    IN
    /\ t.pc = "written"
    /\ rows' = [rows EXCEPT ![a] = row]
    /\ past' = [past EXCEPT ![a] = @ \cup {ContentOf(row)}]
    /\ history' = IF Versioned(a) /\ t.op \in {"create", "update"}
                  THEN [history EXCEPT ![a] = @ \cup {t.seen}] ELSE history
    /\ audit' = audit \cup {[asset |-> a, action |-> t.op,
                             id |-> IF t.op = "create" THEN t.new.id ELSE t.loaded.id]}
    /\ tx' = [tx EXCEPT ![s] = IdleTx]
    /\ UNCHANGED <<last_id, requests>>

\* An exception, a lost connection or the death of the worker: rollback.
Abort(s) ==
    /\ tx[s] # IdleTx
    /\ tx' = [tx EXCEPT ![s] = IdleTx]
    /\ UNCHANGED <<rows, past, history, audit, last_id, requests>>

Next ==
    \E s \in Sessions :
        \/ Write(s) \/ Conflict(s) \/ Commit(s) \/ Abort(s)
        \/ \E a \in Assets : \E op \in Operations(KindOf[a]) : Begin(s, a, op) \/ Reject(s, a, op)

Spec == Init /\ [][Next]_vars

----------------------------------------------------------------------------
(* Properties.                                                             *)

\* The shape of rows, history, audit rows and requests.
TypeOK ==
    /\ rows \in [Assets -> Row \cup {Absent}]
    /\ past \in [Assets -> SUBSET Content] /\ history \in [Assets -> SUBSET Content]
    /\ audit \subseteq AuditRow
    /\ tx \in [Sessions -> Tx \cup {IdleTx}]
    /\ last_id \in Nat /\ requests \in Nat

\* However PUTs of different columns overlap, the contents that a policy or
\* mapping ends up with are in its history, once it has one.
ContentRecorded ==
    \A a \in Assets :
        Versioned(a) /\ history[a] # {} => ContentOf(rows[a]) \in history[a]

\* The history shows only contents that the policy or mapping really had.
HistoryIsReal == \A a \in Assets : history[a] \subseteq past[a]

\* The audit log tells which rows exist: no row that is there is logged as
\* deleted, every row that is there was logged as created unless the seed made
\* it (the seed logs nothing; its rows have id 1), and every row logged as
\* created that is no longer there is logged as deleted, although requests may
\* reach a row that was deleted, or created again under the same key, after
\* they loaded it.
ExistenceAudited ==
    \A a \in Assets :
        /\ [asset |-> a, action |-> "delete", id |-> rows[a].id] \notin audit
        /\ rows[a].id > 1 => [asset |-> a, action |-> "create", id |-> rows[a].id] \in audit
        /\ \A e \in audit :
              e.asset = a /\ e.action = "create" /\ e.id # rows[a].id =>
                 [asset |-> a, action |-> "delete", id |-> e.id] \in audit

\* The transactions implement a store in which every operation takes effect at
\* once, at the commit, and together with its audit and history rows: a PUT
\* never sets back a switch that was flipped meanwhile, nor a switch a PUT, a
\* deletion removes the row it loaded or none, and an operation that found
\* nothing to change leaves the row alone.
Store == INSTANCE AssetStore WITH
    Kept <- {a \in Assets : Versioned(a)},
    NoContent <- ContentOf(Absent),
    row <- [a \in Assets |-> [id |-> rows[a].id, active |-> rows[a].active,
                              content |-> ContentOf(rows[a])]],
    had <- past,
    log <- audit
RefinesStore == Store!Spec
=============================================================================
