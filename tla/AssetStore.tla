----------------------------- MODULE AssetStore -----------------------------
(***************************************************************************)
(* What the source, policy and mapping registries promise, without         *)
(* transactions, locks or stale copies: a store in which every operation   *)
(* takes effect at once and together with its audit row.                   *)
(***************************************************************************)
EXTENDS Naturals

CONSTANTS
    Assets,       \* the unique keys
    Kept,         \* the assets that keep a history of their contents
    NoContent     \* the content of an asset that does not exist

VARIABLES
    row,          \* the id, the switch and the content of each asset
    had,          \* the contents each asset has had
    history,      \* the contents the history of each asset shows
    log           \* the audit log

vars == <<row, had, history, log>>

Nothing == [id |-> 0, active |-> FALSE, content |-> NoContent]

Init ==
    /\ \A a \in Assets : row[a] = Nothing \/ (row[a].id = 1 /\ row[a].active)
    /\ had = [a \in Assets |-> {row[a].content}]
    /\ history = [a \in Assets |-> {}]
    /\ log = {}

Entry(a, action, id) == [asset |-> a, action |-> action, id |-> id]

\* One asset changes, and its content is one that it now has had.
Becomes(a) ==
    /\ row' = [row EXCEPT ![a] = row'[a]]
    /\ had' = [had EXCEPT ![a] = @ \cup {row'[a].content}]

Logged(a, action, id) == log' = log \cup {Entry(a, action, id)}

Recorded(a, content) ==
    history' = IF a \in Kept THEN [history EXCEPT ![a] = @ \cup {content}] ELSE history

\* A free key gets a row with an id that the log has never named.
Create(a) ==
    /\ row[a] = Nothing
    /\ row'[a].id # 0 /\ \A e \in log : e.id # row'[a].id
    /\ Logged(a, "create", row'[a].id)
    /\ Becomes(a)
    /\ Recorded(a, row'[a].content)

\* The content changes, and nothing else.
Edit(a) ==
    /\ row[a] # Nothing
    /\ Logged(a, "update", row[a].id)
    /\ row'[a].id = row[a].id /\ row'[a].active = row[a].active
    /\ Becomes(a)
    /\ Recorded(a, row'[a].content)

\* The switch is set, or left as it is when the request had nothing to change.
Switch(a, action) ==
    /\ row[a] # Nothing
    /\ Logged(a, action, row[a].id)
    /\ row'[a].id = row[a].id /\ row'[a].content = row[a].content
    /\ row'[a].active \in {row[a].active, action = "enable"}
    /\ Becomes(a)
    /\ UNCHANGED history

Delete(a) ==
    /\ row[a] # Nothing
    /\ Logged(a, "delete", row[a].id)
    /\ row'[a] = Nothing
    /\ Becomes(a)
    /\ UNCHANGED history

\* An operation that changed nothing is logged for the row it was about, which
\* may be gone by then; an update shows a content that the asset has had, and
\* the content it has when it opens the history.
Note(a, action, id) ==
    /\ id = row[a].id \/ Entry(a, "delete", id) \in log
    /\ Logged(a, action, id)
    /\ \/ action = "update"
          /\ \E content \in had[a] :
                /\ a \in Kept /\ history[a] = {} => content = row[a].content
                /\ Recorded(a, content)
       \/ action \in {"enable", "disable"} /\ UNCHANGED history
    /\ UNCHANGED <<row, had>>

Next ==
    \E a \in Assets :
        \/ Create(a) \/ Edit(a) \/ Delete(a)
        \/ \E action \in {"enable", "disable"} : Switch(a, action)
        \/ \E e \in log' : Note(a, e.action, e.id)

Spec == Init /\ [][Next]_vars
=============================================================================
