-------------------------- MODULE ConfigPublication --------------------------
(***************************************************************************)
(* What the distribution of the configuration promises to those who look   *)
(* at Redis, Kafka and the history: publications of committed              *)
(* configuration that take effect at once, of which Kafka and the history  *)
(* tell only afterwards.  Sessions, retries, timeouts and rollbacks do not *)
(* occur here.                                                             *)
(***************************************************************************)
EXTENDS Naturals

CONSTANTS
    Keys,             \* the configuration keys
    Ordered           \* TRUE: a publication is never overtaken by an older one

VARIABLES
    content,          \* the committed configuration of each key, numbered
    redis,            \* the value of each key
    redis_version,    \* the version of the last publication
    published,        \* the publications so far
    events,           \* the notifications
    config_versions   \* the recorded publications

vars == <<content, redis, redis_version, published, events, config_versions>>

Missing == [version |-> 0, content |-> 0]

Init ==
    /\ content = [k \in Keys |-> 0]
    /\ redis = [k \in Keys |-> Missing]
    /\ redis_version = 0
    /\ published = {} /\ events = {} /\ config_versions = {}

Change(k) ==
    /\ content' = [content EXCEPT ![k] = @ + 1]
    /\ UNCHANGED <<redis, redis_version, published, events, config_versions>>

\* The newest publication so far, of its key and of all keys.
Newest(w) ==
    \A p \in published :
        p.version <= w.version /\ (p.key = w.key => p.content <= w.content)

\* Key and version change together, to a configuration that was committed.
\* Publishing again is allowed: a client that got no reply retries.
Publish(w) ==
    /\ w.content <= content[w.key]
    /\ Ordered => Newest(w)
    /\ redis' = [redis EXCEPT ![w.key] = [version |-> w.version, content |-> w.content]]
    /\ redis_version' = w.version
    /\ published' = published \cup {w}
    /\ UNCHANGED <<content, events, config_versions>>

Expire(k) ==
    /\ redis' = [redis EXCEPT ![k] = Missing]
    /\ UNCHANGED <<content, redis_version, published, events, config_versions>>

\* Kafka is told of what was published.
Announce(w) ==
    /\ events' = events \cup {[key |-> w.key, version |-> w.version]}
    /\ UNCHANGED <<content, redis, redis_version, published, config_versions>>

\* The history gains publications only, the keys of a request all at once.
Record ==
    /\ config_versions \subseteq config_versions'
    /\ \A row \in config_versions' :
          /\ row.status = "distributed"
          /\ [key |-> row.key, version |-> row.version, content |-> row.content] \in published
    /\ UNCHANGED <<content, redis, redis_version, published, events>>

Next ==
    \/ \E k \in Keys : Change(k) \/ Expire(k)
    \/ \E w \in published' : Publish(w)
    \/ \E w \in published : Announce(w)
    \/ Record

Spec == Init /\ [][Next]_vars
==============================================================================
