# M6 control plane: TLA+ models and proofs

M6 is the control plane of a log-processing pipeline (modules M1 to M6): a FastAPI
service (`src/backend/app`) that keeps registries of sources, schemas, parsers,
mappings and policies in PostgreSQL, distributes their contents to the other modules
through Redis and Kafka, and watches the health of all services. This directory holds
TLA+ specifications of its components, TLC configurations that check them on small
instances, and TLAPS proofs of the main properties for every value of the constants.

What makes M6 hard is not its algorithms. It is that every request is one database
transaction, opened and closed around the handler by `dep_db`
(`core/dependencies.py:32-39`); that PostgreSQL runs it at READ COMMITTED and no SELECT
takes a lock (there is no `FOR UPDATE` anywhere); that several workers, each
interleaving many handlers at their `await`s, work on the same rows; and that Redis,
Kafka and the connection pool take part in requests and not in transactions. The unit
tests run one request at a time against mocks. The models run the requests against
each other.

The same holds for the scripts that bring a deployment up: migrations and seeds are run
by make targets, start scripts and hand (`docker compose exec`), beside the API and beside
each other, and each may die half-way and be run again.

Paths below are relative to `src/backend/app`, except where they start with `docs/`,
`alembic/` (in `src/backend`) or `scripts/` (in `src`).

## 1. Inventory

| Component | State | Operations | Hard behaviour | What makes it correct |
|---|---|---|---|---|
| Parser registry (`registry/parser_registry.py`, `repositories/parser_repo.py`) | `parsers`, `parser_versions`, audit rows | register, update, submit, approve, activate, disable, rollback | check and UPDATE are separated by an await; the history row is built from a stale object | approvals cannot be bypassed, transitions legal, history and audit log tell what happened |
| Configuration distribution (`services/config_service.py`, `integrations/redis_client.py`) | `configuration_versions`, Redis keys `config:<key>` and `config:version`, Kafka messages | distribute one key, distribute all, GET /configuration | Redis and Kafka written before the commit; timeouts with one retry; wall-clock versions; expiry | Redis never behind the history, history and events only of what Redis had, versions grow |
| Schema registry (`registry/schema_registry.py`, `repositories/schema_repo.py`) | `schemas`, `schema_versions`, audit rows | create, add version | uniqueness by SELECT before INSERT, no unique index | a name is served, the audit log reports what exists |
| Source, policy and mapping registries (`registry/{source,policy,mapping}_registry.py`, `repositories/base.py`) | one table each, history tables of policies and mappings, audit rows | create, update, enable, disable, delete | column-wise lost updates, rows that vanish or are created again between load and write | history contains what the row became and nothing it never was; audit log accounts for every row |
| Service health (`integrations/{health,module}_client.py`, `api/{services,health}.py`) | Prometheus gauges, connection pool of the process | GET /services, GET /services/{s}, GET /ready | concurrent checks, two connections per request from a bounded pool, stale gauges | no fabricated health, no leaked connection, every request ends |
| Bring-up scripts (`scripts/{migrate,seed,seed_direct}.py`, `alembic/versions/0001_initial_schema.py`) | the tables, `alembic_version`, the seeded rows | create the tables one by one, or all in one transaction; insert what is missing | races between scripts and with requests, death half-way, a seed on a half-migrated database | the tables are closed under foreign keys, a seed is all or nothing and happens once |
| Authentication, users, roles (`api/auth.py`, `core/{security,rbac}.py`) | `users`, `roles`, `user_roles`, audit rows | login, create user, the check in front of every operation | uniqueness by SELECT before INSERT, roles created on demand by racing requests, four statements per user | accounts are whole and unique, no role without a user, nobody acts who has not logged in |
| Replay (`services/replay_service.py`, `integrations/kafka_client.py`) | `replay_operations`, audit rows, the buffer of the Kafka producer | request replay; the producer's own thread | the message leaves before the commit and in no transaction with it; nobody hears of a lost one | a status tells what was handed over, a record and its audit row stand together |
| Audit log queries (`audit/`, `api/audit.py`) | none of its own | search | none | |
| Kafka administration, other infrastructure clients (`integrations/`) | none | topic listing, pings | none of their own | |
| Application shell (`main.py`, `core/`, `observability/`) | settings, metrics | middleware, error responses | `dep_db`: one transaction per request, rolled back on any exception | part of every model |
| Repair scripts (`scripts/fix_*.py`, `scripts/verify_imports.py`, the generator of the contracts) | none of their own | one statement each, run by hand | none | |
| Wire schemas, web front end, JSON contracts, deployment files | none of the protocol | | none | |

How they interact: API handlers call one registry or service each; all share the
sessions of `db/session.py` and write audit rows through `audit/audit_service.py` in
their own transaction. The configuration service reads the committed rows of every
registry. The health clients use the same connection pool as the requests. Every request
passes the check of `core/rbac.py` against the accounts, which the seed scripts found
and `POST /auth/users` adds to; neither works before the migrations have created its
tables. There are no background tasks and no callbacks, except the sending thread of the
Kafka producer; all other concurrency is between requests, and between them and the
scripts.

`PROJECT.json` lists every component with its status, and under `hazards` each place
where an interleaving, a crash, a timeout, a stale read or a limit bites, with the
properties that would catch it.

## 2. Modules

Each component has a specification, an `MC...` module with the values of its constants
and a `...Proofs` module. Scripts, accounts and replays share a database and are composed.

    ParserLifecycle     <- MCParserLifecycle,    ParserLifecycleProofs;  implements ParserFSM if lifecycle requests exclude each other
    ConfigDistribution  <- MCConfigDistribution, ConfigDistributionProofs; implements ConfigPublication
    SchemaRegistry      <- MCSchemaRegistry,     SchemaRegistryProofs
    AssetRegistry       <- MCAssetRegistry,      AssetRegistryProofs;    implements AssetStore
    ServiceHealth       <- MCServiceHealth,      ServiceHealthProofs

    Database <- UserAccounts <- ReplayRequests <-.
         ^                                        ControlPlane <- MCControlPlane, ControlPlaneProofs;
         `---- Bootstrap <-----------------------'                implements AccountDirectory

Operators whose comment begins with "Fault:" are not part of a specification. Each is a
plausible bug in the definition that follows it (a missing lock, a whole-row UPDATE, a
check that is skipped), kept to show that the properties notice it: with the fault in
the place of the definition, TLC finds the property listed beside it in `PROJECT.json`
violated.

### The transaction that the registries share

A session is idle or serves one request, whose local state is a record in `tx` (`svc`
in `ConfigDistribution`, `req` in `ServiceHealth`). A step of a request is what happens
between two awaits on the database:

* **load and check** (`Begin...`): the role check, the SELECT, the operation's own
  check. It sees committed rows and takes no lock. A request whose check fails is
  `Reject`: the handler raises, `dep_db` rolls back, nothing changes.
* **flush**: the UPDATE, INSERT or DELETE. The ORM writes only the attributes the
  handler changed with respect to the loaded object (`Written`). If there are any
  (`Dirty`), the statement waits until no other transaction holds the row or the unique
  key (`RowFree`, `Locks`), and the lock stays until the end of the transaction.
* **history and audit rows**, built from the object in memory.
* **Commit**, which makes all of it visible at once, or **Abort** at any point: an
  exception, a lost connection, the death of the worker.

A crash of M6 needs no action of its own: it is an `Abort` of the open transactions,
and nothing else is kept in memory.

### ParserLifecycle and ParserFSM

`parsers`, `parser_versions` and `audit_logs` are the three tables. `version` stands
for all editable columns of a parser, so a PUT with the values already there emits no
UPDATE, as in the code. `Begin` is `_get_or_404`/`_assert_transition` with
`require_roles`, `Flush` the `update` of `repositories/base.py`, `ViolateUnique` the
unique index on `parser_id`, `Record` the `add_version` and audit calls. `clock`
gives the `created_at` stamps, which Python takes when the history row is flushed
(`db/base.py`), that is, while the row lock is held; the properties about the order of
the history rest on that. Users, superusers and held roles are constants because no
operation changes them after a user was created. Seeded parsers are ACTIVE or DRAFT,
carry the administrator's approval when ACTIVE, and have no history.

`ParserFSM` is the abstract specification: each parser is a state machine over the
published transitions, one move at a time. With `Serial = TRUE`, `ParserLifecycle`
implements it under `status[p] <- parsers[p].status`. Without it, it does not; that is
the first finding below.

### ConfigDistribution

`content[k]` numbers the committed states of the rows that the builder of key k
selects; `ChangeContent` is any registry request that commits a change of them. A
distribution goes through `Build` (SELECT), `Persist` (the version is the wall clock in
milliseconds; a pending row is flushed), `Execute` (one MULTI/EXEC pipeline that sets
the key and `config:version`), `Finish` (row distributed, Kafka told or not) and either
the next key or `Commit`. When the client gets no reply (`NoReply`), Redis may have
executed the pipeline, may have lost it, or may execute it later (`late`,
`ExecuteLate`). A timeout is retried once (`retry_on_timeout` of the client); any other
error, or a second timeout, is re-raised and `dep_db` rolls back every row of the
request, the one marked failed included. `Expire` is the TTL of the keys, which
`config:version` lacks. A reader reads the keys one by one and the version last.

A committed row of `configuration_versions` stands together with the audit row of the
same commit. The set merges rows that agree in key, version, content and status; no
property counts them. `written` (every execution that Redis saw) exists for the
properties only.

`ConfigPublication` is the abstract specification: publications of committed
configuration that take effect at once and may be repeated, notifications and history
rows that tell only of what was published. It has no sessions, and so no retries,
timeouts or rollbacks. `ConfigDistribution` implements it in all its behaviours, with
`published <- written`; where requests do not overlap and nothing runs late (`Ordered`), no
publication is overtaken by an older one either, so that versions grow (`VersionMonotonic`).

### SchemaRegistry

`create` counts the names, inserts schema, first version and audit row, and ends with
`get_by_name`, which raises when the name has two visible rows (`FetchSchema`, which
rolls back then). So duplicates come about only when both requests look before either
commits. UUIDs are a counter. Adding a version label twice is accepted, as in the code.

The model starts from the rows of the seed (`SeededSchema`, `SeededVersion`): the schema
`ues` with one version, for which `scripts/seed.py:192-200` and
`scripts/seed_direct.py:119-141` write no audit row. They are there whenever a request is
served, since both scripts commit them together with the first account, and without an
account no request passes the check in front of it (`ControlPlane` has that part).
`CreationsAudited` therefore equates the audited creations with the committed schemas
other than that one.

### AssetRegistry

One model for three registries that run the same code (`repositories/base.py`) on
three tables. `KindOf[a]` tells which: all have create and update, sources and policies can
be enabled and disabled, sources deleted; policies and mappings have a history. `active`,
`left` and `right` are the switch and two other columns, enough for updates of different columns to
overlap. An UPDATE that finds no row raises (`Conflict`), a DELETE that finds none only
warns. `id` tells a row from a later row with the same key. It is also kept in the audit
rows, where the code keeps the key; `ExistenceAudited` needs to know which row is meant. Seeded
rows have the id 1 and no create row in the audit log, so that property asks for a create
row of every other row that exists, and for a delete row of every audited row that is gone.
`past`, the contents a row had, is for `HistoryIsReal` and the refinement only. The role
check is taken as passed: `ParserLifecycle` has it.

`AssetStore` is the abstract specification: a store in which an operation takes effect
at once, with its audit row and, for policies and mappings, its history row. A PUT never
sets back a switch that was flipped meanwhile, nor a switch a PUT; a deletion removes the
row it meant or none. `AssetRegistry` implements it, each commit one step; every other
step is a stutter.

### ServiceHealth

The pool and the gauges belong to one process, so the model is of one worker. The pool is
that of every request with a `DepDB` (`db/session.py:24-31`,
`core/dependencies.py:32-39`): `Requests` are the health requests under way, `Others` all
the others, of which the model knows only that each takes one connection at its first
statement (`Borrow`) and gives it back when it ends (`Return`), at any time or never.
`List` and `Ready` start health requests; `Authenticate` takes the connection that the
session keeps until the request ends; `Connect`, `SelectOne` and `PoolTimeout` are the
check of PostgreSQL, which takes a second one; `Answer` is every other check, with the
verdict of its client (`Verdict`, `OpenSearchVerdict`); `Finish` sets the gauges and
closes the session. `gauge[s]` is the service's infrastructure gauge or its
`service_health_status`. Services change condition at any time. `AsyncClient` says whether
`AsyncOpenSearch` can be imported (`health_client.py:88`), which depends on the
installation (finding 4). The overall status of the answer, latencies, details and
counters are left out.

### Database, Bootstrap, UserAccounts, ReplayRequests, ControlPlane

Five modules, one system: scripts and API workers on one database that starts empty.

**Database** has the tables that exist (`schema`), the committed rows (`rows`) and what
each open transaction has inserted (`tx`). A table has a name, its unique constraints and
the tables its foreign keys refer to. An INSERT waits for a transaction that has inserted
the same unique key (`Locked`) and fails once that key is committed (`Taken`). A row
carries who wrote it, which the properties use; of the remaining columns it has a key and
one more.

**Bootstrap** is the four programs. `migrate.py` autocommits one `CREATE TABLE IF NOT
EXISTS` after the other (`MigrateLook`, `MigrateCreate`: look and creation are two steps,
because `IF NOT EXISTS` takes no lock). `alembic upgrade` creates all tables in one
transaction that ends with the stamp. `seed.py` and `seed_direct.py` look each group of
rows up and insert what they do not find, in one transaction; one item stands for all the
demonstration items of a table, since they are inserted alike. The rows of a group go in
one step: the first unique key among them makes two seeds wait for each other.
`Kill` may come at any step.

**UserAccounts** is login, the check of token and role (`Authorised`), and the creation of
a user: check, INSERT user, SELECT role, INSERT role if missing, link and audit row. The
client has its token after the commit, because FastAPI 0.111 runs the exit code of
`dep_db` before it sends the response.

**ReplayRequests** is the request and the producer. `Publish` fills the buffer of the
worker's producer; `Deliver` and `TimeOut` are librdkafka's thread; `LoseConnection` and
`Crash` leave what was handed over as it is and roll the transaction back.

**ControlPlane** composes them. Its run starts with no table at all, so that every mixture
occurs: logins refused because `audit_logs` does not exist yet, seeds that commit on a
half-migrated database (their tables come before `audit_logs` and `replay_operations`),
users created between two seeds.

**AccountDirectory** is the abstract specification of the accounts: a directory that is
founded once, by the administrator, and grows by one whole account at a time, each with
a username and an e-mail of its own. `ControlPlane` implements it, with `accounts <- ` the
join of the committed `users` and `user_roles`; there is no assumption of serial requests.

What the code does here that a reader may not expect, all of it in the model:

* After `migrate.py`, `alembic upgrade` fails at its first table and never stamps the
  database; the two do not compose, but no order of them breaks the schema.
* With Kafka off a replay becomes QUEUED though nothing is sent
  (`services/replay_service.py:68-71`); and no code moves a replay past QUEUED. So
  `StatusTellsHandover` speaks of Kafka on only. `docs/sih-demo.md:298` is closer to it than to
  the code: QUEUED "if Kafka is healthy".
* A message that the producer gives up, or that dies with its worker, is gone without anybody
  hearing of it. `QueuedIsSent` counts it as having left the producer: it says that none waits
  for ever, not that none is lost.
* The message of a replay leaves before the commit, so a rollback leaves a message without
  a record. `StatusTellsHandover` is what remains true.
* The audit row of a replay has the event as its `resource_id`; the model keeps the id of
  the operation, which the code puts in `after_state`.

## 3. What the runs check

| Run | Instance | Shows |
|---|---|---|
| `parser_concurrent` | 1 parser, 2 sessions, an administrator and a developer, 2 contents, 4 stamps | Overlapping requests: approvals named, newest history row is the status, one registration, audited status changes, PUT never undoes a lifecycle operation, requests end |
| `parser_serial` | same, one request at a time, 5 stamps | The registry implements `ParserFSM`; a history row shows the parser it describes |
| `parser_transition_race` | same, 3 stamps | *Violated:* `LegalTransitions` |
| `config_concurrent` | 1 key, 2 sessions, late execution, Kafka | History and events only show what Redis executed |
| `config_serial` | 2 keys, 1 session, 1 reader; 720,204 states | Distribution implements `ConfigPublication`, in order; Redis not behind the history, snapshots covered, distributions end |
| `config_version_race` | 1 key, 2 sessions | *Violated:* `VersionMonotonic` |
| `schema_concurrent` | the seeded name and 2 others, 2 sessions, 10 ids; 913,854 states | At most as many duplicates as sessions, none of the seeded name; the audit log reports exactly the schemas that requests committed, and only committed versions |
| `schema_name_race` | the seeded name and another, 2 sessions, 6 ids | *Violated:* `NameServed` |
| `asset_concurrent` | a source, a policy, 2 sessions, 2 values, 3 requests; 550,228 states | The commits implement `AssetStore`; histories are complete, existence is audited |
| `health_concurrent` | PostgreSQL, one module, 2 health requests, 1 other request, 2 connections; 98,328 states | Pool, verdicts, gauges, every health request ends |
| `health_fabricated` | OpenSearch (its client installed) and PostgreSQL, 1 request | *Violated:* `NeverFabricated` |
| `control_plane` | 2 scripts, 2 workers, 3 user forms that collide in username, e-mail or a new role, 1 replay, Kafka on or off, 2 processes at a time; 64,812 states | Migrations leave closed schemas; seeds are whole and happen once; accounts are whole and refine `AccountDirectory`; roles are granted, actors logged in, replays audited, statuses true; queued messages leave the producer; everything ends |

Deadlock is checked in every run but `control_plane`, which rests when all accounts and
replays of its small sets exist; that no two of its processes wait for each other there is
`OperationsEnd`.

**Findings.** Four runs show a statement of the repository refuted by its code.

1. `parser_transition_race`: two requests that loaded the same ACTIVE parser, say
   disable and rollback, both commit, and the parser moves from DISABLED to ROLLED_BACK.
   `docs/sih-demo.md:149` says the state machine is enforced.
2. `config_version_race`: the version is taken before the Redis round trip, so the later
   write may carry the smaller version, and `config:version`, called monotonic in
   `services/config_service.py:17`, decreases.
3. `schema_name_race`: two racing creations of a name both commit and every later
   lookup raises. `registry/schema_registry.py:25` says that the second is refused because
   the schema "already exists", and `docs/architecture.md:122` publishes a "JSON map
   name→version→schema", which has room for one schema of a name.
4. `health_fabricated`: the check of OpenSearch ignores what `ping()` returns, and
   comes out HEALTHY when the service is down. `integrations/health_client.py:3` says
   "Never fabricates HEALTHY", `docs/architecture.md:211` "M6 never fabricates health". The
   run has `AsyncClient = TRUE`: it takes it that `AsyncOpenSearch` can be imported.
   `requirements.txt:37` pins `opensearch-py==2.6.0` and nothing there installs `aiohttp`,
   which its asynchronous client needs. In an installation where the import fails, every
   check of OpenSearch ends UNAVAILABLE instead, also of one that serves: nothing is
   fabricated there (`HealthIsObserved` covers it), and no OpenSearch is ever seen either.

One more disagreement has no run of its own. Redis is written before the commit, so a
distribution that then rolls back leaves consumers with a version that PostgreSQL, the
"source of truth", does not have. `ConfigDistribution` has these behaviours (`Abort` after
`Execute`), and for that reason `HistoryWasWritten` and `RedisNotBehind` claim only the
other direction.

### Bounds, and why they are enough

Every bound is a named constant that occurs in a guard: `MaxStamp`, `MaxContent`,
`MaxTime`, `MaxId`, `MaxRequests`. They limit how many requests a behaviour holds and
never stop one that has begun, except `MaxId`, which leaves a request the way out of
`Abort` (no liveness is checked there). `ControlPlane` needs no counter, only `MaxActive`:
its sets of forms and replay ids are finite.

* Two sessions are what a race of read and write needs: a stale row is stale with
  respect to some other commit. Sessions are reused, so a request may meet the effects
  of several others.
* One parser, since no operation touches two; two contents, so that a PUT may or may
  not change the row. Four stamps allow a request to be overtaken by three others.
* A key for the concurrent distribution and two for the serial one, where the order of
  keys within `distribute_all` and in the reader matters. Two milliseconds are enough for
  the clock to have moved or not between any two steps, and so for equal versions.
  `VersionMonotonic` allows equal versions, and the clock of the model never goes back.
* Two names beside the seeded one, so that symmetric requests may or may not collide, and ids
  for four schemas with a version each: two racing for a name and two more.
* Three requests let a row be created, deleted and created again under a third,
  which loaded the first one.
* As many connections as requests is the tight pool: each may hold its first and
  wait for its second. One other request is enough to take from a health request the
  connection it would have had next, and to keep it.
* Two processes at work (`MaxActive`) are a script against a script, a script against a
  request, or two requests; each of the four programs and three requests meets each other
  one, itself included, on every database that the ones before left behind. Three at a
  time would add only waiting in line for the same keys. The three forms are chosen so
  that each pair races for another thing: a new role, a username, an e-mail.
* `ControlPlane` passes over what leaves no trace: a script that finds nothing to do or
  fails at its first statement does not start, the tables and rows that a script finds are
  passed over in one step, and so is a second login of a user.
  While a script has lost a race and can only end (`Beaten`), nothing else begins, which
  nobody can tell from the script ending later. The proofs hold without this guard as well
  as with it: no lemma uses it.

Symmetry (sessions, names, values) is used only in configurations that check no
liveness.

### Fairness

Fairness of the steps of a request under way (weak, except where requests wait for
row locks), never of starting one, of failures, of time, expiry, late execution or the
services' changes.

* `ParserLifecycle`: a handler that can run is run by the event loop. Fairness is strong
  for the sake of a flush that waits for a lock: PostgreSQL queues waiting transactions in order
  of arrival, so later ones cannot overtake it forever. There is no fairness of `Abort`:
  `RequestsEnd` does not rest on failures.
* `ConfigDistribution`: each step ends, as the pipeline has a socket timeout (5 s) and
  the INSERTs of a distribution wait for no lock. Which outcome a step has is not fair:
  `DistributionEnds` holds even if every pipeline times out.
* `ServiceHealth`: all clients have timeouts (HTTP 5 s, Redis 5 s, Kafka 3 s, OpenSearch
  10 s) and so has the pool (30 s, the default of SQLAlchemy). `Answered` rests on the
  last one: without `PoolTimeout`, requests that hold the last connections wait for each
  other for ever. `GaugeSettles` further assumes that the service is polled again and
  again, in its premise. There is no fairness of the other requests: a health request ends
  even if they keep their connections for ever.
* `ControlPlane`: strong for scripts and requests, since each may wait for a unique key
  that others hold and PostgreSQL grants it in order of arrival; weak for the producer,
  which sends a message or drops it within `message.timeout.ms`. Which of the two is not
  fair, and neither are kills, crashes, lost connections, nor the start of anything.
  PostgreSQL's deadlock detector is not modelled: `OperationsEnd` shows that it is never
  needed, because both seed programs take their keys in the same order.

## 4. What is proved

All theorems hold for every value of the constants under the named assumptions of the
module; none bounds the number of sessions, rows, keys or steps (the bounds may be any
number). `tlapm` checks each proof to its last leaf.

**ParserLifecycleProofs.** `TypeCorrect`, and with overlapping requests:
`ParsersAreApproved`, `HistoryIsCurrent`, `RegistrationIsUnique`, `AuditFollowsStatus`,
`UpdatesKeepLifecycle`. None of these properties is inductive. What holds only of
requests that are kept apart is proved under an exclusion narrower than `Serial` (see
below): `ExclusionRefinesFSM` and `ExclusionKeepsTransitions` if no two lifecycle requests
on one parser overlap (`LifecycleAlone`), `ApartHistoryIsTrue` if moreover none overlaps with a
PUT on it (`LifecycleApart`). `SerialRefinesFSM` and `SerialHistoryIsTrue` are corollaries.
* `ApprovalInv`: a transaction that loaded a parser in an approved status loaded the
  approval with it, and only the approve operation writes the column; so no stale write
  can produce an approved status without a name. `LockExclusive` (at most one flushed
  transaction per parser) makes what a flushed transaction is about to write unaffected
  by others.
* `HistoryInv`: stamps lie in the past and differ (`StampsPast`, `StampsDistinct`);
  the stamp of the transaction that holds the lock is newer than all committed ones
  (`HistoryBeforeHolder`); a parser with history or a registration exists
  (`RegisteredExists`).
* `FreshStatus`: under `LifecycleAlone` the status that a lifecycle request has loaded is
  still the parser's, since only lifecycle requests write it. So its commit is a legal move of
  `ParserFSM`, and every other commit a stutter. `FreshRow`: under `LifecycleApart` the
  whole row is, so the commit leaves what the history row describes.

**ConfigDistributionProofs.** `TypeCorrect`, `HistoryIsTrue`, `EventsAreTrue` in full
generality, late execution included. `WrittenInv` ties the program counter of a request
to what Redis has seen: a request past `execute` for a key has its pipeline in
`written`, and its distributed rows too.
* `PublicationRefined`: `Execute` and `ExecuteLate` map to `Publish`, `Finish` to `Announce` or a
  stutter, `Commit` to `Record`. The invariants of the unconditional theorems justify the
  last two; with `Serial` and no late pipelines those below show that each publication is the
  newest.
* Three theorems assume `~LateWrites` and an exclusion the code does not enforce:
  `OneWriterVersionsGrow` and `OneWriterSnapshotsCovered` that one request at a time is between
  reading the clock and the end of its pipeline (`OneWriter`), `KeyApartRedisKeepsUp` that no
  two requests have the same key in hand between SELECT and pipeline (`KeyApart`). The first
  would be a lock around some lines of `_publish`, the second a lock per key. `WriterInv`: all
  versions are past, the pending one is at least `redis_version`, and that at least the
  version of every key. `ContentInv`: nothing recorded, or published and about to be, is newer
  than what Redis has. `SerialVersionsGrow`, `SerialSnapshotsCovered` and `SerialRedisKeepsUp` are
  corollaries.
* `DistributionWorkIsBounded`: each step of a request lowers a budget of five steps for each
  key and four more, or ends the request. Timeouts do not restore it, because there is one
  retry. With fairness this is why `DistributionEnds` holds; fairness stays with TLC.

**SchemaRegistryProofs.** `TypeCorrect`, `CreationsAreAudited`, `DuplicatesAreBounded`
(for any finite number of sessions). `OverlapBoundsRows` says more: if at most K creations of
a name overlap, it gets at most K rows; the seeded name keeps the row it starts with
(`Limit`). `BoundInv(K)` is the invariant: rows and requests that
may still add one are together at most K, since no creation starts once a row is
committed. With K = 1 this is `ApartNamesServed`, of which `SerialNamesServed` is a corollary.

**AssetRegistryProofs.** `TypeCorrect`, `ContentIsRecorded`, `HistoryOnlyReal`,
`ExistenceIsAudited` (a row that no seed made exists exactly if the log says that it was
created and not deleted; a seeded one has no create row). `BaseInv` has the types, the
shape of transactions, that at most one transaction holds a row and that it still finds
it. `HistoryInv` adds that what the holder of the lock read back is what its commit will
leave. `ExistenceInv` adds that ids are handed out once and belong to one creation.
* `StoreRefined`: each commit is a step of `AssetStore`. `StoreInv` puts the invariants
  together and adds `GoneIsLogged`: a row that a request loaded is still there or its deletion
  is logged, so that an operation on a row that is gone is one the store allows.
* `ApartCommitsAsShown`: if requests for one asset did not overlap, a commit would replace
  the row its handler loaded, the before_state of the audit row, by the row its handler made,
  which is the answer. Neither holds today (`registry/source_registry.py:88`,
  `registry/policy_registry.py:99`); `AssetStore` is what holds instead.

**ServiceHealthProofs.** `TypeCorrect`; `PoolIsAccounted`; `HealthIsObserved`, which
assumes that no service has the check of OpenSearch, or that its client cannot be imported
(finding 4).
* `RoomyPoolNeverBlames`: with two connections for every health request under way and one for
  every other request on the same pool, nobody ever waits for a connection, so an outage of
  PostgreSQL is never reported because the pool is full. `Others` is any finite set; its size
  is the number of other requests that use the database at one time, which nothing in the
  code limits.
* `OneSparePreventsStandoff`: with more connections than health requests, a full pool holds a
  connection that can come back without another being taken, whatever the number of other
  requests: the second one of a health request, or that of another request, which takes no
  second. So health requests are never all waiting for each other; they may still wait for
  other requests to end.
* Both rest on `HeldOK`, which says at which step a request holds what, and on counting. TLC
  finds either violated with one connection less.

**ControlPlaneProofs.** `TypeCorrect`, `MigrationsClosed`, `SeedsWhole`, `SeedsOnce`,
`AccountsAreWhole`, `RolesAreGranted`, `NobodyActsUnseen`, `ReplaysAreAudited`,
`StatusIsTrue` and the refinement `DirectoryRefined`, for any number of scripts, workers,
forms and replays, and any `MaxActive`. Each layer rests on the one before.
* `MigrationInv`: a migration at table i has all the tables before it, its own or
  somebody's, and all foreign keys point backwards.
* `CoreInv`: what an open transaction has inserted, exactly, for every step of every
  request (`RequestInv`); and of the scripts that have inserted something, at most one is
  in the middle of its groups, while nothing is seeded yet, and what it has inserted is a
  prefix of the groups (`SeedInv`). The role rows, first in both programs, are the lock
  that the schema `ues` and the administrator lack. So a commit is a whole seed, and
  the first. `SeedsWhole` and `SeedsOnce` hold as long as no seeded source is deleted (section 5).
* `FullInv`: a username or an e-mail has one holder among committed rows and open
  transactions together (`HoldInv`); a role that was not seeded comes with a link
  (`GrantInv`); users, links and audit rows correspond (`AccountInv`).
* `HandoverInv`: an id belongs to one request or one row, and a message was handed over
  exactly if the row, open or committed, is QUEUED.
* `DirectoryRefined` maps a commit of a seed to `Found`, of a creation to `Enrol`, and
  every other step to a stutter, with lemmas on the join of `users` and `user_roles`.
* `NeverCircular`: no set of processes in which each waits for another of the set exists, at
  any number of them. A script that is waited for waits for nobody (`ScriptsWaitFirst`), a
  worker that is waited for waits at most for a worker that only has to commit
  (`WorkersWaitBriefly`): chains of waiting have at most two links. This is the part of
  `OperationsEnd` that is a safety property.

**Exclusion that would be enough.** The violation runs show that overlapping requests break
`LegalTransitions`, `VersionMonotonic` and `NameServed`. The theorems of the form
`Spec /\ []Exclusion => ...` say what it would be enough to exclude; everything else may
still overlap. TLC checked each of them before it was proved, on the specification
restricted to states that satisfy the exclusion, and found them not to hold of something
weaker: `HistoryRowIsParserState` fails under `LifecycleAlone` alone, `CommitDoesAsShown`
fails without `RequestsApart`, `HoldersMoveOn` fails with as many connections as health requests.

**Only model-checked.** The liveness properties `RequestsEnd`, `DistributionEnds`,
`Answered`, `GaugeSettles`, `QueuedIsSent` and `OperationsEnd`, as TLAPS proves neither
liveness under fairness nor ENABLED; of three of them a safety half is proved
(`DistributionWorkIsBounded`, `OneSparePreventsStandoff`, `NeverCircular`). And that overlapping requests break what the findings
say: a violation needs no proof.

## 5. What is not modelled, and why

* Search and list endpoints, the metrics page, logging, wire formats, settings: they
  change no state.
* Payloads: what a parser, schema or policy contains matters only as far as two contents
  are equal or not.
* Passwords, hashing, `is_active` (no operation changes it) and the expiry of tokens: they
  only refuse requests that the models allow.
* The indexes of the tables, their other columns and the enum types: they constrain none
  of the modelled rows. The labels that `seed_direct.py:139` writes into enum columns
  ('active', 'module') are not those the ORM reads, and `fix_status.py` repairs two of the
  columns: a sequential fault that a query shows, outside of these models.
* `alembic downgrade`, which drops every table; `fix_admin_hash.py`, `fix_status.py`,
  `verify_imports.py`, `generate_contracts.py`: one statement or no state each.
* What the consumers (M1 to M5) do with a message: they are not in the repository.
* Front end, contracts, deployment: no protocol state.
* What the API does to seeded rows is outside of `ControlPlane`, in the models of the
  registries. One operation there matters to the seeds: `DELETE /api/v1/sources/{id}`
  (`api/sources.py:87`) may remove a seeded source. A seed that runs after it finds everything
  but the source, inserts that and commits: the rows of the first seed are then no longer
  whole, and a second seed has committed. `SeedWhole`, `SeededOnce` and their theorems speak of
  deployments in which no seeded source has been deleted. Roles, the administrator, parsers,
  policies, mappings and schemas are deleted by no code, so the unique keys that seeds race
  for stay.
* Isolation inside PostgreSQL beyond READ COMMITTED rows and locks, and inside Redis
  beyond atomic MULTI/EXEC: taken from their documentation.
* Two workers have two pools and two sets of gauges; `ServiceHealth` models one.
* The registries keep their own models of sessions and rows instead of `Database`, which
  has no UPDATE and DELETE; their interleavings do not involve the accounts beyond the
  check at the start of a request.

## 6. Order of the work, and what may follow

Done, in this order, the most consequential state first: parser lifecycle and its
abstract machine; configuration distribution; schema registry; source, policy and
mapping registries; service health; bring-up, accounts and replays composed, with the
abstract directory; the inductive invariants of each; the abstract store of the assets and
the abstract publication, with their refinements; the exclusions that would be enough.

May follow:

1. Registries and distribution composed, so that `content` is the committed rows of the
   registries instead of a number; what a distribution of parsers may contain of a parser
   whose lifecycle changes meanwhile.
2. A bound on the steps of a health request, as `DistributionWorkIsBounded` is for
   distributions, and the analogue of `NeverCircular` for the row locks of the registries.
