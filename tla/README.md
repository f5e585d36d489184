# Formal models of the HR assistant

TLA+ specifications of this service, TLC configurations that model-check them on
small instances, and TLAPS proofs of the theorems that hold for every instance.
The repository is a FastAPI service that answers HR questions with an LLM agent
over the company's ERP database. A question comes from Slack
(`POST /webhook/slack`) or from a web client (`POST /query`); the asker's access
level decides which rows the agent's SQL may read.

## 1. The system

| part | source | state it keeps | operations |
|---|---|---|---|
| Slack webhook | `api/routes/slack.py`, `adapters/slack.py:59-117` | table `slack_seen_events`, shared by all worker processes | verify the signature, record the event or see a duplicate, submit `process_event`, acknowledge |
| Agent executor | `core/executor.py`, `api/main.py:70-81` | per process: a FIFO queue without a limit, `AGENT_EXECUTION_CONCURRENCY` threads | submit, run, drain at shutdown |
| Slack event processing | `adapters/slack.py:125-380` | `_bot_user_id_cache` | look the sender up, resolve the scope, read the thread, run the agent, post |
| `/query` and its stream | `api/routes/query.py`, `api/services/query_service.py` | one generator per client | resolve the scope, submit, send heartbeats, send the end |
| Agent factory | `core/agent/factory.py` | `_agent`, the shared agent of one process | `get_agent`, `reset_shared_agent` |
| Query runner | `core/agent/runner.py` | the attempt of each query | three attempts, then an apology |
| ERP identity resolver | `core/rbac/erp_identity.py`, `resolution.py`, `access.py` | a TTL cache per process | `by_person_id`, `by_email` |
| SQL guard | `core/rbac/sql_guard.py`, `policy.py`, `context.py` | none | rewrite a statement so that it reads only what the scope allows |
| Redaction | `core/rbac/redaction.py` | none | mask what looks like private data in an answer |
| User registry | `core/rbac/models.py`, `repository.py`, `api/routes/users.py`, `user_service.py`, `api/admin.py` | table `hr_assistant_users` | register, deregister (soft), edit in the panel, look up |
| Admin accounts | `api/main.py:41-62`, `api/deps.py`, `api/auth.py`, `scripts/create_admin.py` | table `hr_admin_users`, panel sessions in signed cookies | Basic auth, panel login and logout, create, deactivate and list admins |
| Settings | `core/config.py` | none after start | read `os.environ` and `.env`, fallbacks, production guards |
| Schema migrations | `migrations/`, `core/rbac/models.py` | the app database's schema and `alembic_version` | `upgrade head`, `downgrade -1`, `create_all` at start |
| ERP seed script | `scripts/seed_erp.py` | a demonstration ERP database | drop, create and fill 24 tables in one transaction |
| Engines and sessions | `core/db.py` | connection pools (library) | open, commit, close |
| Providers, prompts, logging, health, web page | `core/providers/`, `core/agent/prompts.py`, ... | none that a property is about | - |

Interactions. The webhook and the `/query` route submit jobs to the same
executor of their process. A job runs `process_event` or `run_agent`; both call
the agent runner, which calls the factory; the agent's `db.run` calls the SQL
guard with the context the agent was built with. The scope is resolved by the
identity resolver: in the job for Slack, before the stream for `/query`.
Processes share the two databases and the environment they read their settings from;
the workers, `create_admin.py` and alembic all write the app database, and each of them
decides for itself, at start, which database that is.

What is hard here:

- *Concurrency.* Threads of one pool share `_agent` and the identity cache
  without a lock; processes share the dedupe table; the ERP changes between
  the two statements of one identity read.
- *Delivery.* Slack repeats events for a long time, a signed request can arrive
  again inside the signature window, a post to Slack may fail after it was
  delivered, clients hang up while their job is queued.
- *Failure.* Databases, LLM and Slack calls may raise at each step; processes
  are drained and restarted, or killed.
- *Time.* Row expiry, signature window and cache TTL all compare clocks that
  were read earlier than they are used.
- *Check, then act.* Admin accounts, user rows and missing tables are looked up in one
  transaction and written in another; forms of the panel write back what they
  showed earlier.
- *Order of legal steps.* `create_all` and the migrations make the same tables; a
  deregistered user still holds a Slack id; the seed script may be run again.
- *Conventions.* `None` as a context means "deny" to a route and "no
  restrictions" to the agent factory.

What makes each part correct:

- webhook: an event is a first sight once per TTL, and each first sight one job; the
  table stays bounded; a recorded event is processed unless a crash or one of two
  failures behind the INSERT took it;
- executor: a job that was accepted runs, also over a graceful shutdown;
- request path: only a request that was cleared runs statements, in exactly the
  scope it was granted; a sender is not answered after an apology; a stream has one
  status, one end and nothing after it; every request that stays ends;
- agent factory and runner: a restricted query never runs on an agent of another
  scope; a retry never reuses what it failed on; a query always ends;
- identity resolver: a revoked or deactivated person loses access within the
  TTL, a new one gains it at once;
- SQL guard: the rewritten statement reads no row outside the scope, still finds
  every row inside it, and depends on no forbidden column;
- registry: a Slack id has one row and stands for one employee for good; an answer
  given to an admin stays true until somebody changes the row;
- admins: a name is created once; a deactivation that was reported is in force;
- settings: production processes of one deployment agree on their database and their
  session key, and the key is none of the known placeholders;
- migrations: the schema at the last revision is the one the models declare, and a
  DEBUG worker serves only with its tables;
- seed script: all of the data or none, once, and the rows of a person agree.

The complete list of hazards, each at its line with the properties that watch it,
is in `PROJECT.json` under `hazards`.

## 2. Modules

```
 StreamContract  <-----refined by-----  RequestPath  --EXTENDS-->  IdentityPromise
                                                                        ^
 SlackDelivery      SharedAgent             ErpIdentity --refines (proved)
      ^                  ^                       ^
   SlackProofs    SharedAgentProofs   ErpIdentityProofs
      v
 ThreadHistory               SqlScope <- SqlGuard <- SqlGuardProofs

 RequestPath <- RequestPathProofs
 AdminAccess <- UserRegistry <- UserRegistryProofs    AppSchema <- Deployment <- DeploymentProofs

 ErpTables <- ErpSeed <- ErpSeedProofs                       (<- is "EXTENDED by")
```

`MCx.tla` and `MCx*.cfg` are the instances TLC checks. `PROJECT.json` (`map`) gives
the source lines of each definition.

### SlackDelivery - webhook, dedupe table, executor, process life cycle

| model | code |
|---|---|
| `sent`, `firstTs`, `FirstDelivery`, `Retry` | Slack: signed requests, each with its timestamp; any of them may arrive any number of times at any process |
| `Accept` | `verify_signature`: the 300 s window, both sides inclusive. A forged or late request is a 403 and changes nothing, so it has no action |
| `Stamp` | `now = datetime.now(UTC)` in `already_processed`, read before the session is opened |
| `RecordFirstSight`, `AckDuplicate` | the transaction: DELETE of expired rows, INSERT, COMMIT; `IntegrityError` |
| `TransactionFails`, `CommitUnacknowledged` | any other database error: before the COMMIT takes place, or of a COMMIT that did take place; a 500 both times |
| `Dispatch`, `AckIgnored`, `RouteRaises` | behind the INSERT: `agent_executor.submit`, the filters of the route, an exception (a null `text` or `event`) |
| `StartJob`, `FinishJob` | a pool thread; what the job does is RequestPath |
| `Shutdown`, `Restart`, `Crash` | lifespan shutdown with `wait=True`; a kill |

DELETE, INSERT and COMMIT are one action: they are one database transaction, and
two transactions that insert the same key are ordered by the primary key. The
clock of Slack may run ahead of the servers' by `Skew`. `RetrySpan` bounds how long
Slack signs retries. Nothing bounds the time a handler takes: the code sets no limit.
A first sight is one INSERT that was committed; it has the `seen_at` it wrote and the
time of its COMMIT (`sights`), and a job is an event with the number of its first
sight. `lost` are the jobs a crash took, `failed` those that were never submitted though
their row is there.

### SharedAgent - get_agent, reset_shared_agent and the retry loop

One thread's query goes `lookup -> building -> returning -> invoking`. The test
of `_agent`, the assignment to it and the read in `return _agent` are separate
steps because the code takes no lock. An agent is the record of who built it,
in which attempt of which query and for which context: what the agent may read is
decided by that context, through the closure of `_scoped_run`. `Fail` includes
the reset that the `except` clause makes. What `query` does before and behind its `try`
may raise (`load_schema_block`, `_extract_tables`, `strip_forbidden`): `Start` and
`Answer` then end in "raised". Waiting times between attempts, token counts and prompt
texts are left out.

### ErpIdentity and IdentityPromise - who may see what

`ErpIdentity` has one action for each step of `by_person_id`: the time stamp
(`Begin`), a valid entry (`Hit`) or not (`Miss`), the two statements of `_fetch`
(`ReadIdentity`, `ReadGroups`), the store, the removal of a negative result
(`Deny`), and an exception. Threads interleave between all of them, and the ERP
changes at any time. Two statements see different snapshots, as in READ
COMMITTED. `activatedAt`, `deactivatedAt` and `revokedAt` are history variables.

`IdentityPromise` is what the callers rely on, without a cache: a request asks,
and is later told a level which the ERP granted less than a TTL before the
question or later. `ErpIdentity` refines it (`PromiseKept`), so RequestPath uses
the promise in place of the cache.

### RequestPath and StreamContract - from a request to its answer

`RequestPath` models both kinds of request of one process. A Slack event is a job
from the start: lookup, scope, agent, reply, and the fallback reply when the post
raises. A `/query` resolves its scope first and then streams, with its agent call
as a job of the same FIFO pool; its client may leave at any moment, and its job
still keeps its place and thread. A wait for the job that timed out is followed by a
heartbeat, also when the job has ended in between (`TimeOut`, `Heartbeat`). A post
to Slack is one call of `slack_sdk`'s client, which sends it once more after a connection
error, so up to `Attempts` copies arrive, whatever the call returns (`Deliver`).
`stage` is the program counter of a request;
`ran` records which request ran statements in which scope. The agent call is
abstracted to "any number of statements, then an answer or an exception", which
SharedAgent justifies (a query always ends, and on an agent of its own scope).

`StreamContract` is the docstring of `/query`: one `status`, heartbeats, exactly
one of `answer` or `error`, nothing more.

### ThreadHistory - what a job takes from its thread

The detail of one step of RequestPath's Slack jobs: `_bot_user_id` and
`_fetch_thread_history`. The thread is the sequence of its messages, so a position
stands for Slack's unique and growing `ts`. People, another app and the bot itself write at
any time; a job runs any time after its message. `CachedBotId`, `AskBotId` and
`AuthTest` are the test of the cache, the call and its result, in any number of
threads. `FetchThreadHistory` is the call to Slack and the loop over its messages,
with the order of the code's tests. That Slack returns the latest replies up to
`latest`, at most `limit` and perhaps fewer, and perhaps the message the thread began
with in front of them, is an assumption about Slack (the first half is the code's own,
`adapters/slack.py:219-220`). `InOrder` is that loop, as a recursive
function. The module's names have the prefix `Thread`, since `SlackProofs` extends it
together with `SlackDelivery`.

### SqlScope and SqlGuard - what a statement may read

`SqlScope` has the classification of the tables, the rows that belong to a person,
and the predicates `_inject_scope_into_tree` adds to one SELECT, in terms of its
sources. `SqlGuard` has whole statements: what `rewrite_sql` refuses, the
rewriting of every SELECT, and `_scoped_run`, which answers a refusal with a text. A
parsed statement is the sequence of its queries, which name their subqueries by
position; subqueries may be in WHERE (`IN`, `EXISTS`, `NOT EXISTS`), in FROM, or
combined by `UNION`, `INTERSECT` and `EXCEPT`. A row keeps what the guard looks
at: a key, the reference it compares (`person_id` or `person_team_id`) and one
forbidden column. A source may have a column-alias list (`renamed`): then its key and its
forbidden column go by other names, and a predicate the guard adds by the old name binds
something else. Two sources may be joined on the forbidden column without naming it
(`Shares`: JOIN ... USING, NATURAL JOIN). `WellFormed` says what a parsed statement is, `Stored` what PostgreSQL
stores (finite tables with primary keys). `Results` gives a statement its meaning on a
database: a recursive function from each query, and each row of the enclosing query,
to the rows returned. This meaning is PostgreSQL's, not the repository's, and serves as
the reference.

The properties compare two databases, the full one and `View`, which is what is
left of it when nobody else's rows exist. An answer that is the same on both was
computed from own rows alone. `ForbiddenStaysHidden` compares in the same way with a
database whose forbidden columns are blank. The properties have the premises without
which they fail, each of which is a limit of what the guard looks at:

- `OnePerson`: no SELECT names `person` twice (finding 2);
- `NoAliasList`: no column-alias list, since the added predicate uses the table's own
  column names;
- `NamesColumns`: the statement names each column it reads, by its own name. The guard
  looks at `exp.Column` nodes only (`Readable`), and neither the columns shared by USING or
  NATURAL JOIN nor the names in a column-alias list are among them;
- `OperandsListColumns`: below an EXISTS, where wildcards are let through, the operands
  of a combination list their columns (finding 3).

### AdminAccess and UserRegistry - who may administer, and who is registered

`AdminAccess` has the admin table and its three users. A run of `create_admin.py` is a
query (`BeginCreate`, `BeginDeactivate`) and, any time later, a write
(`CommitCreate`, `CommitDeactivate`), or it fails between them. The panel's login is
the form, the awaited lookup in the threadpool, and the cookie (`PostLogin`, `LookUpAdmin`,
`OpenSession`); from then on `authenticate` looks at the cookie only (`PanelOpen`).

`UserRegistry` extends it with the users' table, since every write of that table is
an admin's. A request is received, passes `require_admin` in a session of its
own, and then runs its route: `CommitUser` and `RefreshUser` for POST, `LoadUser` and
`CommitRemoval` for DELETE. The database may fail each of them before its COMMIT
(`InsertFails`, `ClearFails`) or behind it (the 500 of `InsertUser`, `RefreshUser` and
`ClearActive`): the routes catch an `IntegrityError` only, so that a 500 says nothing
about the row. A row carries the columns something depends on. SQLAlchemy
sends an UPDATE only for what changed since the row was loaded, which `was` stands for.
The panel opens a form and saves all of it later (`OpenForm`, `SaveForm`), creates and
deletes rows. What the panel wrote is in `touched`: an admin's edit may overrule any
promise the routes made, and the properties are about what nobody edited.
`tardy` and `late` are the requests and logins that came after `--deactivate` had
printed its success.

### AppSchema and Deployment - settings, tables and processes of one deployment

`AppSchema` is pure: a schema is a revision stamp and a set of parts, the tables,
columns and indexes that some revision changes. `Up(k, _)` and `Down(k, _)` are the two
functions of each migration file, `UpFits` and `DownFits` what makes them raise,
`CreateAll` what `Base.metadata.create_all` adds. PostgreSQL runs `upgrade head` in one
transaction. SQLite commits each DDL statement alone, so `Statements` and
`CreateStatements` list what the revisions up to `0003` and `create_all` make one by one;
`0004` begins with an `ALTER COLUMN`, which SQLite has not.

`Deployment` has the processes: workers, runs of `create_admin.py`, runs of alembic.
Importing `core.config` builds a process's settings (`Settle`): `os.environ` first, then
the `.env` of the directory it was started in; three of the production guards ask
`os.getenv` instead (`Guards`). A URL is not yet a database: a relative SQLite path names a
file under the directory of the process (`Db`). `LookForTables` and `CreateTables` are the two halves of
`create_all`, `WarmUp` the agent that `lifespan` builds, with the refusals of the two
startup checks. On SQLite, `BeginOnSqlite`, `RunStatement` and `StampRevision` are a
migration in steps of one commit, any of which may fail or be the last, while other
processes look for the same tables. `lost` are the processes whose database lost a table
to a downgrade since they looked for it. A `.env` that `load_dotenv` has merged into the environment counts as
environment.

### ErpTables and ErpSeed - the demonstration data

`ErpTables` lists the DDL of the script with its foreign keys and the order in which
`--reset` drops the tables. `ErpSeed` is runs of the script, each one transaction that may
be interrupted anywhere, and what it writes about one person: employment with exit
and confirmation, team assignments, a leave, a week's log, a resignation, a status
history. A random number is a choice between the ends of its range and every `Grain`-th
number of it. The functions draw for each person independently, so one person stands
for the 500. `Share` is the loop that splits the hours of a week over one or two projects,
its lower limit of five and its clamp included. The minutes of a log and those of its
projects are independent draws that no other row has to agree with, and are left out.

## 3. What the runs check

| run | instance | question and result |
|---|---|---|
| `slack_delivery` | 2 events (one of them dropped by the route), 2 processes, 1 thread each, TTL 1, window 0, retries for 1, time to 2, 1 crash | `OncePerTtl`: retries, replays, delayed handlers, failed transactions and restarts never make an event a first sight twice within a TTL, or submit one first sight twice. `TableBounded`: a row is more than a TTL behind another only if it was committed later. `NothingDropped`: a first sight that is to be answered was processed, or is in the memory of one process, or was lost in one of three named ways. All hold |
| `shared_agent` | 2 threads, 1 person, 3 attempts, 1 query per thread | `ScopeIsolation`, `RetryIsFresh`, `OnlySharersTouchShared` hold under every interleaving of the unlocked cache; `EveryQueryEnds`: in an answer, the apology or an exception |
| `erp_identity` | 2 threads, 1 person, 2 groups, TTL 2, time to 3, 2 ERP changes | the three bounds on stale access, and the refinement `PromiseKept` |
| `request_path` | one `/query`, one Slack event, one thread, 1 change, 1 heartbeat | `OnlyCleared`, `OneReply` (calls to Slack that arrive twice, none or once, whatever they return), `StreamsKeepContract`; `EveryStreamEnds`, `EveryEventEnds`: nothing hangs behind a job whose client has left, a full pool or a failed call |
| `revocation_window` | one Slack event, TTL 2, time to 3, 1 change | finding 1: a statement may run unrestricted a TTL after the revocation |
| `sql_guard` | 3469 statements of eleven shapes, 16 databases of two persons, three requesters | `OwnRowsOnly` and `OwnRowsKept` hold for statements that name `person` once per SELECT and rename no columns, `ForbiddenStaysHidden` for those that name their columns and whose operands below an EXISTS list theirs |
| `thread_history` | a DM and a channel, 2 people and another app, 4 messages, page 4, 2 turns | `ThreadTypeOK`, `NoForeignAnswer`, `AsItStood`: a history is the end of the requester's own conversation as it stood when the message was written, behind the message the thread began with if Slack cut the page |
| `sql_guard_self_join` | the statements without column-alias lists and USING, one restricted requester | finding 2: a second reference to `person` has no predicate |
| `sql_guard_forbidden` | the same statements, a restricted and an unrestricted requester | finding 3: wildcard operands below an EXISTS are compared |
| `user_registry` | 1 admin name, 2 runs of the script, 1 browser, 2 registrations, 1 removal, 1 Slack id, 2 employees, 2 rows, 1 write of the panel | `CreatedOnce`, `RevokedAtOnce`, `RegistrationSettled`, `DeregisteredStays`, `OneEmployeePerSlackId` hold under every interleaving of the separate transactions and every failure of them |
| `deployment` | 2 workers, `create_admin.py` in another directory, alembic; the documented production and local environments with up to two variables changed, in the environment or in a process's own `.env`; a PostgreSQL database and two relative SQLite paths | `OneDeployment`, `HeadMatchesModels`, `TablesWhenServing` hold over any number of starts, crashes, upgrades and downgrades, also of those that end between two statements |
| `erp_seed` | 2 runs, each pair of options, grain 180 | `NoHalfSeed`, `RowsAgree`; the module's `OrdersFit`: both table orders respect the foreign keys |

Each passing run of a machine with steps also checks the type invariant of its module (`SqlGuard` has one step and no type invariant). The
mutants in `PROJECT.json` are plausible slips (an inclusive comparison, a reset
that always happens, a lost `return`); each breaks the property it is listed
with under the same configuration.

Why the bounds are enough:

- `slack_delivery`: two processes are what a duplicate needs, and two events
  what it takes for the DELETE of one event's transaction to reach another's row.
  Time runs past the TTL, so that a row expires while a handler is still on its way to
  its COMMIT and a retry is a first sight again. A window of 0 accepts a request at the
  instant of its signature only: what a longer one adds is later arrival, which the
  retries and the handlers' unbounded time have too. Skew is 0; the proof covers any.
- `shared_agent`: with two threads one can fail, reset or build between any two steps
  of the other, and the attempts are the code's three. The three safety properties
  are proved for any number of threads.
- `erp_identity`: two threads are a reader and a writer of one entry. Two ERP
  changes are a revocation and a reinstatement (or a deactivation between two
  statements), and time passes the TTL. Persons do not interact.
- `request_path`: one request of each kind share a pool of one thread, so each
  waits for the other. Time and the ERP each move once between any two steps.
  The window run needs a clock that passes the TTL after the answer.

- `sql_guard`: two persons, one of them the requester; every class of tables is
  there, and teams, leave and project rows belong to either person. Each shape takes
  every table in each place, with OR, a correlated subquery, each select list and
  up to three sources; the last two shapes are column-alias lists and shared columns. `rewrite_sql` keeps nothing between statements,
  so a behaviour has one.

- `thread_history`: four messages are a question of another person, the requester's,
  the answer to the former and the requester's next one. Slack may return fewer than a
  page, and a full page holds more than the turns kept, as in the code (15 and 10).

- `user_registry`: two requests race for one Slack id, or one follows the other over a
  removal between them; two runs of the script create, or one deactivates while
  another creates. One write of the panel comes between any two steps. All of it is also
  proved for any number of each.
- `deployment`: two workers race for a missing table; a third process creates tables in
  another directory with another `.env`, and on a relative SQLite path in another
  database; a fourth migrates. Up to two
  variables are misplaced at once, in the environment or in one process's directory.
  Processes start again without a bound: the state space is finite.
- `erp_seed`: a second run meets what the first left. The ends of each range of random
  numbers are where dates cross; grain 180 adds joining dates all over the years.

Deadlock is checked in `deployment` only: elsewhere bounded time, queries, changes and
runs end every behaviour, and a system without requests may rest.

### Fairness

Weak fairness, per thread or request, of steps that the code or its
platform will take when it can: the event loop resumes a handler or a generator;
a free pool thread takes the next job. That a database, LLM or Slack call returns or
raises is an assumption about those systems and their libraries' defaults: the code sets
no limit on any of them (`core/providers/factory.py:12-24` gives the models none, and
`core/db.py:24` the database none). Without it nothing that waits for them ends. Nothing is assumed of Slack, clients, the ERP,
the clock, shutdowns or crashes. `StartJob` is fair because `ThreadPoolExecutor`
threads block on the queue and nothing else.

### Findings

1. `revocation_window`: `core/config.py:97` says the TTL bounds the window in which a
   revoked membership still works. What is bounded is the age of the identity when
   the scope is resolved (`RevocationBound`). The scope is then used for the
   whole agent run, and for `/query` also while the job is queued.
2. `sql_guard_self_join`: `core/rbac/context.py:13` gives SELF "own person row and own
   person-linked rows only". `_person_alias` takes the first reference to `person` of a
   SELECT, and the loop over the sources skips all of them
   (`core/rbac/sql_guard.py:324-326`), so a second reference is not restricted.
3. `sql_guard_forbidden`: `core/rbac/sql_guard.py:286-287` lets wildcards in COUNT and below
   EXISTS through since "neither returns column data". With `EXISTS (SELECT * ... INTERSECT
   SELECT * ...)` the rows of the operands are compared, so whether there are any
   depends on every column, also on those that "nobody may ... read" (`:222-224`).

Met while modelling, and without a run of their own:

- `get_agent` reads `_agent` again in its `return` (`core/agent/factory.py:136`); another
  thread's `reset_shared_agent` in between makes it return `None`, which costs the
  query one of its three attempts. `SharedAgent` has these steps apart.
- The comment at `core/agent/runner.py:84` says the cache is reset only when the failing
  agent was the shared one; the code resets whatever is cached by then.
- A deactivated admin's open panel session stays open (`api/main.py:62`), though
  `create_admin.py:7` says that `--deactivate` revokes access. `RevokedAtOnce` is about
  requests and logins that begin later.
- The guard that compares the two database URLs reads them as they were given
  (`core/config.py:208-214`): an `APP_DATABASE_URL` that names the fallback ERP database
  passes it when `DATABASE_URL` is unset.
- `create_admin.py` calls `create_all`; run before the first `alembic upgrade head`, it makes
  tables that the baseline revision then fails to create. `HeadMatchesModels`
  holds all the same: the upgrade stops.
- `.env.example:37` offers SQLite for local work, and the README (81-85) makes the tables
  with `alembic upgrade head`; on SQLite that stops at `0003`, since `0004` alters a column.
- `_SEEN_EVENT_TTL_SECONDS` (600) is shorter than the time an event can arrive in: Slack
  signs its last retry some six minutes after the first request, and a signed request
  is accepted for another 300 s (`adapters/slack.py:99`). A late replay of a late retry, or a
  redelivery behind a handler that took minutes from its clock reading to its COMMIT
  (`adapters/slack.py:65`, `73`), is a first sight again. The tests ask for reprocessing after
  the TTL (`tests/test_slack_dedupe.py:74-95`) and the docstring promises no more
  (`adapters/slack.py:60`), so `OncePerTtl` says what holds, with the row's own clock reading
  as the start of the TTL.
- A COMMIT that took place but was not acknowledged, and an exception of the route behind
  it, answer 500; Slack's retries are then duplicates and the event is never answered
  (`NothingDropped`).
- A relative SQLite path as `APP_DATABASE_URL` passes the production guards
  (`core/config.py:204-218`) and is as many databases as there are working directories;
  `core/config.py:201-203` gives this as the reason for the guard.
- On SQLite, a table that a failed `create_all` or revision left without its index stays
  without: `create_all` looks for tables, and the models' index is not made again.
- `docs/slack-setup-guide.md:141` says that unregistered users get no response; the code
  posts a denial (`adapters/slack.py:290-300`).
- Seed data: the joining date of a person who is made to leave may be moved after the
  confirmation was drawn from it (`scripts/seed_erp.py:1004`, `1021-1024`), so the confirmation
  of such a person may lie more than six months after joining, and after the exit (`RowsAgree`
  leaves that open); none lies before the end of probation; the loop over "16 weeks" makes up to 17
  Mondays; a team's own end may precede its start (`1105-1109`); the tables the resolver
  asks for groups are not among those seeded.

## 4. What is proved

All theorems hold for any sets and numbers that satisfy the modules' named
assumptions. Each module follows the same argument: an inductive invariant (`IInv`,
`Inv`, `PathInv`, `RegistryInv`, `ThreadInv`, ...) holds initially, is preserved by each
action, and implies the property. Every invariant the passing runs check is a theorem.

The meaning of a statement and the loop over a thread's messages are recursive functions
over data of any length. The induction is done on sets: `LeastExists`
takes the least element of a set of numbers (from the library's `WFMin`), `Upwards` and
`Downwards` follow from it. That a recursive definition defines a function at all is
proved first (`LoopExists`, `SolutionExists`): partial functions are extended one
argument at a time.

**SlackProofs**, webhook - `TypeCorrect`, `DispatchedOncePerTtl`, `TableStaysBounded`,
`NothingIsDropped`, `SightsRunOnce`, for any TTL, window, retries and skew: nothing is
assumed of how they compare. `SightInv` says that an event's row is that of its last first
sight, and that an event without a row had its last one more than a TTL ago;
`StampInv` that no handler's clock reading is from the future, which is what a DELETE
by an old reading needs. `JobInv` says that a job is in one place only: with the handler that
recorded it, in one queue, with one thread, or ended; `SubmitInv` that it is submitted
once and not while its handler still has it; `OwedInv` that no first sight is
unaccounted for. `SightsRunOnce`: no thread takes up a job that another has or has had.

**SlackProofs**, threads - `ThreadTypeCorrect`, `NobodyElsesTurns`, `HistoriesStand`, for
any number of people, jobs and messages, any page, with the message the thread began with
or without, and any number of turns. `ThreadInv`
adds `Author` to the properties: who can have written a message with which marks, that
only a person's message has a job, that in a DM the person is its owner, whom the bot
answers, and that a job has no turns before its fetch. With it, the test of the code
(`Kept`) comes to "the requester's, or the bot's in a DM" (`KeptMeans`). `LoopEnds` says that
the loop over the messages of a page yields the end of what it yields over the whole
thread, `RecentEnds` the same of the last turns; both ends compose (`ConcatSuffixes`). A page that
has the thread's first message as well yields it in front of such an end (`LoopOpens`),
and stays that or becomes an end when the last turns are taken (`OpenedEnds`). This is
`TurnsStand`. A message that arrives later stands behind the job's own and changes no
conversation (`ReceiveKeeps`).

**SharedAgentProofs** - `TypeCorrect`, `ScopesAreIsolated`, `RetriesAreFresh`,
`SharedAgentIsSpared`. `Past(a)` says that agent `a` was built in a finished attempt
or in the one its builder is in. With it, a new agent differs from all
others, so one that some query failed on never returns to the cache (`FailedInv`).
`AttemptInv` bounds the attempts. `RetriesRunOut` is the variant of the retry loop:
attempts left first, then the phases left in this one.

**ErpIdentityProofs** - `TypeCorrect`, `RevocationIsBounded`, `DeactivationIsBounded`,
`ProvisioningTakesEffect`, and the refinement `CacheIsTransparent`. The key is the
code's choice to date an entry from before the fetch: `CacheInv` says that the
person was privileged (active) at the entry's date or later, `FetchInv` the same of
what a fetch has read so far, dated by its `now`. The refinement proof
maps every action of `ErpIdentity` to a step of `IdentityPromise` or a stutter: the
end of a lookup is `Tell`, with the bounds of the invariant as its guard. It
needs `Ttl > 0`; the default is 900, and no code checks the setting.

**RequestPathProofs** - `TypeCorrect`, `OnlyClearedRun`, `RepliesOnce`, and the refinement
`StreamsKeep` of `StreamContract`. None of the three properties is inductive, since each
speaks of an outcome and the code decides it several steps before: `Fits(r)` ties what a
request was told (`ClearedInTime`), what its thread holds (`ThreadFits`) and what its
stream has carried (`StreamFits`) to its stage, and `RunFits` keeps the scope of a
statement after its job is done. Of a reply that was delivered more than once,
`AnswerCopies` says what has arrived while the error reply is on its way, `SaidOnce`
what has arrived at the end. A job that a thread takes is at "queued" because
`QueueInOrder` says so of the whole queue, which holds every request once. A step of one
request leaves the others where they are (`OthersSame`). In the refinement, a stream is
`Open` from its status until its job's outcome is sent, so what the generator sends
next, and a disconnect, are always allowed by the contract. The modules' bounds
(`MaxTime`, `MaxChanges`, `MaxBeats`) and the pool's size play no part. `ThreadsAccounted`
and `NoResultForgotten` need another invariant (`AccountInv`): a thread is busy exactly for a
request at work, so each job that ends gives its thread back, and a job's outcome
stays until the generator or nobody takes it.

**SqlGuardProofs** - `SelectReadsOwnRows` and `SelectKeepsOwnRows` about one SELECT, and
`AnswersFromOwnRows`, `AnswersKeepOwnRows` and `ForbiddenColumnsUnread` about whole statements,
for any `Statements` that are well formed and any `Databases` that PostgreSQL can store:
subqueries in WHERE and FROM, correlated or not, and combinations, nested to any depth.
The predicates on a source hold exactly of the requester's own rows
(`PredicatesOfSource`), also for the one whose subquery reads `person_team`
(`TeamsOfView`); the row of an outer join that found nothing satisfies none. So the joined
rows are those of the view (`JoinsOnView`), and an inner query that returns the same on
both databases makes its query return the same (`RowsScoped`). Queries refer to later
positions only, so `Downwards` carries this from the innermost queries to the whole
statement (`ResultsScoped`). The invariant `StatementInv` is small, an answered statement was
accepted and has the answer of its rewriting: all the work is in the meaning of the
rewriting. The theorems assume what the guard checks (classified tables only) and what
the guard does not look at (`person` once, no column-alias list).

`ForbiddenColumnsUnread` compares the database with the masked one, where the rows are not
the same but correspond: keys are unique, so blanking a column merges no two rows
(`JoinedHidden`) and COUNT counts as many. No accepted condition of a statement that names
its columns sees the difference (`HoldsHidden`). Queries below an EXISTS return the masked rows of what they return on the
database, all others return rows without the column (`RowsBare`, `RowsHidden`), and
the statement itself is not below an EXISTS.

**UserRegistryProofs** - `TypeCorrect`, `NameCreatedOnce`, `RevocationHolds`,
`RegistrationsSettle`, `RemovalsLast`, `OneEmployeeForGood`. `RegistryInv` has a part for
the admins (`AdminInOrder`: one row per name, and the names reported deactivated have
no active row), one for the rows (`RowsInOrder`, and `StoodIsHeld`: whoever a Slack id
stood for is still in a row with that id), one for the requests' progress
(`HandlersInOrder`) and one for what each answer says (`AnswersInv`). The last needs
to know what other steps do to a row: `RowStep` is what every step keeps of the rows,
and `RowWrite` shows it of every write that respects the unique constraint. A registration
that is answered 500 may have written its row; that it stands for its Slack id like any
other is in `RowsInOrder` and `StoodIsHeld`, which ask for no answer.

**DeploymentProofs** - `TypeCorrect`, `ProductionAgrees`, `HeadIsModels`,
`DebugWorkersHaveTables`. `AtRevision` says which parts a schema can have at each
revision of a PostgreSQL database when `create_all` may have been called at any of them;
each revision, in both directions, and `create_all` preserve it (`UpKeeps`, `DownKeeps`,
`MakeKeeps`), and at the last revision it leaves the models' schema only. Of an SQLite
database, which no run of alembic brings past `0003`, `Shapes` says just that.
`GuardsPassed` carries the guards from `Settle` to every later step. `HasFound` is what
`create_all` has seen, and `TablesStay` that it stays so, until a statement of a migration
drops a table (`OthersTold`): no step but that one takes a table away, so nothing need
be known of what half-done migrations have left.

**ErpSeedProofs** - `TypeCorrect`, `SeededWhollyOrNot`, `LivesAreInOrder`, for
any grain and any number of runs. `SeedInOrder` follows what the transaction has done so far: a
second copy of the lookup rows is always on the way to the refusal by the unique
`person_id`. `LifeInOrder` says of each part of a life what holds from the step on
that writes it. Of the split of a week, `ShareFits` says that a share is neither negative
nor more than what remains, and the last one all of it, whatever number was drawn
(`SharesAddUp`). The theorem rests on `ErpTables.OrdersFit`, a statement about constants
of the script (the two orders respect the foreign keys), which TLC evaluates in `erp_seed`.

Only model-checked: liveness (`EveryQueryEnds`, `EveryStreamEnds`,
`EveryEventEnds`), since the provers do not handle ENABLED and fairness. What these need of
safety is proved: `RetriesRunOut`, `ThreadsAccounted` and
`NoResultForgotten` say that what is waited for is still there, that a thread is given
back, and that the loop gets nearer its end. That each such step is taken at last
is left to TLC. What is proved of
the SQL guard is relative to `Results`, which states PostgreSQL's semantics and cannot be
checked against it here.

## 5. What is left out

- Payloads without an `event_id`, and `url_verification`: they touch no state.
- A refusal of a request before any state is changed (400, 401, 403, 404, 503, or a 500 of
  a read) has no effect, and an action only where something waits for it.
- That an event whose row is there and whose job is gone is answered after all: nothing
  in the code does it. The model shows these events (`lost`, `failed`), and
  `NothingDropped` says that there are no others.
- `by_email` of the resolver is called by no route.
- Messages of a Slack thread that people edit or delete later.
- The texts of prompts, answers, logs and Block Kit cards; waiting times.
- Of SQL: sqlglot's parsing, strings of several statements, LATERAL, parenthesised
  joins, a CTE named like a classified table, which the guard takes for the table,
  qualified names, ORDER BY, GROUP BY and arithmetic, and USING or NATURAL in an outer join.
  Column-alias lists and shared columns are modelled, and excepted where the guard does
  not look at them (section 2). A LEFT JOIN on a scoped table
  becomes an inner join, by the added predicate: rows are lost, not gained, which is why
  `OwnRowsKept` is about statements without outer joins.
- How the two checks of the classification at start (`assert_tables_classified`,
  `assert_person_free_tables_have_no_person_fk`) inspect the ERP: `Deployment` has their
  outcome, and `ClassesAssumption` of `SqlScope` is their subject.
- GET /users, `--list` and the health probe: they read and change nothing.
- bcrypt: a password is right or wrong. Malformed settings, timeouts, pool sizes and
  provider names. What PostgreSQL does with two runs of alembic at once, and offline mode.
- Of the seed script: names, holidays, team dates, competencies, skills, requisitions,
  reviews, leave limits and employment history, rows that no other row must
  agree with; the minutes of logs. The random numbers are drawn without their weights.
- Redaction: a best-effort rewriting of the answer's text by regular expressions.
- LangChain, SQLAlchemy, FastAPI and the Slack client are external. They
  appear as "returns or raises".
- Providers, prompts, logging and the web page keep no state a property is about.

## 6. Plan

1. Lemmas that shorten the longest proofs (`SqlGuardProofs`, `UserRegistryProofs`).
2. A variant for the stages of a request, as `StepsLeft` is for a query.
3. Redaction as a pure operator on the kinds of text it tells apart, if a property
   of it is worth the space.
