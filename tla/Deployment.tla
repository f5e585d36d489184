----------------------------- MODULE Deployment -----------------------------
(***************************************************************************)
(* One deployment: its environment, its app databases, and the processes   *)
(* that use them - workers of the API, runs of scripts/create_admin.py and *)
(* of alembic.  Each process builds its own Settings (core/config.py) from *)
(* the environment they share and from the .env of the directory it is     *)
(* started in, and may be started again and again.  A relative SQLite URL  *)
(* names a file under that directory.                                      *)
(***************************************************************************)
EXTENDS AppSchema

CONSTANTS
  Workers, AdminScripts, Migrators,  \* processes, by the program they run
  Dirs, StartedIn,    \* directories, and the one each process is started in
  Anywhere,           \* stands for the directory where it makes no difference
  Urls,               \* database URLs
  LocalApp, LocalErp, \* sqlite:///./data/app.db and sqlite:///./data/company.db
  Relative,           \* SQLite URLs with a relative path, those two among them
  Postgres,           \* the URLs of PostgreSQL databases; the others are SQLite
  Secrets, Weak,      \* session keys, and the known-weak placeholders among them
  Unset, Blank,       \* no such variable; a variable set to the empty string
  Environments        \* environments the deployment may have, see Environment

Processes == (Workers \cup AdminScripts) \cup Migrators
Given(v) == v \notin {Unset, Blank}

\* What os.environ or a .env file may say.  INCLUDED_TABLES by what becomes of it:
\* "ok", "unclassified" by sql_guard, or "personal", classified as person-free but
\* with a key into person.
Variables == [debug : {"true", Unset}, open : {"true", Unset}, cors : {"origins", "*", Unset},
              tables : {"ok", "unclassified", "personal", Unset},
              secret : Secrets \cup {Unset, Blank}, app : Urls \cup {Unset, Blank},
              erp : Urls \cup {Unset, Blank}]
\* os: the process environment with the repository's .env under it, which load_dotenv
\* has merged in; cwd: the .env of each directory.
Environment == [os : Variables, cwd : [Dirs -> Variables]]
Databases == Urls \X (Dirs \cup {Anywhere})

ASSUME DeploymentAssumption ==
  /\ StartedIn \in [Processes -> Dirs] /\ Anywhere \notin Dirs
  /\ {LocalApp, LocalErp} \subseteq Relative /\ LocalApp # LocalErp
  /\ Relative \subseteq Urls /\ Postgres \subseteq Urls \ Relative
  /\ Weak \subseteq Secrets /\ Secrets \cap Processes = {}
  /\ {Unset, Blank} \cap (Urls \cup Secrets) = {} /\ Unset # Blank
  /\ Environments \subseteq Environment

VARIABLES
  env,      \* the environment, as long as the deployment lives
  schema,   \* the schema in each database, as far as it is the app's
  stage,    \* where each process is
  missing,  \* what create_all of a process has found missing and not made yet
  line,     \* on SQLite, the revision and the statement of it a migration is at
  lost      \* history: processes whose database lost a table since they looked

vars == <<env, schema, stage, missing, line, lost>>

Stages == {"down", "settled", "looked", "created", "serving", "upgrading", "downgrading"}

TypeOK ==
  /\ env \in Environment
  /\ schema \in [Databases -> Schema]
  /\ stage \in [Processes -> Stages]
  /\ missing \in [Processes -> SUBSET Parts]
  /\ line \in [Processes -> [rev : 0..HeadRevision, at : Nat]]
  /\ lost \subseteq Processes

Init ==
  /\ env \in Environments
  /\ schema = [d \in Databases |-> Empty]
  /\ stage = [p \in Processes |-> "down"]
  /\ missing = [p \in Processes |-> {}]
  /\ line = [p \in Processes |-> [rev |-> 0, at |-> 0]]
  /\ lost = {}

----------------------------------------------------------------------------
(* Settings.                                                               *)

\* pydantic's order of sources: os.environ, then env_file.
Read(p, key) == IF env.os[key] # Unset THEN env.os[key] ELSE env.cwd[StartedIn[p]][key]

Debug(p) == Read(p, "debug") = "true"
Open(p) == Read(p, "open") = "true"
AnyOrigin(p) == Read(p, "cors") \in {"*", Unset}

\* The fallbacks.  A random key is one no other process has: the process stands for it.
AppUrl(p) == IF Given(Read(p, "app")) THEN Read(p, "app") ELSE LocalApp
ErpUrl(p) == IF Given(Read(p, "erp")) THEN Read(p, "erp") ELSE LocalErp
Key(p) == IF Given(Read(p, "secret")) THEN Read(p, "secret") ELSE p

\* The database behind the URL.
Db(p) == <<AppUrl(p), IF AppUrl(p) \in Relative THEN StartedIn[p] ELSE Anywhere>>
OnPostgres(p) == AppUrl(p) \in Postgres

\* A guard on the merged setting instead of os.getenv.
MergedGuards(p) ==
  /\ Key(p) \notin Weak /\ ~Open(p) /\ ~AnyOrigin(p)
  /\ Given(AppUrl(p)) /\ AppUrl(p) # ErpUrl(p)
\* The guards of production; three of them ask os.getenv.
Guards(p) ==
  /\ Given(env.os.secret) /\ env.os.secret \notin Weak
  /\ ~Open(p)
  /\ Given(env.os.app) /\ env.os.app # env.os.erp
  /\ ~AnyOrigin(p)

----------------------------------------------------------------------------
Enter(p, s) == stage' = [stage EXCEPT ![p] = s]

\* Importing core.config builds the settings; a guard that fails ends the process.
Settle(p) ==
  /\ stage[p] = "down"
  /\ Enter(p, IF Debug(p) \/ Guards(p) THEN "settled" ELSE "down")
  /\ UNCHANGED <<env, schema, missing, line, lost>>

\* A worker's lifespan calls create_all in DEBUG, create_admin.py always.
CallsCreateAll(p) == p \in AdminScripts \/ (p \in Workers /\ Debug(p))

LookForTables(p) ==
  /\ stage[p] = "settled" /\ CallsCreateAll(p)
  /\ missing' = [missing EXCEPT ![p] = CreateAll({}, Missing(schema[Db(p)].has))]
  /\ Enter(p, IF missing'[p] = {} THEN "created" ELSE "looked")
  /\ lost' = lost \ {p}
  /\ UNCHANGED <<env, schema, line>>

\* What one commit creates: on PostgreSQL all that is missing, on SQLite what the
\* first statement makes that still has to be executed.
Outstanding(p) == {i \in DOMAIN CreateStatements : CreateStatements[i] \subseteq missing[p]}
InOneCommit(p) ==
  IF OnPostgres(p) THEN {missing[p]}
  ELSE {CreateStatements[i] : i \in {k \in Outstanding(p) : \A j \in Outstanding(p) : k <= j}}

CreateTables(p) ==
  /\ stage[p] = "looked"
  /\ \E batch \in InOneCommit(p) :
       IF CanMake(batch, schema[Db(p)].has)
       THEN /\ schema' = [schema EXCEPT ![Db(p)].has = @ \cup batch]
            /\ missing' = [missing EXCEPT ![p] = @ \ batch]
            /\ Enter(p, IF batch = missing[p] THEN "created" ELSE "looked")
       ELSE Enter(p, "down") /\ missing' = [missing EXCEPT ![p] = {}] /\ UNCHANGED schema
  /\ UNCHANGED <<env, line, lost>>

\* What get_agent() of the lifespan refuses INCLUDED_TABLES for.
Listed(tables) == tables # Unset
AllClassified(tables) == tables # "unclassified"
NonePersonal(tables) == tables # "personal"

WarmUp(p) ==
  /\ p \in Workers
  /\ stage[p] = IF Debug(p) THEN "created" ELSE "settled"
  /\ LET t == Read(p, "tables")
     IN Enter(p, IF Listed(t) /\ AllClassified(t) /\ NonePersonal(t) THEN "serving" ELSE "down")
  /\ UNCHANGED <<env, schema, missing, line, lost>>

----------------------------------------------------------------------------
(* Migrations: `alembic upgrade head` and `alembic downgrade -1`.          *)

ToldOfLoss(d, has) ==
  IF Tables \cap schema[d].has \subseteq has THEN lost
  ELSE lost \cup {q \in Processes : Db(q) = d /\ stage[q] \notin {"down", "settled"}}

\* On PostgreSQL one transaction.
Upgrade(p) ==
  /\ p \in Migrators /\ stage[p] = "settled" /\ OnPostgres(p)
  /\ schema' = [schema EXCEPT ![Db(p)] = UpgradeHead(@)]
  /\ Enter(p, "down")
  /\ UNCHANGED <<env, missing, line, lost>>

Downgrade(p) ==
  LET d == schema[Db(p)]
  IN /\ p \in Migrators /\ stage[p] = "settled" /\ OnPostgres(p)
     /\ d.stamp > 0 /\ DownFits(d.stamp, d.has)
     /\ schema' = [schema EXCEPT ![Db(p)] = Down(d.stamp, d)]
     /\ lost' = ToldOfLoss(Db(p), Down(d.stamp, d).has)
     /\ Enter(p, "down")
     /\ UNCHANGED <<env, missing, line>>

\* On SQLite every statement is committed alone.  The revisions to run are settled by
\* the stamp at the start.
BeginOnSqlite(p) ==
  LET k == schema[Db(p)].stamp
  IN /\ p \in Migrators /\ stage[p] = "settled" /\ ~OnPostgres(p)
     /\ \/ /\ k < HeadRevision /\ Enter(p, "upgrading")
           /\ line' = [line EXCEPT ![p] = [rev |-> k + 1, at |-> 1]]
        \/ /\ k > 0 /\ Enter(p, "downgrading")
           /\ line' = [line EXCEPT ![p] = [rev |-> k, at |-> 1]]
     /\ UNCHANGED <<env, schema, missing, lost>>

Migrating(p) == stage[p] \in {"upgrading", "downgrading"}

\* One statement of a revision.  What an upgrade makes in an order, its downgrade
\* drops in the opposite one, and the other way about in 0002; SQLite has no ALTER
\* COLUMN, which 0004 begins with.  A statement that fails ends the run.
RunStatement(p) ==
  LET k == line[p].rev
      S == Statements(k)
      creates == Creates(k, stage[p] = "upgrading")
      s == IF creates THEN S[line[p].at] ELSE S[Len(S) + 1 - line[p].at]
      has == schema[Db(p)].has
      rest == IF creates THEN has \cup s ELSE DropTables(s \cap AllTables, has \ s)
  IN /\ Migrating(p) /\ line[p].at \in DOMAIN S
     /\ IF (creates /\ CanMake(s, has)) \/ (~creates /\ s \cap (AllTables \cup Indexes) \subseteq has)
        THEN /\ schema' = [schema EXCEPT ![Db(p)].has = rest]
             /\ line' = [line EXCEPT ![p].at = @ + 1]
             /\ lost' = ToldOfLoss(Db(p), rest)
             /\ UNCHANGED stage
        ELSE Enter(p, "down") /\ UNCHANGED <<schema, line, lost>>
     /\ UNCHANGED <<env, missing>>

\* alembic_version is updated where it still says what it said at the start.
StampRevision(p) ==
  LET k == line[p].rev
      from == IF stage[p] = "upgrading" THEN k - 1 ELSE k
      to == IF stage[p] = "upgrading" THEN k ELSE k - 1
  IN /\ Migrating(p) /\ line[p].at \notin DOMAIN Statements(k)
     /\ IF Statements(k) # <<>> /\ schema[Db(p)].stamp = from
        THEN /\ schema' = [schema EXCEPT ![Db(p)].stamp = to]
             /\ line' = [line EXCEPT ![p] = [rev |-> k + 1, at |-> 1]]
             /\ Enter(p, IF stage[p] = "upgrading" THEN "upgrading" ELSE "down")
        ELSE Enter(p, "down") /\ UNCHANGED <<schema, line>>
     /\ UNCHANGED <<env, missing, lost>>

\* Done, terminated or crashed.
Stop(p) ==
  /\ stage[p] # "down"
  /\ Enter(p, "down")
  /\ missing' = [missing EXCEPT ![p] = {}]
  /\ line' = [line EXCEPT ![p] = [rev |-> 0, at |-> 0]]
  /\ lost' = lost \ {p}
  /\ UNCHANGED <<env, schema>>

Next ==
  \E p \in Processes :
    \/ Settle(p) \/ LookForTables(p) \/ CreateTables(p) \/ WarmUp(p) \/ Stop(p)
    \/ Upgrade(p) \/ Downgrade(p) \/ BeginOnSqlite(p) \/ RunStatement(p) \/ StampRevision(p)

Spec == Init /\ [][Next]_vars

----------------------------------------------------------------------------
(* Properties.                                                             *)

Running(p) == stage[p] # "down"

\* Production processes have one APP_DATABASE_URL and one session key (core/config.py:
\* 178), which is none of the placeholders, whatever the .env of the directories they
\* are started in says: the admin the script creates is in the database the workers
\* ask, migrations go there too, and a cookie one worker signed opens the panel of
\* another and after a restart.  The one exception is a relative SQLite path, which no
\* guard refuses: it is as many databases as there are directories.
OneDeployment ==
  \A p, q \in Processes : Running(p) /\ Running(q) /\ ~Debug(p) /\ ~Debug(q) =>
    /\ Key(p) = Key(q) /\ Key(p) \notin Weak
    /\ Db(p) = Db(q) \/ (AppUrl(p) = AppUrl(q) /\ AppUrl(p) \in Relative /\ StartedIn[p] # StartedIn[q])

\* A database at the last revision is what the models declare, though create_all may
\* have made some of its tables between two migrations in either direction.
HeadMatchesModels == \A d \in Databases : schema[d].stamp = HeadRevision => MatchesModels(schema[d].has)

\* A DEBUG worker that serves has its tables, until a downgrade takes one away: of
\* processes that found the same table missing at once, the one that comes second does
\* not get as far, and a migration that failed halfway leaves nothing it would miss.
TablesWhenServing ==
  \A w \in Workers \ lost : stage[w] = "serving" /\ Debug(w) => Tables \subseteq schema[Db(w)].has
=============================================================================
