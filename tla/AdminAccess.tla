----------------------------- MODULE AdminAccess -----------------------------
(***************************************************************************)
(* hr_admin_users (core/rbac/models.py) and the three ways it is used: the *)
(* command line (scripts/create_admin.py) creates and deactivates admins,  *)
(* HTTP Basic auth (api/deps.py) asks for an active admin at every call,   *)
(* and the panel (api/main.py) asks once, at login, and trusts its signed  *)
(* cookie from then on.                                                    *)
(***************************************************************************)
EXTENDS Naturals, FiniteSets

CONSTANTS
  Names,     \* admin user names
  Scripts,   \* runs of create_admin.py
  Browsers,  \* browsers that visit /admin
  NoAdmin    \* a cookie without admin_username

ASSUME NoAdminAssumption == NoAdmin \notin Names

VARIABLES
  admins,    \* hr_admin_users: rows [name, by, active], `by` set the password
  script,    \* where each run of the script is, and the name it works on
  login,     \* the login form each browser has in progress
  session,   \* the admin_username in each browser's cookie
  revoked,   \* history: names whose deactivation the script has reported
  late       \* history: logins begun after such a report

adminVars == <<admins, script, login, session, revoked, late>>

ScriptStages == {"idle", "free", "created", "loaded", "deactivated", "exited"}

AdminTypeOK ==
  /\ admins \subseteq [name : Names, by : Scripts, active : BOOLEAN]
  /\ script \in [Scripts -> [stage : ScriptStages, name : Names]]
  /\ login \in [Browsers -> [stage : {"none", "asked", "known"}, name : Names]]
  /\ session \in [Browsers -> Names \cup {NoAdmin}]
  /\ revoked \subseteq Names
  /\ late \subseteq Browsers

\* Before the first run of the script there is no admin.
AdminInit ==
  /\ admins = {}
  /\ script \in [Scripts -> [stage : {"idle"}, name : Names]]
  /\ login \in [Browsers -> [stage : {"none"}, name : Names]]
  /\ session = [b \in Browsers |-> NoAdmin]
  /\ revoked = {}
  /\ late = {}

NameTaken(n) == \E a \in admins : a.name = n
\* filter_by(username=..., is_active=True)
Active(n) == \E a \in admins : a.name = n /\ a.active

----------------------------------------------------------------------------
(* scripts/create_admin.py: each command is a query and then, in the same  *)
(* session but after any time, a write.                                    *)

EnterScript(c, s) == script' = [script EXCEPT ![c].stage = s]

\* cmd_create up to the query: passwords that differ or are too short, and a name
\* that is taken, end it.
BeginCreate(c) ==
  /\ script[c].stage = "idle"
  /\ \/ EnterScript(c, "exited")
     \/ EnterScript(c, IF NameTaken(script[c].name) THEN "exited" ELSE "free")
  /\ UNCHANGED <<admins, login, session, revoked, late>>

InsertAdminUnchecked(c) ==
  /\ admins' = admins \cup {[name |-> script[c].name, by |-> c, active |-> TRUE]}
  /\ EnterScript(c, "created")
\* The unique index on username decides, not the query.
InsertAdmin(c) ==
  IF NameTaken(script[c].name)
  THEN EnterScript(c, "exited") /\ UNCHANGED admins
  ELSE /\ admins' = admins \cup {[name |-> script[c].name, by |-> c, active |-> TRUE]}
       /\ EnterScript(c, "created")

CommitCreate(c) ==
  /\ script[c].stage = "free"
  /\ InsertAdmin(c)
  /\ UNCHANGED <<login, session, revoked, late>>

\* cmd_deactivate: a name without an active admin ends it.
BeginDeactivate(c) ==
  /\ script[c].stage = "idle"
  /\ EnterScript(c, IF Active(script[c].name) THEN "loaded" ELSE "exited")
  /\ UNCHANGED <<admins, login, session, revoked, late>>

\* The row that `first` loaded is updated by its key.
CommitDeactivate(c) ==
  /\ script[c].stage = "loaded"
  /\ \E a \in admins :
       /\ a.name = script[c].name
       /\ admins' = (admins \ {a}) \cup {[a EXCEPT !.active = FALSE]}
  /\ revoked' = revoked \cup {script[c].name}
  /\ EnterScript(c, "deactivated")
  /\ UNCHANGED <<login, session, late>>

\* Interrupted, or the database raised before the COMMIT.
ScriptFails(c) ==
  /\ script[c].stage \in {"free", "loaded"}
  /\ EnterScript(c, "exited")
  /\ UNCHANGED <<admins, login, session, revoked, late>>

----------------------------------------------------------------------------
(* The panel's login, AdminAuth in api/main.py.                            *)

PostLogin(b, n) ==
  /\ login[b].stage = "none"
  /\ login' = [login EXCEPT ![b] = [stage |-> "asked", name |-> n]]
  /\ late' = IF n \in revoked THEN late \cup {b} ELSE late \ {b}
  /\ UNCHANGED <<admins, script, session, revoked>>

KnownAdmin(n) == NameTaken(n)
MayLogIn(n) == Active(n)

\* _lookup, in the threadpool; no active admin or a wrong password is a refusal.
LookUpAdmin(b) ==
  /\ login[b].stage = "asked"
  /\ \/ login' = [login EXCEPT ![b].stage = "none"]
     \/ MayLogIn(login[b].name) /\ login' = [login EXCEPT ![b].stage = "known"]
  /\ UNCHANGED <<admins, script, session, revoked, late>>

\* The awaited lookup is over: the cookie is set by what it found.
OpenSession(b) ==
  /\ login[b].stage = "known"
  /\ session' = [session EXCEPT ![b] = login[b].name]
  /\ login' = [login EXCEPT ![b].stage = "none"]
  /\ UNCHANGED <<admins, script, revoked, late>>

Logout(b) ==
  /\ session[b] # NoAdmin
  /\ session' = [session EXCEPT ![b] = NoAdmin]
  /\ UNCHANGED <<admins, script, login, revoked, late>>

\* authenticate: the cookie, and nothing else.
PanelOpen(b) == session[b] # NoAdmin

AdminNext ==
  \/ \E c \in Scripts : BeginCreate(c) \/ CommitCreate(c) \/ BeginDeactivate(c)
                        \/ CommitDeactivate(c) \/ ScriptFails(c)
  \/ \E b \in Browsers : (\E n \in Names : PostLogin(b, n))
                         \/ LookUpAdmin(b) \/ OpenSession(b) \/ Logout(b)

----------------------------------------------------------------------------
(* Properties.                                                             *)

\* Of the runs that create one name, at most one says "created", and the admin's
\* password is the one typed there, though each run only looked before it wrote.
CreatedOnce ==
  \A c \in Scripts : script[c].stage = "created" =>
    \A a \in admins : a.name = script[c].name => a.by = c
=============================================================================
