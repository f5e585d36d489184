---------------------------- MODULE UserRegistry ----------------------------
(***************************************************************************)
(* hr_assistant_users under its concurrent writers: the /users routes with *)
(* their admin check (api/deps.py, api/services/user_service.py), and the  *)
(* panel's forms (api/admin.py).  Each request reads and writes in short   *)
(* transactions of its own; the rows may change between any two of them.   *)
(***************************************************************************)
EXTENDS AdminAccess

CONSTANTS
  Registrations, \* POST /users requests
  Removals,      \* DELETE /users/{id} requests
  SlackIds,
  Employees,  \* employee_id, the ERP's person.id
  NoSlack,    \* NULL in slack_user_id, which only the panel may store
  NoRow,      \* no row with this id
  NoBody,     \* a request that has not come yet
  MaxRows,    \* bound of the model: rows ever inserted
  MaxTouched  \* bound of the model: what the panel writes

Ids == 1..MaxRows
Row == [slack : SlackIds \cup {NoSlack}, employee : Employees, active : BOOLEAN]
Handlers == Registrations \cup Removals
Registration == [as : Names, slack : SlackIds, employee : Employees, id : Ids \cup {0}]
Removal == [as : Names, id : Ids]

ASSUME RegistryAssumption ==
  /\ NoSlack \notin SlackIds /\ NoRow \notin Row
  /\ NoBody \notin Registration /\ NoBody \notin Removal
  /\ MaxRows \in Nat \ {0} /\ MaxTouched \in Nat
  /\ Registrations \cap Removals = {}

VARIABLES
  users,     \* hr_assistant_users: id -> row
  inserted,  \* ids given out so far, by a sequence
  body,      \* what each request carries: credentials, path and body
  stage,     \* where its handler is
  was,       \* is_active of the row a removal has loaded
  answer,    \* the status of its response
  form,      \* the edit form each browser shows
  tardy,     \* history: requests that came after their admin was reported deactivated
  stood,     \* history: the employees each Slack id has stood for
  touched    \* history: the Slack ids and the row ids the panel has written

handlerVars == <<body, stage, was, answer, tardy>>
vars == <<adminVars, users, inserted, handlerVars, form, stood, touched>>

Answers == {"none", "401", "201", "204", "404", "409", "500"}

TypeOK ==
  /\ AdminTypeOK
  /\ users \in [Ids -> Row \cup {NoRow}]
  /\ inserted \in 0..MaxRows
  /\ DOMAIN body = Handlers
  /\ \A h \in Registrations : body[h] \in Registration \cup {NoBody}
  /\ \A h \in Removals : body[h] \in Removal \cup {NoBody}
  /\ stage \in [Handlers -> {"new", "begun", "allowed", "loaded", "committed", "done"}]
  /\ was \in [Handlers -> BOOLEAN]
  /\ answer \in [Handlers -> Answers]
  /\ form \in [Browsers -> [id : Ids \cup {0}, row : Row \cup {NoRow}]]
  /\ tardy \subseteq Handlers
  /\ stood \in [SlackIds -> SUBSET Employees]
  /\ touched \subseteq SlackIds \cup Ids

Init ==
  /\ AdminInit
  /\ users = [i \in Ids |-> NoRow]
  /\ inserted = 0
  /\ body = [h \in Handlers |-> NoBody]
  /\ stage = [h \in Handlers |-> "new"]
  /\ was = [h \in Handlers |-> FALSE]
  /\ answer = [h \in Handlers |-> "none"]
  /\ form = [b \in Browsers |-> [id |-> 0, row |-> NoRow]]
  /\ tardy = {}
  /\ stood = [s \in SlackIds |-> {}]
  /\ touched = {}

Exists(i) == users[i] # NoRow
SlackTaken(s) == \E i \in Ids : Exists(i) /\ users[i].slack = s
\* get_by_slack_user_id: the active rows of a Slack id.
Found(s) == {i \in Ids : Exists(i) /\ users[i].slack = s /\ users[i].active}

----------------------------------------------------------------------------
(* Writing a row, by whoever does it.                                      *)

MayHoldIfNoneActive(i, s) == s = NoSlack \/ Found(s) \subseteq {i}
\* uq_hr_user_slack: NULL conflicts with nothing.
MayHold(i, s) == s = NoSlack \/ \A j \in Ids \ {i} : Exists(j) => users[j].slack # s

SetRow(i, row) ==
  /\ users' = [users EXCEPT ![i] = row]
  /\ stood' = [s \in SlackIds |-> stood[s] \cup {users'[j].employee : j \in Found(s)'}]

Keep == UNCHANGED <<users, inserted, stood>>
Enter(h, s) == stage' = [stage EXCEPT ![h] = s] /\ UNCHANGED answer
Respond(h, a) == stage' = [stage EXCEPT ![h] = "done"] /\ answer' = [answer EXCEPT ![h] = a]

----------------------------------------------------------------------------
(* A request and its admin check.                                          *)

Receive(h, b) ==
  /\ stage[h] = "new"
  /\ body' = [body EXCEPT ![h] = b]
  /\ tardy' = IF b.as \in revoked THEN tardy \cup {h} ELSE tardy
  /\ Enter(h, "begun")
  /\ UNCHANGED <<adminVars, was, form, touched>> /\ Keep

ReceiveRegistration(h) ==
  h \in Registrations /\ \E n \in Names, s \in SlackIds, e \in Employees :
    Receive(h, [as |-> n, slack |-> s, employee |-> e, id |-> 0])
ReceiveRemoval(h) == h \in Removals /\ \E b \in Removal : Receive(h, b)

\* require_admin's session is closed when the route opens its own; without
\* credentials, with a wrong password or without an active admin it is a 401.
RequireAdmin(h) ==
  /\ stage[h] = "begun"
  /\ Respond(h, "401") \/ (Active(body[h].as) /\ Enter(h, "allowed"))
  /\ UNCHANGED <<adminVars, body, was, tardy, form, touched>> /\ Keep

----------------------------------------------------------------------------
(* register_user and deregister_user.                                      *)

\* INSERT and COMMIT went through: the row is there, or its conflict was rolled back
\* and answered with 409.  If only the acknowledgement of the COMMIT is lost, that
\* is a 500 with the row stored.
InsertUser(h) ==
  /\ inserted' = inserted + 1
  /\ IF MayHold(inserted', body[h].slack)
     THEN /\ SetRow(inserted', [slack |-> body[h].slack, employee |-> body[h].employee,
                                active |-> TRUE])
          /\ body' = [body EXCEPT ![h].id = inserted']
          /\ Enter(h, "committed") \/ Respond(h, "500")
     ELSE Respond(h, "409") /\ UNCHANGED <<users, stood, body>>

\* Any other error of the database is a 500 with nothing stored; an INSERT that is
\* not committed has used up its id all the same.
InsertFails(h) ==
  /\ inserted' \in {inserted, inserted + 1}
  /\ Respond(h, "500")
  /\ UNCHANGED <<users, stood, body>>

CommitUser(h) ==
  /\ h \in Registrations /\ stage[h] = "allowed"
  /\ inserted < MaxRows
  /\ InsertUser(h) \/ InsertFails(h)
  /\ UNCHANGED <<adminVars, was, tardy, form, touched>>

\* session.refresh reads the row again; if it is gone, or if the read fails, that
\* is a 500.
RefreshUser(h) ==
  /\ h \in Registrations /\ stage[h] = "committed"
  /\ \/ Exists(body[h].id) /\ Respond(h, "201")
     \/ Respond(h, "500")
  /\ UNCHANGED <<adminVars, body, was, tardy, form, touched>> /\ Keep

\* session.get
LoadUser(h) ==
  /\ h \in Removals /\ stage[h] = "allowed"
  /\ IF Exists(body[h].id)
     THEN /\ Enter(h, "loaded")
          /\ was' = [was EXCEPT ![h] = users[body[h].id].active]
     ELSE Respond(h, "404") /\ UNCHANGED was
  /\ UNCHANGED <<adminVars, body, tardy, form, touched>> /\ Keep

DeleteRowOf(h) == SetRow(body[h].id, NoRow) /\ Respond(h, "204")
SkipUpdate(h) == Respond(h, "204") /\ UNCHANGED <<users, stood>>
\* user.is_active = False, COMMIT: the UPDATE writes what changed since the row was
\* loaded, so nothing if that was inactive.  A COMMIT that is not acknowledged is a
\* 500 all the same.
ClearActive(h) ==
  LET i == body[h].id
  IN IF ~was[h] THEN Respond(h, "204") /\ UNCHANGED <<users, stood>>
     ELSE /\ Exists(i)
          /\ SetRow(i, [users[i] EXCEPT !.active = FALSE])
          /\ Respond(h, "204") \/ Respond(h, "500")

\* An UPDATE of a row that is gone, or any error of the database.
ClearFails(h) == Respond(h, "500") /\ UNCHANGED <<users, stood>>

CommitRemoval(h) ==
  /\ h \in Removals /\ stage[h] = "loaded"
  /\ ClearActive(h) \/ ClearFails(h)
  /\ UNCHANGED <<adminVars, body, inserted, was, tardy, form, touched>>

----------------------------------------------------------------------------
(* The panel: HRUserAdmin's forms write employee_id, slack_user_id and     *)
(* is_active; a form shows the row as it was when it was opened.           *)

Touch(i, slacks) ==
  /\ Cardinality(touched) < MaxTouched
  /\ touched' = (touched \cup {i}) \cup (slacks \cap SlackIds)

OpenForm(b) ==
  /\ PanelOpen(b)
  /\ \E i \in Ids : Exists(i) /\ form' = [form EXCEPT ![b] = [id |-> i, row |-> users[i]]]
  /\ UNCHANGED <<adminVars, handlerVars, touched>> /\ Keep

EditedOrBlank(r) == {r, [r EXCEPT !.employee = NoSlack]}
\* All of the form is stored, the fields nobody edited as they were shown.
Edited(r) ==
  {[r EXCEPT !.active = v] : v \in BOOLEAN} \cup
  ({[r EXCEPT !.employee = e] : e \in Employees} \cup
   {[r EXCEPT !.slack = s] : s \in SlackIds \cup {NoSlack}})

SaveForm(b) ==
  LET i == form[b].id
  IN /\ PanelOpen(b) /\ i # 0
     /\ Exists(i)
     /\ \E r \in Edited(form[b].row) :
          /\ MayHold(i, r.slack)
          /\ SetRow(i, r)
          /\ Touch(i, {users[i].slack, r.slack})
     /\ form' = [form EXCEPT ![b].id = 0]
     /\ UNCHANGED <<adminVars, handlerVars, inserted>>

CreateRow(b) ==
  /\ PanelOpen(b) /\ inserted < MaxRows
  /\ inserted' = inserted + 1
  /\ \E r \in Row : MayHold(inserted', r.slack) /\ SetRow(inserted', r) /\ Touch(inserted', {r.slack})
  /\ UNCHANGED <<adminVars, handlerVars, form>>

DeleteRow(b) ==
  /\ PanelOpen(b)
  /\ \E i \in Ids : Exists(i) /\ SetRow(i, NoRow) /\ Touch(i, {users[i].slack})
  /\ UNCHANGED <<adminVars, handlerVars, inserted, form>>

----------------------------------------------------------------------------
Next ==
  \/ AdminNext /\ UNCHANGED <<users, inserted, handlerVars, form, stood, touched>>
  \/ \E h \in Handlers :
       \/ ReceiveRegistration(h) \/ ReceiveRemoval(h) \/ RequireAdmin(h)
       \/ CommitUser(h) \/ RefreshUser(h) \/ LoadUser(h) \/ CommitRemoval(h)
  \/ \E b \in Browsers : OpenForm(b) \/ SaveForm(b) \/ CreateRow(b) \/ DeleteRow(b)

Spec == Init /\ [][Next]_vars

----------------------------------------------------------------------------
(* Properties.                                                             *)

\* --deactivate "revoke[s] access" (scripts/create_admin.py:7): once the script has
\* reported it, no request is let in on that name and no login opens the panel,
\* whatever was being created under the name meanwhile.
RevokedAtOnce ==
  /\ \A h \in tardy : stage[h] = "begun" \/ answer[h] = "401"
  /\ \A b \in late : login[b].stage # "known"

\* A Slack id the panel leaves alone is registered once, however many requests race
\* for it and whichever of them the database fails: at most one is answered 201, and
\* each 201 and 409 (api/services/user_service.py:31) names a Slack id that some row
\* still holds, if only a deregistered one or one whose registration ended in a 500.
RegistrationSettled ==
  \A h \in Registrations : body[h] # NoBody /\ body[h].slack \notin touched =>
    /\ stage[h] = "committed" \/ answer[h] \in {"201", "409"} => SlackTaken(body[h].slack)
    /\ \A g \in Registrations \ {h} :
         answer[h] = "201" /\ answer[g] = "201" => body[g].slack # body[h].slack

\* A 204 is kept: "Deactivate a user (soft delete)" (api/routes/users.py:24).  The row
\* is there and inactive as long as the panel leaves it alone.
DeregisteredStays ==
  \A h \in Removals : answer[h] = "204" /\ body[h].id \notin touched =>
    Exists(body[h].id) /\ ~users[body[h].id].active

\* employee_id is "the sole input to RBAC resolution" (core/rbac/models.py:61): a
\* Slack id stands for one employee for good, over any number of removals and
\* registrations, unless the panel has changed it.
OneEmployeePerSlackId ==
  \A s \in SlackIds \ touched : \A d, e \in stood[s] : d = e
=============================================================================
