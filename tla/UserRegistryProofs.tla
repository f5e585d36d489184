------------------------- MODULE UserRegistryProofs -------------------------
(***************************************************************************)
(* Theorems about UserRegistry, for any number of requests, browsers, runs *)
(* of the script, names, Slack ids and employees.  The invariant has a     *)
(* part for the admins, one for the requests' progress and one for what    *)
(* the rows still are that requests have written or seen; the last rests   *)
(* on what every write of a row leaves alone (RowStep).                    *)
(***************************************************************************)
EXTENDS UserRegistry, TLAPS

----------------------------------------------------------------------------
(* hr_admin_users.                                                         *)

\* The index on the username, and the row behind each "created".
OneRowPerName == \A a, b \in admins : a.name = b.name => a = b
CreatedTaken == \A c \in Scripts : script[c].stage = "created" => NameTaken(script[c].name)

AdminInOrder ==
  /\ OneRowPerName
  /\ CreatedTaken
  /\ CreatedOnce
  /\ \A n \in revoked : NameTaken(n) /\ ~Active(n)
  /\ \A b \in late : login[b].name \in revoked /\ login[b].stage # "known"

AdminInv == AdminTypeOK /\ AdminInOrder

LEMMA AdminInitInv == AdminInit => AdminInv
<1> SUFFICES ASSUME AdminInit PROVE AdminInv
  OBVIOUS
<1>1. AdminTypeOK
  BY DEF AdminInit, AdminTypeOK, ScriptStages
<1>2. AdminInOrder
  BY DEF AdminInit, AdminInOrder, OneRowPerName, CreatedTaken, CreatedOnce
<1> QED
  BY <1>1, <1>2 DEF AdminInv

\* A step of the script or the panel's login keeps that, and takes no report back.
LEMMA AdminStep ==
  ASSUME AdminInv, AdminNext
  PROVE  AdminInv' /\ revoked \subseteq revoked'
<1> USE DEF AdminInv, EnterScript
<1>1. ASSUME NEW c \in Scripts, BeginCreate(c) \/ BeginDeactivate(c) \/ ScriptFails(c)
      PROVE  AdminInv' /\ revoked \subseteq revoked'
  <2>1. PICK st \in {"exited", "free", "loaded"} : script' = [script EXCEPT ![c].stage = st]
    BY <1>1 DEF BeginCreate, BeginDeactivate, ScriptFails
  <2>2. UNCHANGED <<admins, login, session, revoked, late>>
    BY <1>1 DEF BeginCreate, BeginDeactivate, ScriptFails
  <2>3. AdminTypeOK'
    BY <2>1, <2>2 DEF AdminTypeOK, ScriptStages
  <2>4. \A d \in Scripts : script'[d].stage = "created" => script'[d] = script[d]
    BY <2>1 DEF AdminTypeOK
  <2>5. AdminInOrder'
    BY <2>2, <2>4 DEF AdminInOrder, OneRowPerName, CreatedTaken, CreatedOnce, NameTaken, Active
  <2> QED
    BY <2>2, <2>3, <2>5
<1>2. ASSUME NEW c \in Scripts, CommitCreate(c) PROVE AdminInv' /\ revoked \subseteq revoked'
  <2>1. UNCHANGED <<login, session, revoked, late>> /\ script[c].stage = "free"
    BY <1>2 DEF CommitCreate
  <2>2. CASE NameTaken(script[c].name)
    <3>1. script' = [script EXCEPT ![c].stage = "exited"] /\ UNCHANGED admins
      BY <1>2, <2>2 DEF CommitCreate, InsertAdmin
    <3>2. AdminTypeOK'
      BY <2>1, <3>1 DEF AdminTypeOK, ScriptStages
    <3>3. \A d \in Scripts : script'[d].stage = "created" => script'[d] = script[d]
      BY <3>1 DEF AdminTypeOK
    <3>4. OneRowPerName' /\ CreatedOnce' /\ CreatedTaken'
      BY <3>1, <3>3 DEF AdminInOrder, OneRowPerName, CreatedOnce, CreatedTaken, NameTaken
    <3>5. \A n \in revoked' : NameTaken(n)' /\ ~Active(n)'
      BY <2>1, <3>1 DEF AdminInOrder, NameTaken, Active
    <3>6. AdminInOrder'
      BY <2>1, <3>1, <3>4, <3>5 DEF AdminInOrder
    <3> QED
      BY <2>1, <3>2, <3>6
  <2>3. CASE ~NameTaken(script[c].name)
    <3>0. PICK n \in Names : n = script[c].name
      BY DEF AdminTypeOK
    <3> DEFINE a == [name |-> n, by |-> c, active |-> TRUE]
    <3>1. admins' = admins \cup {a} /\ script' = [script EXCEPT ![c].stage = "created"]
      BY <1>2, <2>3, <3>0 DEF CommitCreate, InsertAdmin
    <3>2. a \in [name : Names, by : Scripts, active : BOOLEAN] /\ a.name = n /\ a.by = c
      OBVIOUS
    <3> HIDE DEF a
    <3>3. AdminTypeOK'
      BY <2>1, <3>1, <3>2 DEF AdminTypeOK, ScriptStages
    <3>4. \A d \in Scripts : script'[d].name = script[d].name
                             /\ (d # c => script'[d].stage = script[d].stage)
      BY <3>1 DEF AdminTypeOK
    <3>5. \A b \in admins : b.name # n
      BY <2>3, <3>0 DEF NameTaken
    <3>6. OneRowPerName'
      BY <3>1, <3>2, <3>5 DEF AdminInOrder, OneRowPerName
    <3>7. CreatedTaken'
      BY <3>0, <3>1, <3>2, <3>4 DEF AdminInOrder, CreatedTaken, NameTaken
    <3>8. CreatedOnce'
      <4> SUFFICES ASSUME NEW d \in Scripts, script'[d].stage = "created",
                          NEW b \in admins', b.name = script'[d].name
                   PROVE  b.by = d
        BY DEF CreatedOnce
      <4>1. CASE d = c
        BY <3>0, <3>1, <3>2, <3>4, <3>5, <4>1
      <4>2. CASE d # c
        <5>1. script[d].stage = "created" /\ NameTaken(script[d].name)
          BY <3>4, <4>2 DEF AdminInOrder, CreatedTaken
        <5>2. script[d].name # n
          BY <2>3, <3>0, <5>1
        <5>3. b # a /\ b \in admins
          BY <3>1, <3>2, <3>4, <5>2
        <5> QED
          BY <3>4, <5>1, <5>3 DEF AdminInOrder, CreatedOnce
      <4> QED
        BY <4>1, <4>2
    <3>9. \A m \in revoked' : NameTaken(m)' /\ ~Active(m)'
      <4> SUFFICES ASSUME NEW m \in revoked PROVE NameTaken(m)' /\ ~Active(m)'
        BY <2>1
      <4>1. NameTaken(m) /\ ~Active(m) /\ m # n
        BY <2>3, <3>0 DEF AdminInOrder
      <4> QED
        BY <3>1, <3>2, <4>1 DEF NameTaken, Active
    <3> QED
      BY <2>1, <3>3, <3>6, <3>7, <3>8, <3>9 DEF AdminInOrder
  <2> QED
    BY <2>2, <2>3
<1>3. ASSUME NEW c \in Scripts, CommitDeactivate(c) PROVE AdminInv' /\ revoked \subseteq revoked'
  <2>0. PICK n \in Names : n = script[c].name
    BY DEF AdminTypeOK
  <2>1. /\ UNCHANGED <<login, session, late>> /\ revoked' = revoked \cup {n}
        /\ script' = [script EXCEPT ![c].stage = "deactivated"] /\ script[c].stage = "loaded"
    BY <1>3, <2>0 DEF CommitDeactivate
  <2>2. PICK a \in admins : a.name = n /\ admins' = (admins \ {a}) \cup {[a EXCEPT !.active = FALSE]}
    BY <1>3, <2>0 DEF CommitDeactivate
  <2> DEFINE z == [a EXCEPT !.active = FALSE]
  <2>3. /\ z \in [name : Names, by : Scripts, active : BOOLEAN]
        /\ z.name = n /\ z.by = a.by /\ ~z.active
    BY <2>2 DEF AdminTypeOK
  <2>4. admins' = (admins \ {a}) \cup {z}
    BY <2>2
  <2> HIDE DEF z
  <2>5. AdminTypeOK'
    BY <2>1, <2>3, <2>4 DEF AdminTypeOK, ScriptStages
  <2>6. \A d \in Scripts : script'[d].name = script[d].name
                           /\ (script'[d].stage = "created" => script[d].stage = "created")
    BY <2>1 DEF AdminTypeOK
  <2>7. \A b \in admins' : b = z \/ (b \in admins /\ b.name # n)
    BY <2>2, <2>4 DEF AdminInOrder, OneRowPerName
  <2>8. \A m \in Names : NameTaken(m) => NameTaken(m)'
    <3> SUFFICES ASSUME NEW m \in Names, NEW b \in admins, b.name = m PROVE NameTaken(m)'
      BY DEF NameTaken
    <3> QED
      BY <2>2, <2>3, <2>4 DEF NameTaken
  <2>9. OneRowPerName'
    BY <2>3, <2>7 DEF AdminInOrder, OneRowPerName
  <2>10. CreatedTaken'
    <3>1. \A d \in Scripts : script[d].stage = "created" =>
            \E b \in admins' : b.name = script[d].name
      BY <2>2, <2>3, <2>4 DEF AdminInOrder, CreatedTaken, NameTaken
    <3> QED
      BY <2>6, <3>1 DEF CreatedTaken, NameTaken
  <2>11. CreatedOnce'
    BY <2>2, <2>3, <2>6, <2>7 DEF AdminInOrder, CreatedOnce
  <2>12. \A m \in revoked' : NameTaken(m)' /\ ~Active(m)'
    <3>2. NameTaken(n) /\ NameTaken(n)'
      BY <2>2, <2>3, <2>8 DEF NameTaken
    <3>3. ~Active(n)'
      BY <2>3, <2>7 DEF Active
    <3>4. \A m \in revoked : NameTaken(m)'
      BY <2>8 DEF AdminInOrder, AdminTypeOK
    <3>5. \A m \in revoked : ~Active(m)'
      BY <2>3, <2>7 DEF AdminInOrder, Active
    <3> QED
      BY <2>1, <3>2, <3>3, <3>4, <3>5
  <2> QED
    BY <2>1, <2>5, <2>9, <2>10, <2>11, <2>12 DEF AdminInOrder
<1>4. ASSUME NEW b \in Browsers, NEW n \in Names, PostLogin(b, n)
      PROVE  AdminInv' /\ revoked \subseteq revoked'
  <2>1. AdminTypeOK'
    BY <1>4 DEF PostLogin, AdminTypeOK
  <2>2. AdminInOrder'
    BY <1>4 DEF PostLogin, AdminTypeOK, AdminInOrder, OneRowPerName, CreatedTaken, CreatedOnce, NameTaken, Active
  <2> QED
    BY <1>4, <2>1, <2>2 DEF PostLogin
<1>5. ASSUME NEW b \in Browsers, LookUpAdmin(b) PROVE AdminInv' /\ revoked \subseteq revoked'
  <2>1. AdminTypeOK'
    BY <1>5 DEF LookUpAdmin, AdminTypeOK
  <2>2. \A d \in late : login'[d].name = login[d].name /\ login'[d].stage # "known"
    BY <1>5 DEF LookUpAdmin, AdminTypeOK, AdminInOrder, MayLogIn
  <2>3. AdminInOrder'
    BY <1>5, <2>2 DEF LookUpAdmin, AdminInOrder, OneRowPerName, CreatedTaken, CreatedOnce, NameTaken, Active
  <2> QED
    BY <1>5, <2>1, <2>3 DEF LookUpAdmin
<1>6. ASSUME NEW b \in Browsers, OpenSession(b) PROVE AdminInv' /\ revoked \subseteq revoked'
  <2>1. AdminTypeOK'
    BY <1>6 DEF OpenSession, AdminTypeOK
  <2>2. AdminInOrder'
    BY <1>6 DEF OpenSession, AdminTypeOK, AdminInOrder, OneRowPerName, CreatedTaken, CreatedOnce, NameTaken, Active
  <2> QED
    BY <1>6, <2>1, <2>2 DEF OpenSession
<1>7. ASSUME NEW b \in Browsers, Logout(b) PROVE AdminInv' /\ revoked \subseteq revoked'
  <2>1. AdminTypeOK'
    BY <1>7 DEF Logout, AdminTypeOK
  <2>2. AdminInOrder'
    BY <1>7 DEF Logout, AdminInOrder, OneRowPerName, CreatedTaken, CreatedOnce, NameTaken, Active
  <2> QED
    BY <1>7, <2>1, <2>2 DEF Logout
<1> QED
  BY <1>1, <1>2, <1>3, <1>4, <1>5, <1>6, <1>7 DEF AdminNext

----------------------------------------------------------------------------
(* The rows: what they are at any time, and what a step leaves of them.    *)

RowsTyped ==
  /\ users \in [Ids -> Row \cup {NoRow}]
  /\ inserted \in 0..MaxRows
  /\ stood \in [SlackIds -> SUBSET Employees]
  /\ touched \subseteq SlackIds \cup Ids

\* Ids come from the sequence, and no two rows hold one Slack id.
RowsInOrder ==
  /\ \A i \in Ids : Exists(i) => i <= inserted
  /\ \A i, j \in Ids : Exists(i) /\ Exists(j) /\ i # j /\ users[i].slack # NoSlack
                         => users[i].slack # users[j].slack

\* Whoever a Slack id has stood for is in a row with that id, unless the panel wrote it.
StoodIsHeld ==
  \A s \in SlackIds \ touched : \A e \in stood[s] :
    \E i \in Ids : Exists(i) /\ users[i].slack = s /\ users[i].employee = e

RowsInv == RowsTyped /\ RowsInOrder /\ StoodIsHeld

\* Only the panel takes a row's Slack id or employee away or makes it active again.
RowStep ==
  /\ touched \subseteq touched' /\ inserted <= inserted'
  /\ \A i \in Ids : Exists(i) /\ users[i].slack \in SlackIds \ touched' =>
       /\ users'[i] # NoRow /\ users'[i].slack = users[i].slack
       /\ users'[i].employee = users[i].employee
  /\ \A i \in Ids \ touched' : Exists(i) =>
       users'[i] # NoRow /\ (~users[i].active => ~users'[i].active)

\* No two rows and no row twice: a write that keeps to the unique constraint, and
\* that either makes a row, or is the panel's, or deactivates.
LEMMA RowWrite ==
  ASSUME RowsInv, NEW i \in Ids, NEW row \in Row \cup {NoRow}, SetRow(i, row),
         inserted' \in 0..MaxRows, inserted <= inserted', i <= inserted',
         touched' \subseteq SlackIds \cup Ids, touched \subseteq touched',
         row # NoRow => MayHold(i, row.slack),
         \/ ~Exists(i)
         \/ i \in touched' /\ users[i].slack \in touched' \cup {NoSlack}
         \/ /\ row # NoRow /\ row.slack = users[i].slack
            /\ row.employee = users[i].employee /\ ~row.active
  PROVE  RowsInv' /\ RowStep
<1> USE DEF RowsInv
<1>1. \A j \in Ids : users'[j] = IF j = i THEN row ELSE users[j]
  BY DEF SetRow, RowsTyped
<1>2. users' \in [Ids -> Row \cup {NoRow}]
  BY DEF SetRow, RowsTyped
<1>3. \A s \in SlackIds : stood'[s] = stood[s] \cup {users'[j].employee : j \in Found(s)'}
  BY DEF SetRow
<1>4. \A s \in SlackIds : \A j \in Found(s)' :
        j \in Ids /\ users'[j] # NoRow /\ users'[j].slack = s /\ users'[j].employee \in Employees
  BY <1>2 DEF Found, Exists, Row
<1>5. RowsTyped'
  <2>1. \A s \in SlackIds : stood'[s] \subseteq Employees
    BY <1>3, <1>4 DEF RowsTyped
  <2> QED
    BY <1>2, <2>1 DEF RowsTyped, SetRow
<1>6. RowsInOrder'
  <2>1. \A j \in Ids : Exists(j)' => j <= inserted'
    BY <1>1 DEF RowsInOrder, Exists, RowsTyped, Ids
  <2>2. ASSUME NEW j \in Ids, NEW k \in Ids, users'[j] # NoRow, users'[k] # NoRow, j # k,
               users'[j].slack # NoSlack
        PROVE  users'[j].slack # users'[k].slack
    BY <1>1, <2>2 DEF RowsInOrder, Exists, MayHold
  <2> QED
    BY <2>1, <2>2 DEF RowsInOrder, Exists
<1>7. RowStep
  <2>1. ASSUME NEW j \in Ids, Exists(j), users[j].slack \in SlackIds \ touched'
        PROVE  /\ users'[j] # NoRow /\ users'[j].slack = users[j].slack
               /\ users'[j].employee = users[j].employee
    BY <1>1, <2>1, RegistryAssumption DEF Exists
  <2>2. ASSUME NEW j \in Ids \ touched', Exists(j)
        PROVE  users'[j] # NoRow /\ (~users[j].active => ~users'[j].active)
    BY <1>1, <2>2 DEF Exists
  <2> QED
    BY <2>1, <2>2 DEF RowStep
<1>8. StoodIsHeld'
  <2> SUFFICES ASSUME NEW s \in SlackIds \ touched', NEW e \in stood'[s]
               PROVE  \E j \in Ids : users'[j] # NoRow /\ users'[j].slack = s /\ users'[j].employee = e
    BY DEF StoodIsHeld, Exists
  <2>1. CASE e \in stood[s]
    <3>1. PICK j \in Ids : Exists(j) /\ users[j].slack = s /\ users[j].employee = e
      BY <2>1 DEF StoodIsHeld
    <3> QED
      BY <1>7, <3>1 DEF RowStep
  <2>2. CASE e \notin stood[s]
    <3>1. PICK j \in Found(s)' : users'[j].employee = e
      BY <1>3, <2>2
    <3> QED
      BY <1>4, <3>1
  <2> QED
    BY <2>1, <2>2
<1> QED
  BY <1>5, <1>6, <1>7, <1>8

LEMMA RowsKept ==
  ASSUME RowsInv, UNCHANGED <<users, inserted, stood, touched>> PROVE RowsInv' /\ RowStep
<1>1. \A i \in Ids : Exists(i)' <=> Exists(i)
  BY DEF Exists
<1>2. RowStep
  BY DEF RowStep, Exists, RowsInv, RowsTyped
<1>3. RowsInv'
  BY <1>1 DEF RowsInv, RowsTyped, RowsInOrder, StoodIsHeld
<1> QED
  BY <1>2, <1>3

----------------------------------------------------------------------------
(* The requests: how far each has come, and who may come further.          *)

HandlersTyped ==
  /\ DOMAIN body = Handlers
  /\ \A h \in Registrations : body[h] \in Registration \cup {NoBody}
  /\ \A h \in Removals : body[h] \in Removal \cup {NoBody}
  /\ stage \in [Handlers -> {"new", "begun", "allowed", "loaded", "committed", "done"}]
  /\ was \in [Handlers -> BOOLEAN]
  /\ answer \in [Handlers -> Answers]
  /\ tardy \subseteq Handlers

HandlersInOrder ==
  /\ \A h \in Handlers : /\ answer[h] = "none" <=> stage[h] # "done"
                         /\ stage[h] # "new" => body[h] # NoBody
  /\ \A h \in tardy : /\ body[h].as \in revoked /\ stage[h] # "new"
                      /\ stage[h] = "begun" \/ answer[h] = "401"

HandlersInv == HandlersTyped /\ HandlersInOrder

HandlerNext(h) ==
  \/ ReceiveRegistration(h) \/ ReceiveRemoval(h) \/ RequireAdmin(h)
  \/ CommitUser(h) \/ RefreshUser(h) \/ LoadUser(h) \/ CommitRemoval(h)

OthersAlone(h) ==
  \A g \in Handlers \ {h} : /\ stage'[g] = stage[g] /\ answer'[g] = answer[g]
                            /\ body'[g] = body[g] /\ was'[g] = was[g]

LEMMA HandlersStep ==
  ASSUME HandlersInv, AdminInv, RowsInv, NEW h \in Handlers, HandlerNext(h)
  PROVE  HandlersInv' /\ OthersAlone(h)
<1> USE DEF HandlersInv
<1>1. ASSUME NEW b, Receive(h, b), b # NoBody,
             h \in Registrations => b \in Registration, h \in Removals => b \in Removal
      PROVE  HandlersInv' /\ OthersAlone(h)
  <2>1. /\ stage[h] = "new" /\ stage' = [stage EXCEPT ![h] = "begun"]
        /\ body' = [body EXCEPT ![h] = b] /\ UNCHANGED <<answer, was, revoked>>
        /\ tardy' = IF b.as \in revoked THEN tardy \cup {h} ELSE tardy
    BY <1>1 DEF Receive, Enter, adminVars
  <2>2. HandlersTyped'
    BY <1>1, <2>1 DEF HandlersTyped
  <2>3. h \notin tardy
    BY <2>1 DEF HandlersInOrder
  <2>4. \A g \in Handlers : /\ body'[g] = (IF g = h THEN b ELSE body[g])
                            /\ stage'[g] = (IF g = h THEN "begun" ELSE stage[g])
    BY <2>1 DEF HandlersTyped
  <2>5. HandlersInOrder'
    BY <1>1, <2>1, <2>3, <2>4 DEF HandlersInOrder, HandlersTyped
  <2>6. OthersAlone(h)
    BY <2>1, <2>4 DEF OthersAlone
  <2> QED
    BY <2>2, <2>5, <2>6
<1>2. CASE ReceiveRegistration(h)
  <2>1. PICK n \in Names, s \in SlackIds, e \in Employees :
          Receive(h, [as |-> n, slack |-> s, employee |-> e, id |-> 0])
    BY <1>2 DEF ReceiveRegistration
  <2>2. [as |-> n, slack |-> s, employee |-> e, id |-> 0] \in Registration
    BY DEF Registration
  <2> QED
    BY <1>1, <1>2, <2>1, <2>2, RegistryAssumption DEF ReceiveRegistration
<1>3. CASE ReceiveRemoval(h)
  BY <1>1, <1>3, RegistryAssumption DEF ReceiveRemoval
\* A step that leaves the body's name alone and does not let a tardy request on.
<1>4. ASSUME stage[h] \in {"begun", "allowed", "loaded", "committed"},
             NEW st \in {"allowed", "loaded", "committed", "done"}, NEW an \in Answers,
             stage' = [stage EXCEPT ![h] = st], answer' = [answer EXCEPT ![h] = an],
             an = "none" <=> st # "done", h \in tardy => an = "401",
             DOMAIN body' = Handlers, \A g \in Handlers \ {h} : body'[g] = body[g],
             body'[h].as = body[h].as, body'[h] # NoBody,
             h \in Registrations => body'[h] \in Registration,
             h \in Removals => body'[h] \in Removal,
             was' \in [Handlers -> BOOLEAN], \A g \in Handlers \ {h} : was'[g] = was[g],
             UNCHANGED <<tardy, revoked>>
      PROVE  HandlersInv' /\ OthersAlone(h)
  <2>1. \A g \in Handlers : /\ stage'[g] = (IF g = h THEN st ELSE stage[g])
                            /\ answer'[g] = (IF g = h THEN an ELSE answer[g])
    BY <1>4 DEF HandlersTyped
  <2>2. HandlersTyped'
    <3>1. \A g \in Registrations : body'[g] \in Registration \cup {NoBody}
      BY <1>4 DEF HandlersTyped, Handlers
    <3>2. \A g \in Removals : body'[g] \in Removal \cup {NoBody}
      BY <1>4 DEF HandlersTyped, Handlers
    <3>3. stage' \in [Handlers -> {"new", "begun", "allowed", "loaded", "committed", "done"}]
          /\ answer' \in [Handlers -> Answers]
      BY <1>4 DEF HandlersTyped
    <3> QED
      BY <1>4, <3>1, <3>2, <3>3 DEF HandlersTyped
  <2>3. HandlersInOrder'
    BY <1>4, <2>1 DEF HandlersInOrder, HandlersTyped
  <2>4. OthersAlone(h)
    BY <1>4, <2>1 DEF OthersAlone
  <2> QED
    BY <2>2, <2>3, <2>4
\* Two kinds of those: the handler goes on, or it answers.
<1>5. ASSUME stage[h] \in {"begun", "allowed", "loaded", "committed"}, h \notin tardy,
             NEW st \in {"allowed", "loaded", "committed"}, Enter(h, st),
             DOMAIN body' = Handlers, \A g \in Handlers \ {h} : body'[g] = body[g],
             body'[h].as = body[h].as, body'[h] # NoBody,
             h \in Registrations => body'[h] \in Registration,
             h \in Removals => body'[h] \in Removal,
             was' \in [Handlers -> BOOLEAN], \A g \in Handlers \ {h} : was'[g] = was[g],
             UNCHANGED <<tardy, revoked>>
      PROVE  HandlersInv' /\ OthersAlone(h)
  <2>1. stage' = [stage EXCEPT ![h] = st] /\ answer' = [answer EXCEPT ![h] = "none"]
    BY <1>5 DEF Enter, HandlersInOrder, HandlersTyped
  <2>2. "none" \in Answers /\ st # "done"
    BY DEF Answers
  <2> QED
    BY <1>4, <1>5, <2>1, <2>2
<1>6. ASSUME stage[h] \in {"begun", "allowed", "loaded", "committed"},
             NEW an \in Answers \ {"none"}, Respond(h, an), h \in tardy => an = "401",
             UNCHANGED <<body, was, tardy, revoked>>
      PROVE  HandlersInv' /\ OthersAlone(h)
  <2>1. stage' = [stage EXCEPT ![h] = "done"] /\ answer' = [answer EXCEPT ![h] = an]
    BY <1>6 DEF Respond
  <2>2. body[h] # NoBody /\ DOMAIN body' = Handlers /\ was' \in [Handlers -> BOOLEAN]
    BY <1>6 DEF HandlersInOrder, HandlersTyped
  <2>3. /\ h \in Registrations => body'[h] \in Registration
        /\ h \in Removals => body'[h] \in Removal
    BY <1>6, <2>2 DEF HandlersTyped
  <2> QED
    BY <1>4, <1>6, <2>1, <2>2, <2>3
<1>7. h \in tardy => stage[h] \in {"begun", "done"} /\ ~Active(body[h].as)
  BY DEF HandlersInOrder, AdminInv, AdminInOrder
<1>8. stage[h] # "new" => /\ body[h] # NoBody
                          /\ h \in Registrations => body[h] \in Registration
                          /\ h \in Removals => body[h] \in Removal
  BY DEF HandlersInOrder, HandlersTyped
<1>9. DOMAIN body = Handlers /\ was \in [Handlers -> BOOLEAN]
  BY DEF HandlersTyped
<1>10. CASE RequireAdmin(h)
  <2>1. stage[h] = "begun" /\ UNCHANGED <<body, was, tardy, revoked>>
    BY <1>10 DEF RequireAdmin, adminVars
  <2>2. CASE Respond(h, "401")
    BY <1>6, <2>1, <2>2 DEF Answers
  <2>3. CASE Active(body[h].as) /\ Enter(h, "allowed")
    <3>1. h \notin tardy
      BY <1>7, <2>3
    <3>2. /\ DOMAIN body' = Handlers /\ body'[h].as = body[h].as /\ body'[h] # NoBody
          /\ \A g \in Handlers \ {h} : body'[g] = body[g] /\ was'[g] = was[g]
          /\ was' \in [Handlers -> BOOLEAN]
      BY <1>8, <1>9, <2>1
    <3>3. /\ h \in Registrations => body'[h] \in Registration
          /\ h \in Removals => body'[h] \in Removal
      BY <1>8, <2>1
    <3> QED
      BY <1>5, <2>1, <2>3, <3>1, <3>2, <3>3
  <2> QED
    BY <1>10, <2>2, <2>3 DEF RequireAdmin
<1>11. CASE CommitUser(h)
  <2>1. /\ h \in Registrations /\ stage[h] = "allowed" /\ UNCHANGED <<was, tardy, revoked>>
        /\ inserted < MaxRows /\ h \notin tardy
    BY <1>7, <1>11 DEF CommitUser, adminVars
  <2>2. CASE InsertUser(h) /\ MayHold(inserted', body[h].slack)
    <3>1. /\ body' = [body EXCEPT ![h].id = inserted'] /\ inserted' = inserted + 1
          /\ Enter(h, "committed") \/ Respond(h, "500")
      BY <2>2 DEF InsertUser
    <3>2. PICK k \in Ids : k = inserted'
      BY <2>1, <3>1, RegistryAssumption DEF RowsInv, RowsTyped, Ids
    <3>3. PICK r \in Registration : r = body[h]
      BY <1>8, <2>1
    <3>4. [r EXCEPT !.id = k] \in Registration /\ [r EXCEPT !.id = k].as = r.as
      BY DEF Registration
    <3>5. body'[h] = [r EXCEPT !.id = k] /\ DOMAIN body' = Handlers
          /\ \A g \in Handlers \ {h} : body'[g] = body[g]
      BY <1>9, <3>1, <3>2, <3>3
    <3>6. h \notin Removals
      BY <2>1, RegistryAssumption
    <3>7. body'[h] # NoBody
      BY <3>4, <3>5, RegistryAssumption
    <3>8. was' \in [Handlers -> BOOLEAN] /\ \A g \in Handlers \ {h} : was'[g] = was[g]
      BY <1>9, <2>1
    <3>9. CASE Enter(h, "committed")
      BY <1>5, <2>1, <3>3, <3>4, <3>5, <3>6, <3>7, <3>8, <3>9
    <3>10. CASE Respond(h, "500")
      <4>1. /\ stage' = [stage EXCEPT ![h] = "done"] /\ answer' = [answer EXCEPT ![h] = "500"]
            /\ "500" \in Answers
        BY <3>10 DEF Respond, Answers
      <4> QED
        BY <1>4, <2>1, <3>3, <3>4, <3>5, <3>6, <3>7, <3>8, <4>1
    <3> QED
      BY <3>1, <3>9, <3>10
  <2>3. CASE InsertUser(h) /\ ~MayHold(inserted', body[h].slack)
    <3>1. Respond(h, "409") /\ UNCHANGED body
      BY <2>3 DEF InsertUser
    <3> QED
      BY <1>6, <2>1, <3>1 DEF Answers
  <2>4. CASE InsertFails(h)
    <3>1. Respond(h, "500") /\ UNCHANGED body
      BY <2>4 DEF InsertFails
    <3> QED
      BY <1>6, <2>1, <3>1 DEF Answers
  <2> QED
    BY <1>11, <2>2, <2>3, <2>4 DEF CommitUser
<1>12. CASE RefreshUser(h)
  <2>1. PICK an \in {"201", "500"} : Respond(h, an)
    BY <1>12 DEF RefreshUser
  <2>2. stage[h] = "committed" /\ UNCHANGED <<body, was, tardy, revoked>>
    BY <1>12 DEF RefreshUser, adminVars
  <2> QED
    BY <1>6, <1>7, <2>1, <2>2 DEF Answers
<1>13. CASE LoadUser(h)
  <2>1. stage[h] = "allowed" /\ UNCHANGED <<body, tardy, revoked>> /\ h \in Removals /\ h \notin tardy
    BY <1>7, <1>13 DEF LoadUser, adminVars
  <2>2. CASE Exists(body[h].id)
    <3>1. Enter(h, "loaded") /\ was' = [was EXCEPT ![h] = users[body[h].id].active]
      BY <1>13, <2>2 DEF LoadUser
    <3>2. \A g \in Handlers \ {h} : was'[g] = was[g]
      BY <1>9, <3>1
    <3>3. was' \in [Handlers -> BOOLEAN]
      <4>1. PICK r \in Row : r = users[body[h].id]
        BY <1>8, <2>1, <2>2 DEF RowsInv, RowsTyped, Exists, Removal
      <4>2. r.active \in BOOLEAN
        BY DEF Row
      <4> QED
        BY <1>9, <3>1, <4>1, <4>2
    <3>4. /\ DOMAIN body' = Handlers /\ body'[h].as = body[h].as /\ body'[h] # NoBody
          /\ \A g \in Handlers \ {h} : body'[g] = body[g]
          /\ h \in Registrations => body'[h] \in Registration
          /\ h \in Removals => body'[h] \in Removal
      BY <1>8, <1>9, <2>1
    <3> QED
      BY <1>5, <2>1, <3>1, <3>2, <3>3, <3>4
  <2>3. CASE ~Exists(body[h].id)
    BY <1>6, <1>13, <2>1, <2>3 DEF LoadUser, Answers
  <2> QED
    BY <2>2, <2>3
<1>14. CASE CommitRemoval(h)
  <2>1. PICK an \in {"204", "500"} : Respond(h, an)
    BY <1>14 DEF CommitRemoval, ClearActive, ClearFails
  <2>2. stage[h] = "loaded" /\ UNCHANGED <<body, was, tardy, revoked>>
    BY <1>14 DEF CommitRemoval, adminVars
  <2> QED
    BY <1>6, <1>7, <2>1, <2>2 DEF Answers
<1> QED
  BY <1>2, <1>3, <1>10, <1>11, <1>12, <1>13, <1>14 DEF HandlerNext

\* What the requests write.
LEMMA HandlersWrite ==
  ASSUME HandlersInv, RowsInv, NEW h \in Handlers, HandlerNext(h)
  PROVE  RowsInv' /\ RowStep
<1> USE DEF HandlersInv, RowsInv
<1>0. touched' = touched
  BY DEF HandlerNext, ReceiveRegistration, ReceiveRemoval, Receive, RequireAdmin,
         CommitUser, RefreshUser, LoadUser, CommitRemoval
<1>1. CASE Keep
  BY <1>0, <1>1, RowsKept DEF Keep
<1>2. CASE CommitUser(h)
  <2>1. h \in Registrations /\ stage[h] = "allowed" /\ inserted < MaxRows
    BY <1>2 DEF CommitUser
  <2>2. inserted' \in {inserted, inserted + 1}
    BY <1>2 DEF CommitUser, InsertUser, InsertFails
  <2>3. inserted' \in 0..MaxRows /\ inserted <= inserted'
    BY <2>1, <2>2, RegistryAssumption DEF RowsTyped
  <2>4. CASE InsertUser(h) /\ MayHold(inserted', body[h].slack)
    <3>1. PICK r \in Registration : r = body[h]
      BY <2>1 DEF HandlersInOrder, HandlersTyped, Handlers
    <3>2. PICK row : row = [slack |-> r.slack, employee |-> r.employee, active |-> TRUE]
      OBVIOUS
    <3>3. row \in Row /\ row.slack = r.slack
      BY <3>2 DEF Row, Registration
    <3>4. inserted' = inserted + 1
      BY <2>4 DEF InsertUser
    <3>5. PICK k \in Ids : k = inserted'
      BY <2>1, <3>4, RegistryAssumption DEF RowsTyped, Ids
    <3>6. k <= inserted' /\ ~Exists(k)
      BY <2>1, <3>4, <3>5, RegistryAssumption DEF RowsTyped, RowsInOrder, Ids
    <3>7. SetRow(k, row) /\ MayHold(k, row.slack)
      BY <2>4, <3>1, <3>2, <3>3, <3>5 DEF InsertUser
    <3> QED
      BY <1>0, <2>3, <3>3, <3>5, <3>6, <3>7, RowWrite DEF RowsTyped
  <2>5. CASE UNCHANGED <<users, stood>>
    <3>1. UNCHANGED <<users, stood>>
      BY <2>5
    <3>2. RowStep
      BY <1>0, <2>3, <3>1 DEF RowStep, Exists
    <3>3. RowsTyped'
      BY <1>0, <2>3, <3>1 DEF RowsTyped
    <3>4. RowsInOrder'
      BY <2>2, <3>1 DEF RowsInOrder, RowsTyped, Exists, Ids
    <3>5. StoodIsHeld'
      BY <1>0, <3>1 DEF StoodIsHeld, Exists
    <3> QED
      BY <3>2, <3>3, <3>4, <3>5
  <2> QED
    BY <1>2, <2>4, <2>5 DEF CommitUser, InsertUser, InsertFails
<1>3. CASE CommitRemoval(h)
  <2>1. h \in Removals /\ stage[h] = "loaded" /\ UNCHANGED inserted
    BY <1>3 DEF CommitRemoval
  <2>2. PICK i \in Ids : i = body[h].id
    BY <2>1 DEF HandlersInOrder, HandlersTyped, Removal, Handlers
  <2>3. CASE UNCHANGED <<users, stood>>
    BY <1>0, <1>1, <2>1, <2>3 DEF Keep
  <2>4. CASE Exists(i) /\ SetRow(i, [users[i] EXCEPT !.active = FALSE])
    <3>1. PICK r \in Row : r = users[i]
      BY <2>4 DEF RowsTyped, Exists
    <3>2. PICK row : row = [r EXCEPT !.active = FALSE]
      OBVIOUS
    <3>3. row \in Row /\ row.slack = r.slack /\ row.employee = r.employee /\ ~row.active
      BY <3>2 DEF Row
    <3>4. row # NoRow /\ SetRow(i, row)
      BY <2>4, <3>1, <3>2, <3>3, RegistryAssumption
    <3>5. MayHold(i, row.slack)
      BY <2>4, <3>1, <3>3 DEF MayHold, RowsInOrder
    <3>6. inserted' \in 0..MaxRows /\ inserted <= inserted' /\ i <= inserted'
      BY <2>1, <2>4, RegistryAssumption DEF RowsTyped, RowsInOrder
    <3> QED
      BY <1>0, <3>1, <3>3, <3>4, <3>5, <3>6, RowWrite DEF RowsTyped
  <2> QED
    BY <1>3, <2>2, <2>3, <2>4 DEF CommitRemoval, ClearActive, ClearFails
<1> QED
  BY <1>1, <1>2, <1>3 DEF HandlerNext, ReceiveRegistration, ReceiveRemoval, Receive,
                          RequireAdmin, RefreshUser, LoadUser

\* A form that shows a row shows a whole one, and so does what is saved of it.
FormsInv ==
  /\ form \in [Browsers -> [id : Ids \cup {0}, row : Row \cup {NoRow}]]
  /\ \A b \in Browsers : form[b].id # 0 => form[b].row \in Row

PanelNext(b) == OpenForm(b) \/ SaveForm(b) \/ CreateRow(b) \/ DeleteRow(b)

LEMMA PanelWrites ==
  ASSUME RowsInv, FormsInv, NEW b \in Browsers, PanelNext(b)
  PROVE  RowsInv' /\ RowStep /\ FormsInv' /\ UNCHANGED <<adminVars, handlerVars>>
<1> USE DEF RowsInv
<1>0. UNCHANGED <<adminVars, handlerVars>>
  BY DEF PanelNext, OpenForm, SaveForm, CreateRow, DeleteRow
<1>1. CASE OpenForm(b)
  <2>1. PICK i \in Ids : Exists(i) /\ form' = [form EXCEPT ![b] = [id |-> i, row |-> users[i]]]
    BY <1>1 DEF OpenForm
  <2>2. users[i] \in Row
    BY <2>1 DEF Exists, RowsTyped
  <2>3. FormsInv'
    BY <2>1, <2>2 DEF FormsInv
  <2> QED
    BY <1>0, <1>1, <2>3, RowsKept DEF OpenForm, Keep
<1>2. CASE SaveForm(b)
  <2>1. PICK i \in Ids : i = form[b].id /\ Exists(i) /\ UNCHANGED inserted
    BY <1>2 DEF SaveForm, FormsInv
  <2>2. PICK r \in Edited(form[b].row) :
          MayHold(i, r.slack) /\ SetRow(i, r) /\ Touch(i, {users[i].slack, r.slack})
    BY <1>2, <2>1 DEF SaveForm
  <2>3. r \in Row
    BY <1>2, <2>2 DEF SaveForm, FormsInv, Edited, Row
  <2>4. users[i].slack \in SlackIds \cup {NoSlack}
    BY <2>1 DEF Exists, RowsTyped, Row
  <2>5. /\ touched' = (touched \cup {i}) \cup ({users[i].slack, r.slack} \cap SlackIds)
        /\ i \in touched' /\ users[i].slack \in touched' \cup {NoSlack}
    BY <2>2, <2>4 DEF Touch
  <2>6. inserted' \in 0..MaxRows /\ inserted <= inserted' /\ i <= inserted'
    BY <2>1, RegistryAssumption DEF RowsTyped, RowsInOrder
  <2>7. touched' \subseteq SlackIds \cup Ids /\ touched \subseteq touched'
    BY <2>5 DEF RowsTyped
  <2>8. RowsInv' /\ RowStep
    BY <2>2, <2>3, <2>5, <2>6, <2>7, RowWrite
  <2>9. FormsInv'
    BY <1>2 DEF SaveForm, FormsInv
  <2> QED
    BY <1>0, <2>8, <2>9
<1>3. CASE CreateRow(b)
  <2>1. inserted < MaxRows /\ inserted' = inserted + 1 /\ UNCHANGED form
    BY <1>3 DEF CreateRow
  <2>2. PICK k \in Ids : k = inserted'
    BY <2>1, RegistryAssumption DEF RowsTyped, Ids
  <2>3. inserted' \in 0..MaxRows /\ inserted <= inserted' /\ k <= inserted' /\ ~Exists(k)
    BY <2>1, <2>2, RegistryAssumption DEF RowsTyped, RowsInOrder, Ids
  <2>4. PICK r \in Row : MayHold(k, r.slack) /\ SetRow(k, r) /\ Touch(k, {r.slack})
    BY <1>3, <2>2 DEF CreateRow
  <2>5. touched' \subseteq SlackIds \cup Ids /\ touched \subseteq touched'
    BY <2>4 DEF Touch, RowsTyped
  <2>6. RowsInv' /\ RowStep
    BY <2>3, <2>4, <2>5, RowWrite
  <2> QED
    BY <1>0, <2>1, <2>6 DEF FormsInv
<1>4. CASE DeleteRow(b)
  <2>1. PICK i \in Ids : Exists(i) /\ SetRow(i, NoRow) /\ Touch(i, {users[i].slack})
    BY <1>4 DEF DeleteRow
  <2>2. UNCHANGED <<inserted, form>>
    BY <1>4 DEF DeleteRow
  <2>3. users[i].slack \in SlackIds \cup {NoSlack}
    BY <2>1 DEF Exists, RowsTyped, Row
  <2>4. /\ touched' \subseteq SlackIds \cup Ids /\ touched \subseteq touched'
        /\ i \in touched' /\ users[i].slack \in touched' \cup {NoSlack}
    BY <2>1, <2>3 DEF Touch, RowsTyped
  <2>5. inserted' \in 0..MaxRows /\ inserted <= inserted' /\ i <= inserted'
    BY <2>1, <2>2, RegistryAssumption DEF RowsTyped, RowsInOrder
  <2>6. RowsInv' /\ RowStep
    BY <2>1, <2>4, <2>5, RowWrite
  <2> QED
    BY <1>0, <2>2, <2>6 DEF FormsInv
<1> QED
  BY <1>1, <1>2, <1>3, <1>4 DEF PanelNext

----------------------------------------------------------------------------
(* What each answer still says of the rows.                                *)

Written(h) == stage[h] = "committed" \/ answer[h] = "201"

\* The row of a registration is there under its Slack id, and so is the one a
\* conflict was with.
RowBehind(h) ==
  /\ Written(h) =>
       /\ body[h].id \in Ids /\ body[h].id <= inserted
       /\ body[h].slack \notin touched =>
            Exists(body[h].id) /\ users[body[h].id].slack = body[h].slack
  /\ answer[h] = "409" /\ body[h].slack \notin touched => SlackTaken(body[h].slack)

RowsApart ==
  \A g, h \in Registrations : g # h /\ Written(g) /\ Written(h) => body[g].id # body[h].id

\* What a removal has loaded is there, and inactive when it found it so; what it
\* reported removed is inactive.
RemovalHolds(h) ==
  body[h].id \notin touched =>
    /\ stage[h] = "loaded" =>
         Exists(body[h].id) /\ (~was[h] => ~users[body[h].id].active)
    /\ answer[h] = "204" => Exists(body[h].id) /\ ~users[body[h].id].active

AnswersInv ==
  /\ RowsApart
  /\ \A h \in Registrations : RowBehind(h)
  /\ \A h \in Removals : RemovalHolds(h)

\* A step that is not theirs leaves that as it is.
LEMMA RowBehindKept ==
  ASSUME HandlersInv, RowsInv, RowsInv', RowStep, NEW h \in Registrations, RowBehind(h),
         stage'[h] = stage[h], answer'[h] = answer[h], body'[h] = body[h]
  PROVE  RowBehind(h)'
<1> USE DEF HandlersInv, RowsInv
<1>1. Written(h)' <=> Written(h)
  BY DEF Written
<1>2. Written(h) \/ answer[h] = "409" => stage[h] # "new"
  BY DEF Written, HandlersInOrder, Handlers
<1>3. CASE Written(h) \/ answer[h] = "409"
  <2>1. body[h].slack \in SlackIds
    BY <1>2, <1>3 DEF HandlersInOrder, HandlersTyped, Registration, Handlers
  <2>2. ASSUME Written(h)
        PROVE  /\ body'[h].id \in Ids /\ body'[h].id <= inserted'
               /\ body'[h].slack \notin touched' =>
                    users'[body'[h].id] # NoRow /\ users'[body'[h].id].slack = body'[h].slack
    <3>1. PICK i \in Ids : i = body[h].id /\ i <= inserted
      BY <2>2 DEF RowBehind
    <3>2. inserted <= inserted' /\ touched \subseteq touched'
          /\ inserted \in 0..MaxRows /\ inserted' \in 0..MaxRows
      BY DEF RowStep, RowsTyped
    <3>3. i <= inserted'
      BY <3>1, <3>2, RegistryAssumption DEF Ids
    <3>4. body[h].slack \notin touched' => users'[i] # NoRow /\ users'[i].slack = body[h].slack
      BY <2>1, <2>2, <3>1, <3>2 DEF RowStep, RowBehind
    <3> QED
      BY <3>1, <3>3, <3>4
  <2>3. ASSUME answer[h] = "409", body[h].slack \notin touched'
        PROVE  SlackTaken(body[h].slack)'
    <3>1. PICK i \in Ids : Exists(i) /\ users[i].slack = body[h].slack
      BY <2>3 DEF RowBehind, RowStep, SlackTaken
    <3> QED
      BY <2>1, <2>3, <3>1 DEF RowStep, SlackTaken, Exists
  <2> QED
    BY <1>1, <2>2, <2>3 DEF RowBehind, Exists, SlackTaken
<1>4. CASE ~Written(h) /\ answer[h] # "409"
  BY <1>1, <1>4 DEF RowBehind, Written
<1> QED
  BY <1>3, <1>4

LEMMA RemovalKept ==
  ASSUME HandlersInv, RowsInv, RowStep, NEW h \in Removals, RemovalHolds(h),
         stage'[h] = stage[h], answer'[h] = answer[h], body'[h] = body[h], was'[h] = was[h]
  PROVE  RemovalHolds(h)'
<1> USE DEF HandlersInv, RowsInv
<1>1. CASE stage[h] = "loaded" \/ answer[h] = "204"
  <2>1. PICK i \in Ids : i = body[h].id
    BY <1>1 DEF HandlersInOrder, HandlersTyped, Handlers, Removal
  <2>2. i \notin touched' => /\ i \notin touched
                             /\ Exists(i) => users'[i] # NoRow
                             /\ Exists(i) /\ ~users[i].active => ~users'[i].active
    BY DEF RowStep
  <2> QED
    BY <2>1, <2>2 DEF RemovalHolds, Exists
<1>2. CASE stage[h] # "loaded" /\ answer[h] # "204"
  BY <1>2 DEF RemovalHolds
<1> QED
  BY <1>1, <1>2

\* Steps of the script and of the panel.
LEMMA AnswersKept ==
  ASSUME HandlersInv, RowsInv, RowsInv', RowStep, AnswersInv, UNCHANGED handlerVars
  PROVE  AnswersInv'
<1>1. UNCHANGED <<stage, answer, body, was>>
  BY DEF handlerVars
<1>2. \A h \in Registrations : RowBehind(h)'
  BY <1>1, RowBehindKept DEF AnswersInv
<1>3. \A h \in Removals : RemovalHolds(h)'
  BY <1>1, RemovalKept DEF AnswersInv
<1>4. RowsApart'
  BY <1>1 DEF AnswersInv, RowsApart, Written
<1> QED
  BY <1>2, <1>3, <1>4 DEF AnswersInv

\* The registration that takes a step.
LEMMA RegistrationStep ==
  ASSUME HandlersInv, RowsInv, RowsInv', RowStep, AnswersInv,
         NEW h \in Registrations, HandlerNext(h)
  PROVE  /\ RowBehind(h)'
         /\ Written(h)' => (Written(h) /\ body'[h] = body[h]) \/ body'[h].id = inserted + 1
<1> USE DEF HandlersInv, RowsInv
<1>0. h \in Handlers /\ h \notin Removals
  BY RegistryAssumption DEF Handlers
<1>1. CASE ReceiveRegistration(h)
  <2>1. stage'[h] = "begun" /\ answer'[h] = "none"
    BY <1>0, <1>1 DEF ReceiveRegistration, Receive, Enter, HandlersTyped, HandlersInOrder
  <2> QED
    BY <2>1 DEF RowBehind, Written
<1>2. CASE RequireAdmin(h)
  <2>1. stage'[h] \in {"allowed", "done"} /\ answer'[h] \in {"none", "401"}
    BY <1>0, <1>2 DEF RequireAdmin, Respond, Enter, HandlersTyped, HandlersInOrder
  <2> QED
    BY <2>1 DEF RowBehind, Written
<1>3. CASE CommitUser(h)
  <2>1. /\ stage[h] = "allowed" /\ answer[h] = "none" /\ UNCHANGED touched
        /\ inserted < MaxRows
    BY <1>0, <1>3 DEF CommitUser, HandlersInOrder
  <2>2. CASE Respond(h, "500")
    <3>1. stage'[h] = "done" /\ answer'[h] = "500"
      BY <1>0, <2>2 DEF Respond, HandlersTyped
    <3> QED
      BY <3>1 DEF RowBehind, Written
  <2>3. CASE InsertUser(h) /\ ~Respond(h, "500")
    <3>1. inserted' = inserted + 1
      BY <2>3 DEF InsertUser
    <3>2. PICK k \in Ids : k = inserted'
      BY <2>1, <3>1, RegistryAssumption DEF RowsTyped, Ids
    <3>3. PICK r \in Registration : r = body[h]
      BY <1>0, <2>1 DEF HandlersInOrder, HandlersTyped
    <3>4. CASE MayHold(inserted', body[h].slack)
      <4>1. PICK row : row = [slack |-> r.slack, employee |-> r.employee, active |-> TRUE]
        OBVIOUS
      <4>2. row \in Row /\ row.slack = r.slack
        BY <4>1 DEF Row, Registration
      <4>3. /\ users' = [users EXCEPT ![k] = row]
            /\ body' = [body EXCEPT ![h].id = k]
            /\ stage' = [stage EXCEPT ![h] = "committed"] /\ UNCHANGED answer
        BY <2>3, <3>2, <3>3, <3>4, <4>1 DEF InsertUser, SetRow, Enter
      <4>4. users'[k] = row /\ body'[h] = [r EXCEPT !.id = k] /\ answer'[h] = "none"
        BY <1>0, <2>1, <3>3, <4>3 DEF RowsTyped, HandlersTyped
      <4>5. body'[h].id = k /\ body'[h].slack = r.slack
        BY <4>4 DEF Registration
      <4>6. users'[k] # NoRow /\ users'[k].slack = r.slack
        BY <4>2, <4>4, RegistryAssumption
      <4>7. k <= inserted'
        BY <3>2, RegistryAssumption DEF Ids
      <4> QED
        BY <3>1, <3>2, <4>4, <4>5, <4>6, <4>7 DEF RowBehind, Exists
    <3>5. CASE ~MayHold(inserted', body[h].slack)
      <4>1. Respond(h, "409") /\ UNCHANGED <<users, body>>
        BY <2>3, <3>5 DEF InsertUser
      <4>2. stage'[h] = "done" /\ answer'[h] = "409"
        BY <1>0, <4>1 DEF Respond, HandlersTyped
      <4>3. SlackTaken(body[h].slack)
        BY <3>2, <3>5 DEF MayHold, SlackTaken
      <4>4. SlackTaken(body[h].slack)'
        BY <4>1, <4>3 DEF SlackTaken, Exists
      <4> QED
        BY <4>2, <4>4 DEF RowBehind, Written
    <3> QED
      BY <3>4, <3>5
  <2> QED
    BY <1>3, <2>2, <2>3 DEF CommitUser, InsertFails
<1>4. CASE RefreshUser(h)
  <2>1. stage[h] = "committed" /\ Written(h) /\ UNCHANGED <<body, users, inserted, touched>>
    BY <1>4 DEF RefreshUser, Keep, Written
  <2>2. stage'[h] = "done" /\ answer'[h] \in {"201", "500"}
    BY <1>0, <1>4 DEF RefreshUser, Respond, HandlersTyped
  <2>3. RowBehind(h)
    BY DEF AnswersInv
  <2> QED
    BY <2>1, <2>2, <2>3 DEF RowBehind, Written, Exists
<1> QED
  BY <1>0, <1>1, <1>2, <1>3, <1>4 DEF HandlerNext, ReceiveRemoval, LoadUser, CommitRemoval

\* The removal that takes a step.
LEMMA RemovalStep ==
  ASSUME HandlersInv, RowsInv, RowsInv', RowStep, AnswersInv,
         NEW h \in Removals, HandlerNext(h)
  PROVE  RemovalHolds(h)'
<1> USE DEF HandlersInv, RowsInv
<1>0. h \in Handlers /\ h \notin Registrations
  BY RegistryAssumption DEF Handlers
<1>1. CASE ReceiveRemoval(h)
  <2>1. stage'[h] = "begun" /\ answer'[h] = "none"
    BY <1>0, <1>1 DEF ReceiveRemoval, Receive, Enter, HandlersTyped, HandlersInOrder
  <2> QED
    BY <2>1 DEF RemovalHolds
<1>2. CASE RequireAdmin(h)
  <2>1. stage'[h] \in {"allowed", "done"} /\ answer'[h] \in {"none", "401"}
    BY <1>0, <1>2 DEF RequireAdmin, Respond, Enter, HandlersTyped, HandlersInOrder
  <2> QED
    BY <2>1 DEF RemovalHolds
<1>3. CASE LoadUser(h)
  <2>1. stage[h] = "allowed" /\ answer[h] = "none" /\ UNCHANGED <<body, users, touched>>
    BY <1>0, <1>3 DEF LoadUser, Keep, HandlersInOrder
  <2>2. CASE Exists(body[h].id)
    <3>1. /\ stage'[h] = "loaded" /\ answer'[h] = "none"
          /\ was'[h] = users[body[h].id].active
      BY <1>0, <1>3, <2>1, <2>2 DEF LoadUser, Enter, HandlersTyped
    <3> QED
      BY <2>1, <2>2, <3>1 DEF RemovalHolds, Exists
  <2>3. CASE ~Exists(body[h].id)
    <3>1. stage'[h] = "done" /\ answer'[h] = "404"
      BY <1>0, <1>3, <2>3 DEF LoadUser, Respond, HandlersTyped
    <3> QED
      BY <3>1 DEF RemovalHolds
  <2> QED
    BY <2>2, <2>3
<1>4. CASE CommitRemoval(h)
  <2>1. stage[h] = "loaded" /\ UNCHANGED <<body, touched>> /\ RemovalHolds(h)
    BY <1>4 DEF CommitRemoval, AnswersInv
  <2>2. PICK i \in Ids : i = body[h].id
    BY <1>0, <2>1 DEF HandlersInOrder, HandlersTyped, Removal
  <2>3. CASE Respond(h, "204") /\ ~was[h] /\ UNCHANGED users
    <3>1. stage'[h] = "done"
      BY <1>0, <2>3 DEF Respond, HandlersTyped
    <3>2. i \notin touched => users'[i] # NoRow /\ ~users'[i].active
      BY <2>1, <2>2, <2>3 DEF RemovalHolds, Exists
    <3> QED
      BY <2>1, <2>2, <3>1, <3>2 DEF RemovalHolds, Exists
  <2>4. CASE Exists(i) /\ SetRow(i, [users[i] EXCEPT !.active = FALSE]) /\ Respond(h, "204")
    <3>1. PICK r \in Row : r = users[i]
      BY <2>4 DEF RowsTyped, Exists
    <3>2. PICK row : row = [r EXCEPT !.active = FALSE]
      OBVIOUS
    <3>3. row \in Row /\ ~row.active
      BY <3>2 DEF Row
    <3>4. users'[i] = row
      BY <2>4, <3>1, <3>2 DEF SetRow, RowsTyped
    <3>5. users'[i] # NoRow /\ ~users'[i].active
      BY <3>3, <3>4, RegistryAssumption
    <3>6. stage'[h] = "done"
      BY <1>0, <2>4 DEF Respond, HandlersTyped
    <3> QED
      BY <2>1, <2>2, <3>5, <3>6 DEF RemovalHolds, Exists
  <2>5. CASE Respond(h, "500")
    <3>1. stage'[h] = "done" /\ answer'[h] = "500"
      BY <1>0, <2>5 DEF Respond, HandlersTyped
    <3> QED
      BY <3>1 DEF RemovalHolds
  <2> QED
    BY <1>4, <2>2, <2>3, <2>4, <2>5 DEF CommitRemoval, ClearActive, ClearFails
<1> QED
  BY <1>0, <1>1, <1>2, <1>3, <1>4 DEF HandlerNext, ReceiveRegistration, CommitUser, RefreshUser

LEMMA AnswersStep ==
  ASSUME HandlersInv, RowsInv, RowsInv', RowStep, AnswersInv,
         NEW h \in Handlers, HandlerNext(h), OthersAlone(h)
  PROVE  AnswersInv'
<1>1. \A g \in Registrations : RowBehind(g)'
  <2> SUFFICES ASSUME NEW g \in Registrations PROVE RowBehind(g)'
    OBVIOUS
  <2>1. CASE g = h
    BY <2>1, RegistrationStep
  <2>2. CASE g # h
    BY <2>2, RowBehindKept DEF OthersAlone, AnswersInv, Handlers
  <2> QED
    BY <2>1, <2>2
<1>2. \A g \in Removals : RemovalHolds(g)'
  <2> SUFFICES ASSUME NEW g \in Removals PROVE RemovalHolds(g)'
    OBVIOUS
  <2>1. CASE g = h
    BY <2>1, RemovalStep
  <2>2. CASE g # h
    BY <2>2, RemovalKept DEF OthersAlone, AnswersInv, Handlers
  <2> QED
    BY <2>1, <2>2
<1>3. ASSUME NEW g \in Registrations, g # h PROVE Written(g)' => Written(g) /\ body'[g] = body[g]
  BY <1>3 DEF OthersAlone, Written, Handlers
<1>4. ASSUME NEW g \in Registrations, g # h, h \in Registrations, Written(g)', Written(h)'
      PROVE  body'[g].id # body'[h].id
  <2>1. Written(g) /\ body'[g] = body[g]
    BY <1>3, <1>4
  <2>2. (Written(h) /\ body'[h] = body[h]) \/ body'[h].id = inserted + 1
    BY <1>4, RegistrationStep
  <2>3. CASE Written(h) /\ body'[h] = body[h]
    BY <1>4, <2>1, <2>3 DEF AnswersInv, RowsApart
  <2>4. CASE body'[h].id = inserted + 1
    <3>1. PICK i \in Ids : i = body[g].id /\ i <= inserted
      BY <2>1 DEF AnswersInv, RowBehind
    <3>2. inserted \in Nat /\ i \in Nat
      BY RegistryAssumption DEF RowsInv, RowsTyped, Ids
    <3> QED
      BY <2>1, <2>4, <3>1, <3>2
  <2> QED
    BY <2>2, <2>3, <2>4
<1>5. RowsApart'
  <2> SUFFICES ASSUME NEW f \in Registrations, NEW g \in Registrations, f # g,
                      Written(f)', Written(g)'
               PROVE  body'[f].id # body'[g].id
    BY DEF RowsApart
  <2>1. CASE f = h
    BY <1>4, <2>1
  <2>2. CASE g = h
    BY <1>4, <2>2
  <2>3. CASE f # h /\ g # h
    BY <1>3, <2>3 DEF AnswersInv, RowsApart
  <2> QED
    BY <2>1, <2>2, <2>3
<1> QED
  BY <1>1, <1>2, <1>5 DEF AnswersInv

----------------------------------------------------------------------------
(* The invariant, and the theorems.                                        *)

RegistryInv ==
  AdminInv /\ RowsInv /\ HandlersInv /\ FormsInv /\ AnswersInv

LEMMA InitInv == Init => RegistryInv
<1> SUFFICES ASSUME Init PROVE RegistryInv
  OBVIOUS
<1>1. AdminInv
  BY AdminInitInv DEF Init
<1>2. RowsInv
  <2>1. RowsTyped
    BY RegistryAssumption DEF Init, RowsTyped
  <2>2. RowsInOrder /\ StoodIsHeld
    BY DEF Init, RowsInOrder, StoodIsHeld, Exists
  <2> QED
    BY <2>1, <2>2 DEF RowsInv
<1>3. HandlersInv
  <2>1. HandlersTyped
    BY DEF Init, HandlersTyped, Answers, Handlers
  <2>2. HandlersInOrder
    BY DEF Init, HandlersInOrder
  <2> QED
    BY <2>1, <2>2 DEF HandlersInv
<1>4. FormsInv
  BY DEF Init, FormsInv
<1>5. AnswersInv
  BY DEF Init, AnswersInv, RowsApart, RowBehind, RemovalHolds, Written, Handlers
<1> QED
  BY <1>1, <1>2, <1>3, <1>4, <1>5 DEF RegistryInv

LEMMA NextInv == RegistryInv /\ [Next]_vars => RegistryInv'
<1> SUFFICES ASSUME RegistryInv, [Next]_vars PROVE RegistryInv'
  OBVIOUS
<1> USE DEF RegistryInv
<1>1. CASE AdminNext /\ UNCHANGED <<users, inserted, handlerVars, form, stood, touched>>
  <2>1. AdminInv' /\ revoked \subseteq revoked'
    BY <1>1, AdminStep
  <2>2. RowsInv' /\ RowStep
    BY <1>1, RowsKept
  <2>3. HandlersInv'
    BY <1>1, <2>1 DEF HandlersInv, HandlersTyped, HandlersInOrder, handlerVars
  <2>4. AnswersInv'
    BY <1>1, <2>2, AnswersKept
  <2> QED
    BY <1>1, <2>1, <2>2, <2>3, <2>4 DEF FormsInv
<1>2. ASSUME NEW h \in Handlers, HandlerNext(h) PROVE RegistryInv'
  <2>1. UNCHANGED <<adminVars, form>>
    BY <1>2 DEF HandlerNext, ReceiveRegistration, ReceiveRemoval, Receive, RequireAdmin,
                CommitUser, RefreshUser, LoadUser, CommitRemoval
  <2>2. AdminInv'
    BY <2>1 DEF adminVars, AdminInv, AdminTypeOK, AdminInOrder, OneRowPerName, CreatedTaken,
                CreatedOnce, NameTaken, Active
  <2>3. HandlersInv' /\ OthersAlone(h)
    BY <1>2, HandlersStep
  <2>4. RowsInv' /\ RowStep
    BY <1>2, HandlersWrite
  <2>5. AnswersInv'
    BY <1>2, <2>3, <2>4, AnswersStep
  <2> QED
    BY <2>1, <2>2, <2>3, <2>4, <2>5 DEF FormsInv
<1>3. ASSUME NEW b \in Browsers, PanelNext(b) PROVE RegistryInv'
  <2>1. RowsInv' /\ RowStep /\ FormsInv' /\ UNCHANGED <<adminVars, handlerVars>>
    BY <1>3, PanelWrites
  <2>2. AdminInv'
    BY <2>1 DEF adminVars, AdminInv, AdminTypeOK, AdminInOrder, OneRowPerName, CreatedTaken,
                CreatedOnce, NameTaken, Active
  <2>3. HandlersInv'
    BY <2>1 DEF HandlersInv, HandlersTyped, HandlersInOrder, handlerVars, adminVars
  <2>4. AnswersInv'
    BY <2>1, AnswersKept
  <2> QED
    BY <2>1, <2>2, <2>3, <2>4
<1>4. CASE UNCHANGED vars
  <2>1. UNCHANGED <<adminVars, users, inserted, handlerVars, form, stood, touched>>
    BY <1>4 DEF vars
  <2>2. AdminInv'
    BY <2>1 DEF adminVars, AdminInv, AdminTypeOK, AdminInOrder, OneRowPerName, CreatedTaken,
                CreatedOnce, NameTaken, Active
  <2>3. RowsInv' /\ RowStep
    BY <2>1, RowsKept
  <2>4. HandlersInv'
    BY <2>1 DEF HandlersInv, HandlersTyped, HandlersInOrder, handlerVars, adminVars
  <2>5. AnswersInv'
    BY <2>1, <2>3, AnswersKept
  <2> QED
    BY <2>1, <2>2, <2>3, <2>4, <2>5 DEF FormsInv
<1> QED
  BY <1>1, <1>2, <1>3, <1>4 DEF Next, HandlerNext, PanelNext

LEMMA Invariant == Spec => []RegistryInv
  BY InitInv, NextInv, PTL DEF Spec

\* The tables, the requests and the forms hold what their types say.
THEOREM TypeCorrect == Spec => []TypeOK
<1>1. RegistryInv => TypeOK
  BY DEF RegistryInv, AdminInv, RowsInv, HandlersInv, RowsTyped, HandlersTyped, FormsInv, TypeOK
<1> QED
  BY <1>1, Invariant, PTL

\* create_admin.py: of any number of runs that create one name, at most one says so.
THEOREM NameCreatedOnce == Spec => []CreatedOnce
<1>1. RegistryInv => CreatedOnce
  BY DEF RegistryInv, AdminInv, AdminInOrder
<1> QED
  BY <1>1, Invariant, PTL

\* require_admin and the panel's login: a deactivation that was reported is in force
\* for every request and every login that comes after it.
THEOREM RevocationHolds == Spec => []RevokedAtOnce
<1>1. RegistryInv => RevokedAtOnce
  BY DEF RegistryInv, AdminInv, AdminInOrder, HandlersInv, HandlersInOrder, RevokedAtOnce
<1> QED
  BY <1>1, Invariant, PTL

\* register_user: one row for a Slack id however many requests race for it and
\* whatever fails, and every 201 and 409 names a row.
THEOREM RegistrationsSettle == Spec => []RegistrationSettled
<1>1. RegistryInv => RegistrationSettled
  <2> SUFFICES ASSUME RegistryInv, NEW h \in Registrations, body[h] # NoBody,
                      body[h].slack \notin touched
               PROVE  /\ Written(h) \/ answer[h] = "409" => SlackTaken(body[h].slack)
                      /\ \A g \in Registrations \ {h} :
                           answer[h] = "201" /\ answer[g] = "201" => body[g].slack # body[h].slack
    BY DEF RegistrationSettled, Written
  <2>1. body[h].slack \in SlackIds
    BY DEF RegistryInv, HandlersInv, HandlersTyped, Registration
  <2>2. Written(h) \/ answer[h] = "409" => SlackTaken(body[h].slack)
    BY DEF RegistryInv, AnswersInv, RowBehind, SlackTaken
  <2>3. ASSUME NEW g \in Registrations \ {h}, answer[h] = "201", answer[g] = "201",
               body[g].slack = body[h].slack
        PROVE  FALSE
    <3>1. PICK i \in Ids, j \in Ids : i = body[h].id /\ j = body[g].id
      BY <2>3 DEF RegistryInv, AnswersInv, RowBehind, Written
    <3>2. Exists(i) /\ Exists(j) /\ users[i].slack = body[h].slack /\ users[j].slack = body[h].slack
      BY <2>3, <3>1 DEF RegistryInv, AnswersInv, RowBehind, Written
    <3>3. i # j
      BY <2>3, <3>1 DEF RegistryInv, AnswersInv, RowsApart, Written
    <3>4. body[h].slack # NoSlack
      BY <2>1, RegistryAssumption
    <3> QED
      BY <3>2, <3>3, <3>4 DEF RegistryInv, RowsInv, RowsInOrder
  <2> QED
    BY <2>2, <2>3
<1> QED
  BY <1>1, Invariant, PTL

\* deregister_user: a row reported removed is inactive until the panel writes it.
THEOREM RemovalsLast == Spec => []DeregisteredStays
<1>1. RegistryInv => DeregisteredStays
  BY DEF RegistryInv, AnswersInv, RemovalHolds, DeregisteredStays
<1> QED
  BY <1>1, Invariant, PTL

\* hr_assistant_users: a Slack id the panel leaves alone has one employee for good.
THEOREM OneEmployeeForGood == Spec => []OneEmployeePerSlackId
<1>1. RegistryInv => OneEmployeePerSlackId
  <2> SUFFICES ASSUME RegistryInv, NEW s \in SlackIds \ touched,
                      NEW d \in stood[s], NEW e \in stood[s]
               PROVE  d = e
    BY DEF OneEmployeePerSlackId
  <2>1. PICK i \in Ids : Exists(i) /\ users[i].slack = s /\ users[i].employee = d
    BY DEF RegistryInv, RowsInv, StoodIsHeld
  <2>2. PICK j \in Ids : Exists(j) /\ users[j].slack = s /\ users[j].employee = e
    BY DEF RegistryInv, RowsInv, StoodIsHeld
  <2>3. s # NoSlack
    BY RegistryAssumption
  <2> QED
    BY <2>1, <2>2, <2>3 DEF RegistryInv, RowsInv, RowsInOrder
<1> QED
  BY <1>1, Invariant, PTL
=============================================================================
