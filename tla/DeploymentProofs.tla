-------------------------- MODULE DeploymentProofs --------------------------
(***************************************************************************)
(* Theorems about Deployment, for any number of processes, directories,    *)
(* databases and environments.  The invariant behind them says which       *)
(* shapes a schema can have at each revision on PostgreSQL, that SQLite    *)
(* never comes past the third, that no process runs in production          *)
(* unguarded, and that what create_all has found or made does not go away  *)
(* before a downgrade takes it.                                            *)
(***************************************************************************)
EXTENDS Deployment, TLAPS

\* The parts a schema can have at revision k, create_all included.
AtRevision(k, parts) ==
  /\ k >= 1 => "hr_admin_users" \in parts /\ "hr_assistant_users" \in parts
  /\ "hr_admin_users" \in parts <=> "ix_username" \in parts
  /\ "hr_assistant_users" \in parts <=> "ix_employee" \in parts
  /\ "hr_assistant_audit" \in parts <=> k = 1
  /\ "ix_audit" \in parts <=> k = 1
  /\ "role_required" \in parts \/ "role_nullable" \in parts <=> k \in 1..4
  /\ "event_id_64" \in parts <=> k = 3
  /\ "event_id_128" \in parts <=> "ix_seen_at" \in parts
  /\ "slack_seen_events" \in parts <=> k = 3 \/ "ix_seen_at" \in parts
  /\ k = 3 => "ix_seen_at" \notin parts
  /\ k >= 4 => "ix_seen_at" \in parts
Shape(d) == AtRevision(d.stamp, d.has)

ShapeOf(d) == IF d[1] \in Postgres THEN Shape(schema[d]) ELSE schema[d].stamp <= 3
Shapes == \A d \in Databases : ShapeOf(d)

\* Tables with all that is declared with them.
Whole(parts) ==
  /\ parts \subseteq {"hr_admin_users", "ix_username", "hr_assistant_users", "ix_employee",
                     "slack_seen_events", "event_id_128", "ix_seen_at"}
  /\ "hr_admin_users" \in parts <=> "ix_username" \in parts
  /\ "hr_assistant_users" \in parts <=> "ix_employee" \in parts
  /\ "slack_seen_events" \in parts <=> "event_id_128" \in parts
  /\ "slack_seen_events" \in parts <=> "ix_seen_at" \in parts
WholeIfAtOnce == \A p \in Processes : OnPostgres(p) => Whole(missing[p])

OnSqliteOnly == \A p \in Processes : stage[p] \in {"upgrading", "downgrading"} => ~OnPostgres(p)

GuardsPassed == \A p \in Processes : Running(p) => Debug(p) \/ Guards(p)

HasFound(p) ==
  /\ stage[p] = "looked" => Missing(schema[Db(p)].has) \subseteq missing[p]
  /\ stage[p] = "created" \/ (stage[p] = "serving" /\ Debug(p)) => Missing(schema[Db(p)].has) = {}
TablesStay == \A p \in Processes \ lost : HasFound(p)

Inv ==
  /\ TypeOK
  /\ Shapes
  /\ WholeIfAtOnce
  /\ OnSqliteOnly
  /\ GuardsPassed
  /\ TablesStay

----------------------------------------------------------------------------
(* What the operators of AppSchema preserve.                               *)

LEMMA PartsAre ==
  /\ PartsOf("hr_admin_users") = {"hr_admin_users", "ix_username"}
  /\ PartsOf("hr_assistant_audit") = {"hr_assistant_audit", "ix_audit"}
  /\ PartsOf("hr_assistant_users") =
       {"hr_assistant_users", "ix_employee", "role_required", "role_nullable"}
  /\ PartsOf("slack_seen_events") =
       {"slack_seen_events", "event_id_64", "event_id_128", "ix_seen_at"}
  /\ Parts = {"hr_admin_users", "ix_username", "hr_assistant_audit", "ix_audit",
              "hr_assistant_users", "ix_employee", "role_required", "role_nullable",
              "slack_seen_events", "event_id_64", "event_id_128", "ix_seen_at"}
<1>1. PartsOf("hr_admin_users") = {"hr_admin_users", "ix_username"}
  BY DEF PartsOf
<1>2. PartsOf("hr_assistant_audit") = {"hr_assistant_audit", "ix_audit"}
  BY DEF PartsOf
<1>3. PartsOf("hr_assistant_users") =
        {"hr_assistant_users", "ix_employee", "role_required", "role_nullable"}
  BY DEF PartsOf
<1>4. PartsOf("slack_seen_events") =
        {"slack_seen_events", "event_id_64", "event_id_128", "ix_seen_at"}
  BY DEF PartsOf
<1>5. Parts = ((PartsOf("hr_admin_users") \cup PartsOf("hr_assistant_audit"))
               \cup PartsOf("hr_assistant_users")) \cup PartsOf("slack_seen_events")
  BY DEF Parts, AllTables, Tables
<1> QED
  BY <1>1, <1>2, <1>3, <1>4, <1>5

LEMMA StatementsAre ==
  /\ DOMAIN CreateStatements = 1..6
  /\ CreateStatements[1] = {"hr_admin_users"} /\ CreateStatements[2] = {"ix_username"}
  /\ CreateStatements[3] = {"hr_assistant_users"} /\ CreateStatements[4] = {"ix_employee"}
  /\ CreateStatements[5] = {"slack_seen_events", "event_id_128"}
  /\ CreateStatements[6] = {"ix_seen_at"}
BY DEF CreateStatements

LEMMA DeclaredAre ==
  /\ Declared("hr_admin_users") = {"hr_admin_users", "ix_username"}
  /\ Declared("hr_assistant_users") = {"hr_assistant_users", "ix_employee"}
  /\ Declared("slack_seen_events") = {"slack_seen_events", "event_id_128", "ix_seen_at"}
<1> DEFINE S(i) == CreateStatements[i]
<1>1. ASSUME NEW t
      PROVE  Declared(t) = UNION {S(i) : i \in {j \in 1..6 : S(j) \subseteq PartsOf(t)}}
  BY StatementsAre DEF Declared
<1>2. {j \in 1..6 : S(j) \subseteq PartsOf("hr_admin_users")} = {1, 2}
  BY StatementsAre, PartsAre
<1>3. {j \in 1..6 : S(j) \subseteq PartsOf("hr_assistant_users")} = {3, 4}
  BY StatementsAre, PartsAre
<1>4. {j \in 1..6 : S(j) \subseteq PartsOf("slack_seen_events")} = {5, 6}
  BY StatementsAre, PartsAre
<1>5. UNION {S(i) : i \in {1, 2}} = S(1) \cup S(2)
  OBVIOUS
<1>6. UNION {S(i) : i \in {3, 4}} = S(3) \cup S(4)
  OBVIOUS
<1>7. UNION {S(i) : i \in {5, 6}} = S(5) \cup S(6)
  OBVIOUS
<1>8. S(1) \cup S(2) = {"hr_admin_users", "ix_username"}
      /\ S(3) \cup S(4) = {"hr_assistant_users", "ix_employee"}
      /\ S(5) \cup S(6) = {"slack_seen_events", "event_id_128", "ix_seen_at"}
  BY StatementsAre
<1> HIDE DEF S
<1> QED
  BY <1>1, <1>2, <1>3, <1>4, <1>5, <1>6, <1>7, <1>8

\* create_all looks for whole tables.
LEMMA LooksForWhole ==
  ASSUME NEW T \in SUBSET Tables
  PROVE  Whole(CreateAll({}, T)) /\ T \subseteq CreateAll({}, T) /\ CreateAll({}, T) \in SUBSET Parts
<1>1. \A t \in T : Declared(t) =
        CASE t = "hr_admin_users" -> {"hr_admin_users", "ix_username"}
          [] t = "hr_assistant_users" -> {"hr_assistant_users", "ix_employee"}
          [] t = "slack_seen_events" -> {"slack_seen_events", "event_id_128", "ix_seen_at"}
  BY DeclaredAre DEF Tables
<1>2. \A x : x \in CreateAll({}, T) <=> \E t \in T : x \in Declared(t)
  BY DEF CreateAll
<1>3. \A t \in T : t \in {"hr_admin_users", "hr_assistant_users", "slack_seen_events"}
  BY DEF Tables
<1>4. /\ "hr_admin_users" \in CreateAll({}, T) <=> "hr_admin_users" \in T
      /\ "ix_username" \in CreateAll({}, T) <=> "hr_admin_users" \in T
      /\ "hr_assistant_users" \in CreateAll({}, T) <=> "hr_assistant_users" \in T
      /\ "ix_employee" \in CreateAll({}, T) <=> "hr_assistant_users" \in T
  BY <1>1, <1>2, <1>3
<1>5. /\ "slack_seen_events" \in CreateAll({}, T) <=> "slack_seen_events" \in T
      /\ "event_id_128" \in CreateAll({}, T) <=> "slack_seen_events" \in T
      /\ "ix_seen_at" \in CreateAll({}, T) <=> "slack_seen_events" \in T
  BY <1>1, <1>2, <1>3
<1>6. CreateAll({}, T) \subseteq {"hr_admin_users", "ix_username", "hr_assistant_users", "ix_employee",
                                 "slack_seen_events", "event_id_128", "ix_seen_at"}
  BY <1>1, <1>2, <1>3
<1> QED
  BY <1>3, <1>4, <1>5, <1>6, PartsAre DEF Whole

\* Tables that are missing and made at once keep the shape.
LEMMA MakeKeeps ==
  ASSUME NEW d \in Schema, Shape(d), NEW batch, Whole(batch), CanMake(batch, d.has), NEW e,
         e = [d EXCEPT !.has = @ \cup batch]
  PROVE  Shape(e)
<1>1. e.stamp = d.stamp /\ e.has = d.has \cup batch
  BY DEF Schema
<1>2. batch \cap d.has = {}
  BY DEF CanMake
<1> QED
  BY <1>1, <1>2 DEF Shape, AtRevision, Schema, HeadRevision, Whole

\* An upgrade that fits keeps the shape and loses no table.
LEMMA UpKeeps ==
  ASSUME NEW k \in 1..HeadRevision, NEW d \in Schema, Shape(d), d.stamp = k - 1, UpFits(k, d.has)
  PROVE  /\ Up(k, d) \in Schema
         /\ Shape(Up(k, d))
         /\ Missing(Up(k, d).has) \subseteq Missing(d.has)
<1> USE DEF HeadRevision
<1>0. d.has \in SUBSET Parts
  BY DEF Schema
<1>1. CASE k = 1
  <2>1. Up(k, d) = [stamp |-> 1, has |-> CreateBaseline(d.has)]
    BY <1>1 DEF Up
  <2>2. CreateBaseline(d.has) \in SUBSET Parts
    BY <1>0, PartsAre DEF CreateBaseline, Baseline
  <2> QED
    BY <1>1, <2>1, <2>2 DEF CreateBaseline, Baseline, Schema, Shape, AtRevision, UpFits, Missing, Tables
<1>2. CASE k = 2
  <2>1. Up(k, d) = [stamp |-> 2, has |-> DropTables({"hr_assistant_audit"}, d.has)]
    BY <1>2 DEF Up
  <2>2. DropTables({"hr_assistant_audit"}, d.has) =
          d.has \ {"hr_assistant_audit", "ix_audit"}
    BY PartsAre DEF DropTables
  <2>3. DropTables({"hr_assistant_audit"}, d.has) \in SUBSET Parts
    BY <1>0, <2>2
  <2> QED
    BY <1>2, <2>1, <2>2, <2>3 DEF Schema, Shape, AtRevision, UpFits, Missing, Tables
<1>3. CASE k = 3
  <2>1. Up(k, d) = [stamp |-> 3, has |-> AddSeenEvents(d.has)]
    BY <1>3 DEF Up
  <2>2. AddSeenEvents(d.has) \in SUBSET Parts
    BY <1>0, PartsAre DEF AddSeenEvents
  <2> QED
    BY <1>3, <2>1, <2>2 DEF AddSeenEvents, Schema, Shape, AtRevision, UpFits, Missing, Tables
<1>4. CASE k = 4
  <2>1. Up(k, d) = [stamp |-> 4, has |-> Widen(d.has)]
    BY <1>4 DEF Up
  <2>2. Widen(d.has) \in SUBSET Parts
    BY <1>0, PartsAre DEF Widen
  <2> QED
    BY <1>4, <2>1, <2>2 DEF Widen, Schema, Shape, AtRevision, UpFits, Missing, Tables
<1>5. CASE k = 5
  <2>1. Up(k, d) = [stamp |-> 5, has |-> DropRole(d.has)]
    BY <1>5 DEF Up
  <2>2. DropRole(d.has) \in SUBSET Parts
    BY <1>0, PartsAre DEF DropRole
  <2> QED
    BY <1>5, <2>1, <2>2 DEF DropRole, Schema, Shape, AtRevision, UpFits, Missing, Tables
<1> QED
  BY <1>1, <1>2, <1>3, <1>4, <1>5

\* So does a downgrade, but for the tables.
LEMMA DownKeeps ==
  ASSUME NEW k \in 1..HeadRevision, NEW d \in Schema, Shape(d), d.stamp = k, DownFits(k, d.has)
  PROVE  Down(k, d) \in Schema /\ Shape(Down(k, d))
<1> USE DEF HeadRevision
<1>0. d.has \in SUBSET Parts
  BY DEF Schema
<1>1. CASE k = 1
  <2>1. Down(k, d) = [stamp |-> 0, has |-> DropTables(Baseline, d.has)]
    BY <1>1 DEF Down
  <2>2. DropTables(Baseline, d.has) =
          d.has \ {"hr_admin_users", "ix_username", "hr_assistant_audit", "ix_audit", "hr_assistant_users",
             "ix_employee", "role_required", "role_nullable"}
    BY PartsAre DEF DropTables, Baseline
  <2>3. DropTables(Baseline, d.has) \in SUBSET Parts
    BY <1>0, <2>2
  <2> QED
    BY <1>1, <2>1, <2>2, <2>3 DEF Schema, Shape, AtRevision, DownFits
<1>2. CASE k = 2
  <2>1. Down(k, d) = [stamp |-> 1, has |-> RestoreAudit(d.has)]
    BY <1>2 DEF Down
  <2>2. RestoreAudit(d.has) \in SUBSET Parts
    BY <1>0, PartsAre DEF RestoreAudit
  <2> QED
    BY <1>2, <2>1, <2>2 DEF RestoreAudit, Schema, Shape, AtRevision, DownFits
<1>3. CASE k = 3
  <2>1. Down(k, d) = [stamp |-> 2, has |-> DropTables({"slack_seen_events"}, d.has)]
    BY <1>3 DEF Down
  <2>2. DropTables({"slack_seen_events"}, d.has) =
          d.has \ {"slack_seen_events", "event_id_64", "event_id_128", "ix_seen_at"}
    BY PartsAre DEF DropTables
  <2>3. DropTables({"slack_seen_events"}, d.has) \in SUBSET Parts
    BY <1>0, <2>2
  <2> QED
    BY <1>3, <2>1, <2>2, <2>3 DEF Schema, Shape, AtRevision, DownFits
<1>4. CASE k = 4
  <2>1. Down(k, d) = [stamp |-> 3, has |-> Narrow(d.has)]
    BY <1>4 DEF Down
  <2>2. Narrow(d.has) \in SUBSET Parts
    BY <1>0, PartsAre DEF Narrow
  <2> QED
    BY <1>4, <2>1, <2>2 DEF Narrow, Schema, Shape, AtRevision, DownFits
<1>5. CASE k = 5
  <2>1. Down(k, d) = [stamp |-> 4, has |-> RestoreRole(d.has)]
    BY <1>5 DEF Down
  <2>2. RestoreRole(d.has) \in SUBSET Parts
    BY <1>0, PartsAre DEF RestoreRole
  <2> QED
    BY <1>5, <2>1, <2>2 DEF RestoreRole, Schema, Shape, AtRevision, DownFits
<1> QED
  BY <1>1, <1>2, <1>3, <1>4, <1>5

LEMMA TryKeeps ==
  ASSUME NEW k \in 1..HeadRevision, NEW d \in Schema, Shape(d)
  PROVE  /\ Try(k, d) \in Schema
         /\ Shape(Try(k, d))
         /\ Missing(Try(k, d).has) \subseteq Missing(d.has)
BY UpKeeps DEF Try

\* `alembic upgrade head` keeps the shape and loses no table.
LEMMA UpgradeHeadKeeps ==
  ASSUME NEW d \in Schema, Shape(d)
  PROVE  /\ UpgradeHead(d) \in Schema
         /\ Shape(UpgradeHead(d))
         /\ Missing(UpgradeHead(d).has) \subseteq Missing(d.has)
<1> DEFINE d1 == Try(1, d)
           d2 == Try(2, d1)
           d3 == Try(3, d2)
           d4 == Try(4, d3)
           d5 == Try(5, d4)
<1> USE DEF HeadRevision
<1>1. d1 \in Schema /\ Shape(d1) /\ Missing(d1.has) \subseteq Missing(d.has)
  BY TryKeeps
<1>2. d2 \in Schema /\ Shape(d2) /\ Missing(d2.has) \subseteq Missing(d.has)
  <2> HIDE DEF d1
  <2>1. d2 \in Schema /\ Shape(d2) /\ Missing(d2.has) \subseteq Missing(d1.has)
    <3>1. 2 \in 1..HeadRevision
      OBVIOUS
    <3> HIDE DEF HeadRevision
    <3> QED
      BY <1>1, <3>1, TryKeeps
  <2> QED
    BY <1>1, <2>1
<1>3. d3 \in Schema /\ Shape(d3) /\ Missing(d3.has) \subseteq Missing(d.has)
  <2> HIDE DEF d2
  <2>1. d3 \in Schema /\ Shape(d3) /\ Missing(d3.has) \subseteq Missing(d2.has)
    <3>1. 3 \in 1..HeadRevision
      OBVIOUS
    <3> HIDE DEF HeadRevision
    <3> QED
      BY <1>2, <3>1, TryKeeps
  <2> QED
    BY <1>2, <2>1
<1>4. d4 \in Schema /\ Shape(d4) /\ Missing(d4.has) \subseteq Missing(d.has)
  <2> HIDE DEF d3
  <2>1. d4 \in Schema /\ Shape(d4) /\ Missing(d4.has) \subseteq Missing(d3.has)
    <3>1. 4 \in 1..HeadRevision
      OBVIOUS
    <3> HIDE DEF HeadRevision
    <3> QED
      BY <1>3, <3>1, TryKeeps
  <2> QED
    BY <1>3, <2>1
<1>5. d5 \in Schema /\ Shape(d5) /\ Missing(d5.has) \subseteq Missing(d.has)
  <2> HIDE DEF d4
  <2>1. d5 \in Schema /\ Shape(d5) /\ Missing(d5.has) \subseteq Missing(d4.has)
    <3>1. 5 \in 1..HeadRevision
      OBVIOUS
    <3> HIDE DEF HeadRevision
    <3> QED
      BY <1>4, <3>1, TryKeeps
  <2> QED
    BY <1>4, <2>1
<1>6. UpgradeHead(d) = d5 \/ UpgradeHead(d) = d
  BY DEF UpgradeHead
<1> HIDE DEF d5
<1> QED
  BY <1>5, <1>6

----------------------------------------------------------------------------
(* The invariant, step by step.                                            *)

LEMMA DbTyped ==
  ASSUME TypeOK, NEW p \in Processes
  PROVE  Db(p) \in Databases /\ Db(p)[1] = AppUrl(p)
<1>1. StartedIn[p] \in Dirs
  BY DeploymentAssumption
<1>2. Read(p, "app") \in Urls \cup {Unset, Blank}
  BY <1>1 DEF TypeOK, Environment, Variables, Read
<1>3. AppUrl(p) \in Urls
  BY <1>2, DeploymentAssumption DEF AppUrl, Given
<1> QED
  BY <1>1, <1>3 DEF Db, Databases

LEMMA SameEnv ==
  ASSUME env' = env, NEW p \in Processes
  PROVE  /\ AppUrl(p)' = AppUrl(p) /\ Db(p)' = Db(p) /\ Debug(p)' = Debug(p)
         /\ Guards(p)' = Guards(p) /\ OnPostgres(p)' = OnPostgres(p)
BY DEF Db, OnPostgres, AppUrl, Read, Given, Debug, Guards, Open, AnyOrigin

LEMMA InitInv == Init => Inv
<1> SUFFICES ASSUME Init PROVE Inv
  OBVIOUS
<1>1. Empty \in Schema /\ Shape(Empty) /\ Empty.stamp <= 3
  BY DEF Empty, Schema, Shape, AtRevision, HeadRevision
<1>2. TypeOK
  BY <1>1, DeploymentAssumption DEF Init, TypeOK, Stages, HeadRevision
<1>3. Shapes /\ WholeIfAtOnce
  BY <1>1 DEF Init, Shapes, ShapeOf, WholeIfAtOnce, Whole
<1> QED
  BY <1>2, <1>3 DEF Init, Inv, OnSqliteOnly, GuardsPassed, Running, TablesStay, HasFound

\* What a step of p does: the environment and the other processes stay, and whoever
\* relies on a table keeps it or is told.
StepOf(p) ==
  /\ env' = env
  /\ \A q \in Processes \ {p} : stage'[q] = stage[q] /\ missing'[q] = missing[q]
  /\ \A q \in Processes \ {p} : q \notin lost' =>
       /\ q \notin lost
       /\ \/ stage[q] \in {"down", "settled"}
          \/ Missing(schema'[Db(q)].has) \subseteq Missing(schema[Db(q)].has)

\* Such a step keeps the invariant if p itself has what its new stage needs.
LEMMA StepKeeps ==
  ASSUME Inv, TypeOK', Shapes', NEW p \in Processes, StepOf(p),
         Running(p)' => Debug(p) \/ Guards(p),
         OnPostgres(p) => Whole(missing'[p]),
         stage'[p] \in {"upgrading", "downgrading"} => ~OnPostgres(p),
         p \notin lost' => HasFound(p)'
  PROVE  Inv'
<1>1. \A q \in Processes : /\ Db(q)' = Db(q) /\ Debug(q)' = Debug(q) /\ Guards(q)' = Guards(q)
                           /\ OnPostgres(q)' = OnPostgres(q)
  BY SameEnv DEF StepOf
<1>2. GuardsPassed'
  BY <1>1 DEF Inv, StepOf, GuardsPassed, Running
<1>3. WholeIfAtOnce'
  <2> SUFFICES ASSUME NEW q \in Processes, OnPostgres(q) PROVE Whole(missing'[q])
    BY <1>1 DEF WholeIfAtOnce, Whole
  <2>1. CASE q = p
    BY <2>1
  <2>2. CASE q # p
    BY <2>2 DEF Inv, StepOf, WholeIfAtOnce
  <2> QED
    BY <2>1, <2>2
<1>5. OnSqliteOnly'
  BY <1>1 DEF Inv, StepOf, OnSqliteOnly
<1>4. TablesStay'
  <2> SUFFICES ASSUME NEW q \in Processes, q \notin lost' PROVE HasFound(q)'
    BY DEF TablesStay
  <2>1. CASE q = p
    BY <2>1
  <2>2. CASE q # p
    <3>1. HasFound(q) /\ stage'[q] = stage[q] /\ missing'[q] = missing[q]
      BY <2>2 DEF Inv, TablesStay, StepOf
    <3>2. CASE stage[q] \in {"down", "settled"}
      BY <3>1, <3>2 DEF HasFound
    <3>3. CASE Missing(schema'[Db(q)].has) \subseteq Missing(schema[Db(q)].has)
      BY <1>1, <3>1, <3>3 DEF HasFound
    <3> QED
      BY <2>2, <3>2, <3>3 DEF StepOf
  <2> QED
    BY <2>1, <2>2
<1> QED
  BY <1>2, <1>3, <1>4, <1>5 DEF Inv

\* A step that changes one database, and no more than TypeOK and its shape allow.
LEMMA OneSchema ==
  ASSUME Inv, NEW p \in Processes, NEW e \in Schema, schema' = [schema EXCEPT ![Db(p)] = e],
         IF OnPostgres(p) THEN Shape(e) ELSE e.stamp <= 3
  PROVE  /\ schema' \in [Databases -> Schema]
         /\ schema'[Db(p)] = e
         /\ \A d \in Databases \ {Db(p)} : schema'[d] = schema[d]
         /\ Shapes'
<1>1. Db(p) \in Databases /\ Db(p)[1] = AppUrl(p)
  BY DbTyped DEF Inv
<1>2. schema' \in [Databases -> Schema] /\ schema'[Db(p)] = e
      /\ \A d \in Databases \ {Db(p)} : schema'[d] = schema[d]
  BY <1>1 DEF Inv, TypeOK
<1>3. \A d \in Databases : ShapeOf(d)'
  <2> SUFFICES ASSUME NEW d \in Databases PROVE ShapeOf(d)'
    OBVIOUS
  <2>1. CASE d = Db(p)
    BY <1>1, <1>2, <2>1 DEF ShapeOf, OnPostgres, Shape
  <2>2. CASE d # Db(p)
    BY <1>2, <2>2 DEF ShapeOf, Inv, Shapes, Shape
  <2> QED
    BY <2>1, <2>2
<1> QED
  BY <1>2, <1>3 DEF Shapes

\* Whoever uses another database keeps its tables, and so does everyone where none goes.
LEMMA OthersTold ==
  ASSUME Inv, NEW p \in Processes, NEW e \in Schema, schema'[Db(p)] = e,
         \A d \in Databases \ {Db(p)} : schema'[d] = schema[d],
         lost' = ToldOfLoss(Db(p), e.has) \/ (lost' = lost /\ Missing(e.has) \subseteq Missing(schema[Db(p)].has))
  PROVE  /\ lost' \subseteq Processes
         /\ \A q \in Processes : q \notin lost' =>
              /\ q \notin lost
              /\ \/ stage[q] \in {"down", "settled"}
                 \/ Missing(schema'[Db(q)].has) \subseteq Missing(schema[Db(q)].has)
<1>1. lost \subseteq lost' /\ lost' \subseteq Processes
  BY DEF ToldOfLoss, Inv, TypeOK
<1>2. ASSUME NEW q \in Processes, q \notin lost', stage[q] \notin {"down", "settled"}
      PROVE  Missing(schema'[Db(q)].has) \subseteq Missing(schema[Db(q)].has)
  <2>1. CASE Db(q) # Db(p)
    BY <2>1, DbTyped DEF Inv
  <2>2. CASE Db(q) = Db(p)
    <3>1. CASE Missing(e.has) \subseteq Missing(schema[Db(p)].has)
      BY <2>2, <3>1
    <3>2. CASE lost' = ToldOfLoss(Db(p), e.has)
      <4>1. Tables \cap schema[Db(p)].has \subseteq e.has
        BY <1>2, <2>2, <3>2 DEF ToldOfLoss
      <4> QED
        BY <2>2, <4>1 DEF Missing
    <3> QED
      BY <3>1, <3>2
  <2> QED
    BY <2>1, <2>2
<1> QED
  BY <1>1, <1>2

\* A statement of a revision leaves parts.
LEMMA StatementTyped ==
  ASSUME NEW k \in 0..HeadRevision, NEW i \in DOMAIN Statements(k)
  PROVE  Statements(k)[i] \in SUBSET Parts
<1>1. CASE k = 1
  <2>1. Statements(k) = <<{"hr_admin_users"}, {"ix_username"}, {"hr_assistant_audit"}, {"ix_audit"},
                          {"hr_assistant_users", "role_required"}, {"ix_employee"}>>
    BY <1>1 DEF Statements
  <2>2. i \in 1..6
    BY <2>1
  <2>3. i = 1 \/ i = 2 \/ i = 3 \/ i = 4 \/ i = 5 \/ i = 6
    BY <2>2
  <2> QED
    BY <2>1, <2>3, PartsAre
<1>2. CASE k = 2
  <2>1. Statements(k) = <<{"hr_assistant_audit"}, {"ix_audit"}>>
    BY <1>2 DEF Statements
  <2>2. i \in 1..2
    BY <2>1
  <2>3. i = 1 \/ i = 2
    BY <2>2
  <2> QED
    BY <2>1, <2>3, PartsAre
<1>3. CASE k = 3
  <2>1. Statements(k) = <<{"slack_seen_events", "event_id_64"}>>
    BY <1>3 DEF Statements
  <2>2. i = 1
    BY <2>1
  <2> QED
    BY <2>1, <2>2, PartsAre
<1>4. CASE k \in {0, 4, 5}
  <2>1. Statements(k) = <<>>
    BY <1>4 DEF Statements
  <2> QED
    BY <2>1
<1> QED
  BY <1>1, <1>2, <1>3, <1>4 DEF HeadRevision

LEMMA StatementsCount ==
  ASSUME NEW k \in 0..HeadRevision
  PROVE  /\ Len(Statements(k)) \in Nat /\ DOMAIN Statements(k) = 1..Len(Statements(k))
         /\ Statements(k) # <<>> => k \in 1..3
<1>1. CASE k = 1
  BY <1>1 DEF Statements
<1>2. CASE k = 2
  BY <1>2 DEF Statements
<1>3. CASE k = 3
  BY <1>3 DEF Statements
<1>4. CASE k \in {0, 4, 5}
  BY <1>4 DEF Statements
<1> QED
  BY <1>1, <1>2, <1>3, <1>4 DEF HeadRevision

LEMMA NextInv == Inv /\ [Next]_vars => Inv'
<1> SUFFICES ASSUME Inv, [Next]_vars PROVE Inv'
  OBVIOUS
<1> USE DEF StepOf, Enter
<1>0. \A q \in Processes : Db(q) \in Databases /\ Db(q)[1] = AppUrl(q)
  BY DbTyped DEF Inv
<1>s. ASSUME UNCHANGED schema PROVE Shapes' /\ \A d \in Databases : schema'[d] = schema[d]
  BY <1>s DEF Inv, Shapes, ShapeOf, Shape
<1>w. \A q \in Processes : OnPostgres(q) => Whole(missing[q])
  BY DEF Inv, WholeIfAtOnce
<1>e. Whole({})
  BY DEF Whole
<1>u. CASE UNCHANGED vars
  <2>1. Shapes'
    BY <1>s, <1>u DEF vars
  <2>2. /\ \A q \in Processes : OnPostgres(q)' = OnPostgres(q) /\ Db(q)' = Db(q)
                                /\ Debug(q)' = Debug(q) /\ Guards(q)' = Guards(q)
    BY <1>u, SameEnv DEF vars
  <2>3. TypeOK' /\ WholeIfAtOnce' /\ OnSqliteOnly'
    BY <1>u, <1>w, <2>2 DEF vars, Inv, TypeOK, WholeIfAtOnce, OnSqliteOnly, Whole
  <2>4. GuardsPassed' /\ TablesStay'
    BY <1>u, <2>2 DEF vars, Inv, GuardsPassed, Running, TablesStay, HasFound
  <2> QED
    BY <2>1, <2>3, <2>4 DEF Inv
<1>1. ASSUME NEW p \in Processes, Settle(p) PROVE Inv'
  <2>1. TypeOK' /\ Shapes'
    BY <1>1, <1>s DEF Settle, Inv, TypeOK, Stages
  <2>2. StepOf(p)
    BY <1>1, <1>s DEF Settle, Inv, TypeOK
  <2>3. (Running(p)' => Debug(p) \/ Guards(p)) /\ HasFound(p)'
    BY <1>1 DEF Settle, Running, HasFound, Inv, TypeOK
  <2>4. OnPostgres(p) => Whole(missing'[p])
    BY <1>1, <1>w DEF Settle
  <2>m. stage'[p] \in {"upgrading", "downgrading"} => ~OnPostgres(p)
    BY <1>1 DEF Settle, Inv, TypeOK
  <2> QED
    BY <2>m, <2>1, <2>2, <2>3, <2>4, StepKeeps
<1>2. ASSUME NEW p \in Processes, LookForTables(p) PROVE Inv'
  <2> DEFINE T == Missing(schema[Db(p)].has)
  <2>0. T \in SUBSET Tables
    BY DEF Missing
  <2>1. Whole(CreateAll({}, T)) /\ T \subseteq CreateAll({}, T) /\ CreateAll({}, T) \in SUBSET Parts
    <3> HIDE DEF T
    <3> QED
      BY <2>0, LooksForWhole
  <2>2. /\ UNCHANGED <<env, schema, line>> /\ lost' = lost \ {p} /\ stage[p] = "settled"
        /\ missing' = [missing EXCEPT ![p] = CreateAll({}, T)]
        /\ stage' = [stage EXCEPT ![p] = IF missing'[p] = {} THEN "created" ELSE "looked"]
    BY <1>2 DEF LookForTables
  <2> HIDE DEF T
  <2>3. missing'[p] = CreateAll({}, T)
    BY <2>2 DEF Inv, TypeOK
  <2>4. TypeOK' /\ Shapes'
    BY <1>s, <2>1, <2>2 DEF Inv, TypeOK, Stages
  <2>5. StepOf(p)
    BY <1>s, <2>2 DEF Inv, TypeOK
  <2>6. Db(p)' = Db(p)
    BY <2>2, SameEnv
  <2>7. HasFound(p)'
    <3>1. Missing(schema'[Db(p)'].has) = T
      BY <2>2, <2>6 DEF T
    <3>2. stage'[p] = IF missing'[p] = {} THEN "created" ELSE "looked"
      BY <2>2 DEF Inv, TypeOK
    <3> QED
      BY <2>1, <2>3, <3>1, <3>2 DEF HasFound
  <2>8. Debug(p) \/ Guards(p)
    BY <2>2 DEF Inv, GuardsPassed, Running
  <2>m. stage'[p] \in {"upgrading", "downgrading"} => ~OnPostgres(p)
    BY <2>2 DEF Inv, TypeOK
  <2> QED
    BY <2>m, <2>1, <2>3, <2>4, <2>5, <2>7, <2>8, StepKeeps
<1>3. ASSUME NEW p \in Processes, CreateTables(p) PROVE Inv'
  <2> DEFINE d == schema[Db(p)]
  <2>1. PICK batch \in InOneCommit(p) :
          IF CanMake(batch, d.has)
          THEN /\ schema' = [schema EXCEPT ![Db(p)].has = @ \cup batch]
               /\ missing' = [missing EXCEPT ![p] = @ \ batch]
               /\ Enter(p, IF batch = missing[p] THEN "created" ELSE "looked")
          ELSE Enter(p, "down") /\ missing' = [missing EXCEPT ![p] = {}] /\ UNCHANGED schema
    BY <1>3 DEF CreateTables
  <2>b. batch \subseteq missing[p] /\ (OnPostgres(p) => batch = missing[p])
    BY <2>1 DEF InOneCommit, Outstanding
  <2>2. UNCHANGED <<env, line, lost>> /\ stage[p] = "looked"
    BY <1>3 DEF CreateTables
  <2>3. Debug(p) \/ Guards(p)
    BY <2>2 DEF Inv, GuardsPassed, Running
  <2>4. Db(p)' = Db(p)
    BY <2>2, SameEnv
  <2>5. CASE ~CanMake(batch, d.has)
    <3>1. UNCHANGED schema /\ missing' = [missing EXCEPT ![p] = {}] /\ stage' = [stage EXCEPT ![p] = "down"]
      BY <2>1, <2>5
    <3> HIDE DEF d
    <3>2. TypeOK' /\ Shapes'
      BY <1>s, <2>2, <3>1 DEF Inv, TypeOK, Stages
    <3>3. StepOf(p)
      BY <1>s, <2>2, <3>1 DEF Inv, TypeOK
    <3>4. HasFound(p)' /\ Whole(missing'[p])
      BY <1>e, <3>1 DEF HasFound, Inv, TypeOK
    <3>m. stage'[p] \in {"upgrading", "downgrading"} => ~OnPostgres(p)
      BY <3>1 DEF Inv, TypeOK
    <3> QED
      BY <3>m, <2>3, <3>2, <3>3, <3>4, StepKeeps
  <2>6. CASE CanMake(batch, d.has)
    <3> DEFINE e == [d EXCEPT !.has = @ \cup batch]
    <3>1. d \in Schema /\ batch \in SUBSET Parts
      BY <1>0, <2>b DEF Inv, TypeOK
    <3>2. e \in Schema /\ e.stamp = d.stamp /\ e.has = d.has \cup batch
      BY <3>1 DEF Schema
    <3>3. Missing(e.has) = Missing(d.has) \ batch
      BY <3>2 DEF Missing
    <3>4. schema' = [schema EXCEPT ![Db(p)] = e]
      BY <2>1, <2>6
    <3>5. missing' = [missing EXCEPT ![p] = missing[p] \ batch]
          /\ stage' = [stage EXCEPT ![p] = IF batch = missing[p] THEN "created" ELSE "looked"]
      BY <2>1, <2>6
    <3>6. IF OnPostgres(p) THEN Shape(e) ELSE e.stamp <= 3
      <4>1. CASE OnPostgres(p)
        <5>1. Shape(d) /\ Whole(batch)
          BY <1>0, <1>w, <2>b, <4>1 DEF Inv, Shapes, ShapeOf, OnPostgres
        <5> QED
          BY <2>6, <3>1, <4>1, <5>1, MakeKeeps
      <4>2. CASE ~OnPostgres(p)
        BY <1>0, <3>2, <4>2 DEF Inv, Shapes, ShapeOf, OnPostgres
      <4> QED
        BY <4>1, <4>2
    <3> HIDE DEF d, e
    <3>7. /\ schema' \in [Databases -> Schema] /\ schema'[Db(p)] = e /\ Shapes'
          /\ \A f \in Databases \ {Db(p)} : schema'[f] = schema[f]
      BY <3>2, <3>4, <3>6, OneSchema
    <3>8. TypeOK'
      BY <2>2, <3>5, <3>7 DEF Inv, TypeOK, Stages
    <3>9. StepOf(p)
      <4>1. Missing(e.has) \subseteq Missing(schema[Db(p)].has)
        BY <3>3 DEF d
      <4>2. \A q \in Processes : q \notin lost' =>
              /\ q \notin lost
              /\ \/ stage[q] \in {"down", "settled"}
                 \/ Missing(schema'[Db(q)].has) \subseteq Missing(schema[Db(q)].has)
        BY <2>2, <3>2, <3>7, <4>1, OthersTold
      <4> QED
        BY <2>2, <3>5, <4>2 DEF Inv, TypeOK
    <3>10. ASSUME p \notin lost' PROVE HasFound(p)'
      <4>1. Missing(d.has) \subseteq missing[p]
        BY <2>2, <3>10 DEF Inv, TablesStay, HasFound, d
      <4>2. stage'[p] = (IF batch = missing[p] THEN "created" ELSE "looked") /\ missing'[p] = missing[p] \ batch
        BY <3>5 DEF Inv, TypeOK
      <4> QED
        BY <2>4, <3>3, <3>7, <4>1, <4>2 DEF HasFound
    <3>11. OnPostgres(p) => Whole(missing'[p])
      BY <1>e, <2>b, <3>5 DEF Inv, TypeOK
    <3>m. stage'[p] \in {"upgrading", "downgrading"} => ~OnPostgres(p)
      BY <3>5 DEF Inv, TypeOK
    <3> QED
      BY <3>m, <2>3, <3>7, <3>8, <3>9, <3>10, <3>11, StepKeeps
  <2> QED
    BY <2>5, <2>6
<1>4. ASSUME NEW p \in Processes, WarmUp(p) PROVE Inv'
  <2>1. stage' = [stage EXCEPT ![p] = "serving"] \/ stage' = [stage EXCEPT ![p] = "down"]
    BY <1>4 DEF WarmUp
  <2>2. UNCHANGED <<env, schema, missing, line, lost>> /\ stage[p] \in {"settled", "created"}
        /\ (Debug(p) => stage[p] = "created")
    BY <1>4 DEF WarmUp
  <2>3. TypeOK' /\ Shapes'
    BY <1>s, <2>1, <2>2 DEF Inv, TypeOK, Stages
  <2>4. StepOf(p)
    BY <1>s, <2>1, <2>2 DEF Inv, TypeOK
  <2>5. Db(p)' = Db(p) /\ Debug(p)' = Debug(p)
    BY <2>2, SameEnv
  <2>6. Debug(p) \/ Guards(p)
    BY <2>2 DEF Inv, GuardsPassed, Running
  <2>7. p \notin lost' => HasFound(p)'
    BY <2>1, <2>2, <2>5 DEF Inv, TypeOK, TablesStay, HasFound
  <2>m. stage'[p] \in {"upgrading", "downgrading"} => ~OnPostgres(p)
    BY <2>1 DEF Inv, TypeOK
  <2> QED
    BY <2>m, <1>w, <2>2, <2>3, <2>4, <2>6, <2>7, StepKeeps
<1>5. ASSUME NEW p \in Processes, Upgrade(p) PROVE Inv'
  <2> DEFINE d == schema[Db(p)]
             e == UpgradeHead(d)
  <2>1. /\ UNCHANGED <<env, missing, line, lost>> /\ stage[p] = "settled" /\ OnPostgres(p)
        /\ stage' = [stage EXCEPT ![p] = "down"] /\ schema' = [schema EXCEPT ![Db(p)] = e]
    BY <1>5 DEF Upgrade
  <2>2. d \in Schema /\ Shape(d)
    BY <1>0, <2>1 DEF Inv, TypeOK, Shapes, ShapeOf, OnPostgres
  <2>3. e \in Schema /\ Shape(e) /\ Missing(e.has) \subseteq Missing(schema[Db(p)].has)
    BY <2>2, UpgradeHeadKeeps
  <2> HIDE DEF d, e
  <2>4. /\ schema' \in [Databases -> Schema] /\ schema'[Db(p)] = e /\ Shapes'
        /\ \A f \in Databases \ {Db(p)} : schema'[f] = schema[f]
    BY <2>1, <2>3, OneSchema
  <2>5. TypeOK'
    BY <2>1, <2>4 DEF Inv, TypeOK, Stages
  <2>6. StepOf(p)
    <3>1. \A q \in Processes : q \notin lost' =>
            /\ q \notin lost
            /\ \/ stage[q] \in {"down", "settled"}
               \/ Missing(schema'[Db(q)].has) \subseteq Missing(schema[Db(q)].has)
      BY <2>1, <2>3, <2>4, OthersTold
    <3> QED
      BY <2>1, <3>1 DEF Inv, TypeOK
  <2>7. ~Running(p)' /\ HasFound(p)'
    BY <2>1 DEF Running, HasFound, Inv, TypeOK
  <2>m. stage'[p] \in {"upgrading", "downgrading"} => ~OnPostgres(p)
    BY <2>1 DEF Inv, TypeOK
  <2> QED
    BY <2>m, <1>w, <2>1, <2>4, <2>5, <2>6, <2>7, StepKeeps
<1>6. ASSUME NEW p \in Processes, Downgrade(p) PROVE Inv'
  <2> DEFINE d == schema[Db(p)]
             k == d.stamp
             e == Down(k, d)
  <2>1. /\ UNCHANGED <<env, missing, line>> /\ lost' = ToldOfLoss(Db(p), e.has) /\ OnPostgres(p)
        /\ stage' = [stage EXCEPT ![p] = "down"] /\ schema' = [schema EXCEPT ![Db(p)] = e]
    BY <1>6 DEF Downgrade
  <2>2. d \in Schema /\ Shape(d)
    BY <1>0, <2>1 DEF Inv, TypeOK, Shapes, ShapeOf, OnPostgres
  <2>3. e \in Schema /\ Shape(e)
    <3>1. k > 0 /\ DownFits(k, d.has)
      BY <1>6 DEF Downgrade
    <3>2. k \in 1..HeadRevision /\ d.stamp = k
      BY <2>2, <3>1 DEF Schema, HeadRevision
    <3> HIDE DEF k
    <3> QED
      BY <2>2, <3>1, <3>2, DownKeeps
  <2> HIDE DEF d, k, e
  <2>4. /\ schema' \in [Databases -> Schema] /\ schema'[Db(p)] = e /\ Shapes'
        /\ \A f \in Databases \ {Db(p)} : schema'[f] = schema[f]
    BY <2>1, <2>3, OneSchema
  <2>5. /\ lost' \subseteq Processes
        /\ \A q \in Processes : q \notin lost' =>
            /\ q \notin lost
            /\ \/ stage[q] \in {"down", "settled"}
               \/ Missing(schema'[Db(q)].has) \subseteq Missing(schema[Db(q)].has)
    BY <2>1, <2>3, <2>4, OthersTold
  <2>6. TypeOK'
    BY <2>1, <2>4, <2>5 DEF Inv, TypeOK, Stages
  <2>7. StepOf(p)
    BY <2>1, <2>5 DEF Inv, TypeOK
  <2>8. ~Running(p)' /\ HasFound(p)'
    BY <2>1 DEF Running, HasFound, Inv, TypeOK
  <2>m. stage'[p] \in {"upgrading", "downgrading"} => ~OnPostgres(p)
    BY <2>1 DEF Inv, TypeOK
  <2> QED
    BY <2>m, <1>w, <2>1, <2>4, <2>6, <2>7, <2>8, StepKeeps
<1>7. ASSUME NEW p \in Processes, BeginOnSqlite(p) PROVE Inv'
  <2>1. /\ UNCHANGED <<env, schema, missing, lost>> /\ stage[p] = "settled"
        /\ stage' = [stage EXCEPT ![p] = "upgrading"] \/ stage' = [stage EXCEPT ![p] = "downgrading"]
    BY <1>7 DEF BeginOnSqlite
  <2>2. line' \in [Processes -> [rev : 0..HeadRevision, at : Nat]]
    <3>1. PICK k \in 0..HeadRevision : k = schema[Db(p)].stamp
      BY <1>0 DEF Inv, TypeOK, Schema
    <3>2. \/ k < HeadRevision /\ line' = [line EXCEPT ![p] = [rev |-> k + 1, at |-> 1]]
          \/ line' = [line EXCEPT ![p] = [rev |-> k, at |-> 1]]
      BY <1>7, <3>1 DEF BeginOnSqlite
    <3> QED
      BY <3>1, <3>2 DEF Inv, TypeOK, HeadRevision
  <2>3. TypeOK' /\ Shapes'
    BY <1>s, <2>1, <2>2 DEF Inv, TypeOK, Stages
  <2>4. StepOf(p)
    BY <1>s, <2>1 DEF Inv, TypeOK
  <2>5. (Debug(p) \/ Guards(p)) /\ HasFound(p)'
    BY <2>1 DEF Inv, GuardsPassed, Running, HasFound, TypeOK
  <2>m. stage'[p] \in {"upgrading", "downgrading"} => ~OnPostgres(p)
    BY <1>7 DEF BeginOnSqlite
  <2> QED
    BY <2>m, <1>w, <2>1, <2>3, <2>4, <2>5, StepKeeps
<1>8. ASSUME NEW p \in Processes, RunStatement(p) PROVE Inv'
  <2>1. PICK k \in 0..HeadRevision : k = line[p].rev
    BY DEF Inv, TypeOK
  <2> DEFINE S == Statements(k)
             creates == Creates(k, stage[p] = "upgrading")
             s == IF creates THEN S[line[p].at] ELSE S[Len(S) + 1 - line[p].at]
             d == schema[Db(p)]
             rest == IF creates THEN d.has \cup s ELSE DropTables(s \cap AllTables, d.has \ s)
  <2>2. /\ UNCHANGED <<env, missing>> /\ stage[p] \in {"upgrading", "downgrading"}
        /\ line[p].at \in DOMAIN S
        /\ \/ /\ schema' = [schema EXCEPT ![Db(p)].has = rest]
              /\ line' = [line EXCEPT ![p].at = @ + 1]
              /\ lost' = ToldOfLoss(Db(p), rest)
              /\ UNCHANGED stage
           \/ stage' = [stage EXCEPT ![p] = "down"] /\ UNCHANGED <<schema, line, lost>>
    BY <1>8, <2>1 DEF RunStatement, Migrating
  <2>3. d \in Schema
    BY <1>0 DEF Inv, TypeOK
  <2>4. s \in SUBSET Parts
    <3>1. S[line[p].at] \in SUBSET Parts
      BY <2>2, StatementTyped
    <3>2. Len(S) + 1 - line[p].at \in DOMAIN S
      BY <2>2, StatementsCount
    <3>3. S[Len(S) + 1 - line[p].at] \in SUBSET Parts
      BY <3>2, StatementTyped
    <3> QED
      BY <3>1, <3>3
  <2>5. rest \in SUBSET Parts
    BY <2>3, <2>4 DEF DropTables, Schema
  <2>6. Debug(p) \/ Guards(p)
    BY <2>2 DEF Inv, GuardsPassed, Running
  <2>7. OnPostgres(p) => Whole(missing'[p])
    BY <1>w, <2>2
  <2> HIDE DEF S, creates, s, rest
  <2>8. CASE stage' = [stage EXCEPT ![p] = "down"] /\ UNCHANGED <<schema, line, lost>>
    <3>1. TypeOK' /\ Shapes'
      BY <1>s, <2>2, <2>8 DEF Inv, TypeOK, Stages
    <3>2. StepOf(p)
      BY <1>s, <2>2, <2>8 DEF Inv, TypeOK
    <3>3. HasFound(p)'
      BY <2>8 DEF HasFound, Inv, TypeOK
    <3>m. stage'[p] \in {"upgrading", "downgrading"} => ~OnPostgres(p)
      BY <2>8 DEF Inv, TypeOK
    <3> QED
      BY <3>m, <2>6, <2>7, <3>1, <3>2, <3>3, StepKeeps
  <2>9. CASE /\ schema' = [schema EXCEPT ![Db(p)].has = rest]
             /\ line' = [line EXCEPT ![p].at = @ + 1]
             /\ lost' = ToldOfLoss(Db(p), rest)
             /\ UNCHANGED stage
    <3> DEFINE e == [d EXCEPT !.has = rest]
    <3>1. e \in Schema /\ e.stamp = d.stamp /\ e.has = rest
      BY <2>3, <2>5 DEF Schema
    <3>2. schema' = [schema EXCEPT ![Db(p)] = e]
      BY <2>9
    <3>3. IF OnPostgres(p) THEN Shape(e) ELSE e.stamp <= 3
      <4>1. ~OnPostgres(p)
        BY <2>2 DEF Inv, OnSqliteOnly
      <4> QED
        BY <1>0, <3>1, <4>1 DEF Inv, Shapes, ShapeOf, OnPostgres
    <3> HIDE DEF e, d
    <3>4. /\ schema' \in [Databases -> Schema] /\ schema'[Db(p)] = e /\ Shapes'
          /\ \A f \in Databases \ {Db(p)} : schema'[f] = schema[f]
      BY <3>1, <3>2, <3>3, OneSchema
    <3>5. /\ lost' \subseteq Processes
          /\ \A q \in Processes : q \notin lost' =>
              /\ q \notin lost
              /\ \/ stage[q] \in {"down", "settled"}
                 \/ Missing(schema'[Db(q)].has) \subseteq Missing(schema[Db(q)].has)
      BY <2>9, <3>1, <3>4, OthersTold
    <3>6. line' \in [Processes -> [rev : 0..HeadRevision, at : Nat]]
      BY <2>9 DEF Inv, TypeOK
    <3>7. TypeOK'
      BY <2>2, <2>9, <3>4, <3>5, <3>6 DEF Inv, TypeOK
    <3>8. StepOf(p)
      BY <2>2, <2>9, <3>5
    <3>9. HasFound(p)'
      BY <2>2, <2>9 DEF HasFound
    <3>m. stage'[p] \in {"upgrading", "downgrading"} => ~OnPostgres(p)
      BY <2>2, <2>9 DEF Inv, OnSqliteOnly
    <3> QED
      BY <3>m, <2>6, <2>7, <3>4, <3>7, <3>8, <3>9, StepKeeps
  <2> QED
    BY <2>2, <2>8, <2>9
<1>9. ASSUME NEW p \in Processes, StampRevision(p) PROVE Inv'
  <2>1. PICK k \in 0..HeadRevision : k = line[p].rev
    BY DEF Inv, TypeOK
  <2> DEFINE to == IF stage[p] = "upgrading" THEN k ELSE k - 1
             d == schema[Db(p)]
             e == [d EXCEPT !.stamp = to]
  <2>2. /\ UNCHANGED <<env, missing, lost>> /\ stage[p] \in {"upgrading", "downgrading"}
        /\ \/ /\ Statements(k) # <<>>
              /\ schema' = [schema EXCEPT ![Db(p)].stamp = to]
              /\ line' = [line EXCEPT ![p] = [rev |-> k + 1, at |-> 1]]
              /\ stage' = [stage EXCEPT ![p] = IF stage[p] = "upgrading" THEN "upgrading" ELSE "down"]
           \/ stage' = [stage EXCEPT ![p] = "down"] /\ UNCHANGED <<schema, line>>
    BY <1>9, <2>1 DEF StampRevision, Migrating
  <2>3. Debug(p) \/ Guards(p)
    BY <2>2 DEF Inv, GuardsPassed, Running
  <2>4. OnPostgres(p) => Whole(missing'[p])
    BY <1>w, <2>2
  <2>5. HasFound(p)'
    BY <2>2 DEF HasFound, Inv, TypeOK
  <2>6. d \in Schema
    BY <1>0 DEF Inv, TypeOK
  <2>7. CASE UNCHANGED <<schema, line>> /\ stage' = [stage EXCEPT ![p] = "down"]
    <3>1. TypeOK' /\ Shapes'
      BY <1>s, <2>2, <2>7 DEF Inv, TypeOK, Stages
    <3>2. StepOf(p)
      BY <1>s, <2>2, <2>7 DEF Inv, TypeOK
    <3>m. stage'[p] \in {"upgrading", "downgrading"} => ~OnPostgres(p)
      BY <2>7 DEF Inv, TypeOK
    <3> QED
      BY <3>m, <2>3, <2>4, <2>5, <3>1, <3>2, StepKeeps
  <2>8. CASE /\ Statements(k) # <<>>
             /\ schema' = [schema EXCEPT ![Db(p)].stamp = to]
             /\ line' = [line EXCEPT ![p] = [rev |-> k + 1, at |-> 1]]
             /\ stage' = [stage EXCEPT ![p] = IF stage[p] = "upgrading" THEN "upgrading" ELSE "down"]
    <3>1. k \in 1..3 /\ to \in 0..3
      BY <2>8, StatementsCount
    <3>2. e \in Schema /\ e.stamp = to /\ e.has = d.has
      BY <2>6, <3>1 DEF Schema, HeadRevision
    <3>3. schema' = [schema EXCEPT ![Db(p)] = e]
      BY <2>8
    <3>4. IF OnPostgres(p) THEN Shape(e) ELSE e.stamp <= 3
      BY <2>2, <3>1, <3>2 DEF Inv, OnSqliteOnly
    <3> HIDE DEF e
    <3>5. Missing(e.has) \subseteq Missing(schema[Db(p)].has)
      BY <3>2
    <3> HIDE DEF d
    <3>6. /\ schema' \in [Databases -> Schema] /\ schema'[Db(p)] = e /\ Shapes'
          /\ \A f \in Databases \ {Db(p)} : schema'[f] = schema[f]
      BY <3>2, <3>3, <3>4, OneSchema
    <3>7. \A q \in Processes : q \notin lost' =>
            /\ q \notin lost
            /\ \/ stage[q] \in {"down", "settled"}
               \/ Missing(schema'[Db(q)].has) \subseteq Missing(schema[Db(q)].has)
      BY <2>2, <3>2, <3>5, <3>6, OthersTold
    <3>8. line' \in [Processes -> [rev : 0..HeadRevision, at : Nat]]
      BY <2>8, <3>1 DEF Inv, TypeOK, HeadRevision
    <3>9. TypeOK'
      BY <2>2, <2>8, <3>6, <3>8 DEF Inv, TypeOK, Stages
    <3>10. StepOf(p)
      BY <2>2, <2>8, <3>7 DEF Inv, TypeOK
    <3>m. stage'[p] \in {"upgrading", "downgrading"} => ~OnPostgres(p)
      BY <2>2 DEF Inv, OnSqliteOnly
    <3> QED
      BY <3>m, <2>3, <2>4, <2>5, <3>6, <3>9, <3>10, StepKeeps
  <2> QED
    BY <2>2, <2>7, <2>8
<1>10. ASSUME NEW p \in Processes, Stop(p) PROVE Inv'
  <2>1. /\ UNCHANGED <<env, schema>> /\ lost' = lost \ {p} /\ stage' = [stage EXCEPT ![p] = "down"]
        /\ missing' = [missing EXCEPT ![p] = {}]
        /\ line' = [line EXCEPT ![p] = [rev |-> 0, at |-> 0]]
    BY <1>10 DEF Stop
  <2>2. TypeOK' /\ Shapes'
    BY <1>s, <2>1 DEF Inv, TypeOK, Stages, HeadRevision
  <2>3. StepOf(p)
    BY <1>s, <2>1 DEF Inv, TypeOK
  <2>4. ~Running(p)' /\ HasFound(p)' /\ Whole(missing'[p])
    BY <1>e, <2>1 DEF Running, HasFound, Inv, TypeOK
  <2>m. stage'[p] \in {"upgrading", "downgrading"} => ~OnPostgres(p)
    BY <2>1 DEF Inv, TypeOK
  <2> QED
    BY <2>m, <2>2, <2>3, <2>4, StepKeeps
<1> QED
  BY <1>u, <1>1, <1>2, <1>3, <1>4, <1>5, <1>6, <1>7, <1>8, <1>9, <1>10 DEF Next

THEOREM Invariance == Spec => []Inv
BY InitInv, NextInv, PTL DEF Spec

----------------------------------------------------------------------------
(* The theorems.                                                           *)

\* The variables keep their types: no schema has a part or a stamp no revision knows.
THEOREM TypeCorrect == Spec => []TypeOK
BY Invariance, PTL DEF Inv

\* Production processes of one deployment have one URL for the app database and one
\* session key, which is none of the placeholders, whatever the environment and the
\* directories they are started in; that is one database unless the URL is relative.
THEOREM ProductionAgrees == Spec => []OneDeployment
<1>1. Inv => OneDeployment
  <2>1. ASSUME Inv, NEW p \in Processes, Running(p), ~Debug(p)
        PROVE  /\ AppUrl(p) = env.os.app
               /\ Key(p) = env.os.secret /\ env.os.secret \notin Weak
    <3>1. Guards(p)
      BY <2>1 DEF Inv, GuardsPassed
    <3> QED
      BY <3>1 DEF Guards, Given, AppUrl, Key, Read
  <2> QED
    BY <2>1 DEF OneDeployment, Db
<1> QED
  BY <1>1, Invariance, PTL

\* A database at the last revision is what the models declare, whatever create_all has
\* made in it between upgrades and downgrades.
THEOREM HeadIsModels == Spec => []HeadMatchesModels
<1>1. Inv => HeadMatchesModels
  <2> SUFFICES ASSUME Inv, NEW d \in Databases, schema[d].stamp = HeadRevision
               PROVE  MatchesModels(schema[d].has)
    BY DEF HeadMatchesModels
  <2>1. schema[d].has \in SUBSET Parts /\ AtRevision(5, schema[d].has)
    BY DEF Inv, TypeOK, Schema, Shapes, ShapeOf, Shape, HeadRevision
  <2>2. schema[d].has = {"hr_admin_users", "ix_username", "hr_assistant_users", "ix_employee",
                         "slack_seen_events", "event_id_128", "ix_seen_at"}
    BY <2>1, PartsAre DEF AtRevision
  <2>3. CreateAll({}, Tables) = (Declared("hr_admin_users") \cup Declared("hr_assistant_users"))
                                \cup Declared("slack_seen_events")
    BY DEF CreateAll, Tables
  <2> QED
    BY <2>2, <2>3, DeclaredAre DEF MatchesModels
<1> QED
  BY <1>1, Invariance, PTL

\* A DEBUG worker serves only when all tables are there, whatever other workers, the
\* script and half-done migrations did before, and they stay until a downgrade takes one.
THEOREM DebugWorkersHaveTables == Spec => []TablesWhenServing
<1>1. Inv => TablesWhenServing
  BY DEF Inv, TablesStay, HasFound, TablesWhenServing, Processes, Missing
<1> QED
  BY <1>1, Invariance, PTL
=============================================================================
