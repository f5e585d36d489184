------------------------------ MODULE AppSchema ------------------------------
(***************************************************************************)
(* The schema of the app database: what core/rbac/models.py declares, what *)
(* each revision under migrations/versions/ does to it in both directions, *)
(* and what Base.metadata.create_all adds.  A schema is the revision it is *)
(* stamped with and the set of its parts: tables, indexes, and of the      *)
(* columns those that some revision changes.                               *)
(***************************************************************************)
EXTENDS Integers, FiniteSets, Sequences

HeadRevision == 5
\* The tables of core/rbac/models.py.
Tables == {"hr_admin_users", "hr_assistant_users", "slack_seen_events"}

\* What goes with a table when it is dropped.  "role" is the column and department_id
\* and team_id with it; hr_assistant_audit has left the models.
PartsOf(t) ==
  {t} \cup CASE t = "hr_admin_users" -> {"ix_username"}
             [] t = "hr_assistant_audit" -> {"ix_audit"}
             [] t = "hr_assistant_users" -> {"ix_employee", "role_required", "role_nullable"}
             [] t = "slack_seen_events" -> {"event_id_64", "event_id_128", "ix_seen_at"}
             [] OTHER -> {}
AllTables == Tables \cup {"hr_assistant_audit"}
Indexes == {"ix_username", "ix_audit", "ix_employee", "ix_seen_at"}
Parts == UNION {PartsOf(t) : t \in AllTables}

\* alembic_version, 0 before the first revision, and the parts.
Schema == [stamp : 0..HeadRevision, has : SUBSET Parts]
Empty == [stamp |-> 0, has |-> {}]

\* The statements of create_all, in its order.
CreateStatements ==
  <<{"hr_admin_users"}, {"ix_username"}, {"hr_assistant_users"}, {"ix_employee"},
    {"slack_seen_events", "event_id_128"}, {"ix_seen_at"}>>
Declared(t) ==
  UNION {CreateStatements[i] : i \in {j \in DOMAIN CreateStatements : CreateStatements[j] \subseteq PartsOf(t)}}

\* The tables in T as the models declare them.
CreateAll(parts, T) == parts \cup UNION {Declared(t) : t \in T}

MissingIfFresh(parts) == IF "hr_admin_users" \in parts THEN {} ELSE Tables
\* create_all asks of each table whether it is there, not what it looks like.
Missing(parts) == Tables \ parts

MatchesModels(parts) == parts = CreateAll({}, Tables)

\* A statement makes nothing that is there, and no index of a table that is not.
CanMake(new, parts) ==
  new \cap parts = {} /\ \A t \in AllTables : new \cap PartsOf(t) # {} => t \in new \cup parts

----------------------------------------------------------------------------
(* The revisions, "50984e4fef6b" being the first: upgrade(), downgrade().  *)

\* What the first three make, or take back, one after the other.
Statements(k) ==
  CASE k = 1 -> <<{"hr_admin_users"}, {"ix_username"}, {"hr_assistant_audit"}, {"ix_audit"},
                  {"hr_assistant_users", "role_required"}, {"ix_employee"}>>
    [] k = 2 -> <<{"hr_assistant_audit"}, {"ix_audit"}>>
    [] k = 3 -> <<{"slack_seen_events", "event_id_64"}>>
    [] OTHER -> <<>>
\* 0002 drops in its upgrade and creates in its downgrade.
Creates(k, up) == up <=> k # 2

Baseline == {"hr_admin_users", "hr_assistant_audit", "hr_assistant_users"}
CreateBaseline(parts) ==
  parts \cup (Baseline \cup {"ix_username", "ix_audit", "ix_employee", "role_required"})
\* DROP TABLE takes the columns and indexes with it.
DropTables(T, parts) == parts \ UNION {PartsOf(t) : t \in T}

RestoreAudit(parts) == parts \cup {"hr_assistant_audit", "ix_audit"}
AddSeenEvents(parts) == parts \cup {"slack_seen_events", "event_id_64"}

WidenTo255(parts) == (parts \ {"event_id_64"}) \cup {"event_id_255", "ix_seen_at"}
WidenOnly(parts) == (parts \ {"event_id_64"}) \cup {"event_id_128"}
Widen(parts) == (parts \ {"event_id_64"}) \cup {"event_id_128", "ix_seen_at"}
Narrow(parts) == (parts \ {"event_id_128", "ix_seen_at"}) \cup {"event_id_64"}

DropRole(parts) == parts \ {"role_required", "role_nullable"}
\* The columns come back empty, and therefore nullable.
RestoreRole(parts) == parts \cup {"role_nullable"}

\* Every operation of an upgrade or downgrade finds what it drops or alters, and none
\* finds what it makes.
UpFits(k, parts) ==
  \/ k = 1 /\ Baseline \cap parts = {}
  \/ k = 2 /\ {"hr_assistant_audit", "ix_audit"} \subseteq parts
  \/ k = 3 /\ "slack_seen_events" \notin parts
  \/ k = 4 /\ "slack_seen_events" \in parts /\ "ix_seen_at" \notin parts
  \/ k = 5 /\ {"role_required", "role_nullable"} \cap parts # {}
DownFits(k, parts) ==
  \/ k = 1 /\ Baseline \cup {"ix_username", "ix_audit", "ix_employee"} \subseteq parts
  \/ k = 2 /\ "hr_assistant_audit" \notin parts
  \/ k = 3 /\ "slack_seen_events" \in parts
  \/ k = 4 /\ "ix_seen_at" \in parts
  \/ k = 5 /\ {"role_required", "role_nullable"} \cap parts = {}

\* Revision k on top of k - 1, and back, in a transaction.
Up(k, d) ==
  [stamp |-> k,
   has |-> CASE k = 1 -> CreateBaseline(d.has) [] k = 2 -> DropTables({"hr_assistant_audit"}, d.has)
             [] k = 3 -> AddSeenEvents(d.has) [] k = 4 -> Widen(d.has) [] k = 5 -> DropRole(d.has)]
Down(k, d) ==
  [stamp |-> k - 1,
   has |-> CASE k = 1 -> DropTables(Baseline, d.has) [] k = 2 -> RestoreAudit(d.has)
             [] k = 3 -> DropTables({"slack_seen_events"}, d.has) [] k = 4 -> Narrow(d.has)
             [] k = 5 -> RestoreRole(d.has)]

Try(k, d) == IF d.stamp = k - 1 /\ UpFits(k, d.has) THEN Up(k, d) ELSE d

\* `alembic upgrade head` in one transaction: all the revisions or none.
UpgradeHead(d) ==
  LET last == Try(5, Try(4, Try(3, Try(2, Try(1, d)))))
  IN IF last.stamp = HeadRevision THEN last ELSE d
=============================================================================
