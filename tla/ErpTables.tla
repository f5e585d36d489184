------------------------------ MODULE ErpTables ------------------------------
(* The tables of scripts/seed_erp.py: what its DDL lets each of them refer   *)
(* to, in the order of creation, and the order in which --reset drops them.  *)
EXTENDS Integers, Sequences

\* DDL_CREATE, each table with those its columns reference.
Ddl == <<
  <<"department", {}>>, <<"employment_type", {}>>, <<"competency_role", {}>>,
  <<"competency_level", {}>>, <<"designation", {}>>, <<"leave_type", {}>>,
  <<"skill_category", {}>>,
  <<"person", {"department", "designation", "employment_type"}>>,
  <<"team", {"person"}>>, <<"person_team", {"person", "team"}>>,
  <<"leave_limit", {"employment_type"}>>, <<"person_leave_limit", {"person", "leave_type"}>>,
  <<"leave_record", {"person", "leave_type"}>>, <<"holiday_record", {}>>,
  <<"person_week_log", {"person"}>>,
  <<"person_week_project", {"person_week_log", "person_team"}>>,
  <<"person_competency", {"person", "competency_role", "competency_level"}>>,
  <<"users_personresignation", {"person"}>>, <<"core_personstatushistory", {"person"}>>,
  <<"core_personemploymenthistory", {"person", "employment_type"}>>,
  <<"core_personemploymenttypehistory", {"person", "employment_type"}>>,
  <<"person_skill_category", {"person", "skill_category"}>>,
  <<"job_requisition", {"competency_role", "team"}>>,
  <<"annual_review_response", {"person_team"}>> >>

AllTables == {Ddl[i][1] : i \in DOMAIN Ddl}
References(t) == UNION {Ddl[i][2] : i \in {j \in DOMAIN Ddl : Ddl[j][1] = t}}

\* _DROP_TABLES
DropTables == <<
  "annual_review_response", "person_skill_category", "skill_category", "job_requisition",
  "core_personemploymenttypehistory", "core_personemploymenthistory",
  "core_personstatushistory", "users_personresignation", "person_week_project",
  "person_week_log", "holiday_record", "person_leave_limit", "leave_limit", "leave_record",
  "leave_type", "person_competency", "person_team", "team", "person", "designation",
  "competency_level", "competency_role", "employment_type", "department" >>

\* DROP TABLE IF EXISTS, in order; PostgreSQL refuses one that is still referenced.
DropsFit(tables) ==
  \A n \in DOMAIN DropTables : DropTables[n] \in tables =>
    \A t \in tables \ {DropTables[i] : i \in 1..n} : DropTables[n] \notin References(t)

\* CREATE TABLE IF NOT EXISTS, in order; what a new table references must be there.
CreatesFit(tables) ==
  \A n \in DOMAIN Ddl : Ddl[n][1] \notin tables =>
    Ddl[n][2] \subseteq tables \cup {Ddl[i][1] : i \in 1..(n - 1)}

\* Both orders suit a database that has all of the tables or none.
ASSUME OrdersFit == CreatesFit({}) /\ DropsFit(AllTables)
=============================================================================
