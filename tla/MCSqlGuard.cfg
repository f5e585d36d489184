SPECIFICATION Spec
CONSTANTS
  person = person
  person_team = person_team
  leave_record = leave_record
  person_week_project = person_week_project
  department = department
  cte = cte
  Person = person
  PersonTeam = person_team
  FkTables = {person_team, leave_record}
  TeamFkTables = {person_week_project}
  FreeTables = {department}
  OtherTables = {cte}
  Derived = Derived
  Nobody = Nobody
  Null = Null
  Everyone = Everyone
  Scopes = {1, Nobody, Everyone}
  Statements <- MCStatements
  Databases <- MCDatabases
INVARIANTS OwnRowsOnly OwnRowsKept 
CHECK_DEADLOCK FALSE
