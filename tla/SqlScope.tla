------------------------------ MODULE SqlScope ------------------------------
(***************************************************************************)
(* The scope of a restricted requester (core/rbac/sql_guard.py): which     *)
(* rows are the requester's own, and the predicates that the guard adds to *)
(* the WHERE clause of one SELECT.  A row keeps its key, the reference the *)
(* guard compares and one forbidden column.                                *)
(***************************************************************************)
EXTENDS Naturals, Sequences

CONSTANTS
  Person,         \* the table `person`
  PersonTeam,     \* the table `person_team`
  FkTables,       \* _PERSON_FK_TABLES: ref is the row's person_id
  TeamFkTables,   \* _PERSON_TEAM_FK_TABLES: ref is the row's person_team_id
  FreeTables,     \* _PERSON_FREE_TABLES
  OtherTables,    \* tables in none of the sets, and the names of CTEs
  Derived,        \* in place of a table: a subquery in FROM
  Nobody,         \* the person_id of a SELF context without one
  Null            \* the row of an outer join that found none

ASSUME ClassesAssumption ==
  /\ PersonTeam \in FkTables
  /\ Person \notin FkTables \cup TeamFkTables \cup FreeTables \cup OtherTables
  /\ FkTables \cap (TeamFkTables \cup FreeTables \cup OtherTables) = {}
  /\ TeamFkTables \cap (FreeTables \cup OtherTables) = {}
  /\ FreeTables \cap OtherTables = {}

Classified == {Person} \cup FkTables \cup TeamFkTables \cup FreeTables
Tables == Classified \cup OtherTables

Row == [id : Nat, ref : Nat, secret : Nat]
Database == [Tables -> SUBSET Row]

ASSUME MarkersAssumption == Derived \notin Tables /\ Nobody \notin Nat /\ Null \notin Row

----------------------------------------------------------------------------
(* What a person may read: "own person row and own person-linked rows only" *)
(* (core/rbac/context.py:13), and the tables that hold nobody's data.       *)

TeamsOf(db, p) == {r.id : r \in {m \in db[PersonTeam] : m.ref = p}}

IsOwn(db, p, t, r) ==
  \/ t \in FreeTables
  \/ t = Person /\ r.id = p
  \/ t \in FkTables /\ r.ref = p
  \/ t \in TeamFkTables /\ r.ref \in TeamsOf(db, p)

\* The database without everybody else.
View(db, p) == [t \in Tables |-> {r \in db[t] : IsOwn(db, p, t, r)}]

----------------------------------------------------------------------------
(* FROM: a sequence of sources, each a table or a subquery, joined with the *)
(* others or outer joined with the first one.                               *)

\* A source may be given a column-alias list (person AS p(...)), and then its
\* columns go by other names: here key and reference swap theirs, and what the
\* third is called says nothing.
Source == [table : Tables \cup {Derived}, left : BOOLEAN, sub : Nat, renamed : BOOLEAN]

\* A subquery has the rows it returns, a table the rows of the database.
SourceRows(from, parts, db) ==
  [i \in DOMAIN from |-> IF from[i].table = Derived THEN parts[i] ELSE db[from[i].table]]

NamesKept(from) == \A i \in DOMAIN from : ~from[i].renamed
InnerOnly(from) == \A i \in DOMAIN from : ~from[i].left

\* A key of one row is the reference of the other: the ON of an outer join.
Match(r, s) == r.id = s.ref \/ s.id = r.ref

Joins(from, rows, e, i) ==
  IF from[i].left
  THEN \/ e[i] \in rows[i] /\ e[1] # Null /\ Match(e[1], e[i])
       \/ e[i] = Null /\ \A r \in rows[i] : e[1] = Null \/ ~Match(e[1], r)
  ELSE e[i] \in rows[i]

\* The joined rows, if the i-th source has the rows rows[i].
Joined(from, rows) ==
  {e \in [DOMAIN from -> (UNION {rows[i] : i \in DOMAIN from}) \cup {Null}] :
     \A i \in DOMAIN from : Joins(from, rows, e, i)}

----------------------------------------------------------------------------
(* The injected predicates.                                                 *)

\* _person_alias: the first reference to `person` among FROM and JOIN.
PersonAlias(from) ==
  {i \in DOMAIN from :
     from[i].table = Person /\ \A k \in DOMAIN from : from[k].table = Person => i <= k}

\* No more than one reference to `person`, so that the first is all of them.
PersonOnce(from) ==
  \A i, k \in DOMAIN from : from[i].table = Person /\ from[k].table = Person => i = k

Predicate(op, i, from, p) ==
  [op |-> op, src |-> i, renamed |-> from[i].renamed, person |-> p]

PredicatesUnlessPerson(from, p) ==
  {Predicate("own row", i, from, p) : i \in PersonAlias(from)} \cup
  (IF PersonAlias(from) # {} THEN {} ELSE
   {Predicate("own fk", i, from, p) : i \in {k \in DOMAIN from : from[k].table \in FkTables}} \cup
   {Predicate("own team", i, from, p) : i \in {k \in DOMAIN from : from[k].table \in TeamFkTables}})

PredicatesOnAll(from, p) ==
  {Predicate("own row", i, from, p) : i \in {k \in DOMAIN from : from[k].table = Person}} \cup
  {Predicate("own fk", i, from, p) :
     i \in {k \in DOMAIN from : from[k].table \in FkTables \cup FreeTables}} \cup
  {Predicate("own team", i, from, p) : i \in {k \in DOMAIN from : from[k].table \in TeamFkTables}}

\* _scope_sql for the person table, and _fk_scope_sql and _person_team_fk_scope_sql
\* for every person-linked table, whether or not `person` is there too.
Predicates(from, p) ==
  {Predicate("own row", i, from, p) : i \in PersonAlias(from)} \cup
  {Predicate("own fk", i, from, p) : i \in {k \in DOMAIN from : from[k].table \in FkTables}} \cup
  {Predicate("own team", i, from, p) : i \in {k \in DOMAIN from : from[k].table \in TeamFkTables}}

\* A predicate without a person is "1 = 0"; a comparison with NULL is not true.
\* It compares the column that goes by the name in its source; the subquery of the
\* last one reads person_team as it is.
PredicateHolds(a, e, db) ==
  /\ a.person # Nobody
  /\ e[a.src] # Null
  /\ LET key == IF a.renamed THEN e[a.src].ref ELSE e[a.src].id
         ref == IF a.renamed THEN e[a.src].id ELSE e[a.src].ref
     IN \/ a.op = "own row" /\ key = a.person
        \/ a.op = "own fk" /\ ref = a.person
        \/ a.op = "own team" /\ ref \in TeamsOf(db, a.person)

\* The joined rows of a SELECT that satisfy what was added to it.
InScope(from, rows, db, p) ==
  {e \in Joined(from, rows) : \A a \in Predicates(from, p) : PredicateHolds(a, e, db)}
=============================================================================
