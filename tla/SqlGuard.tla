------------------------------ MODULE SqlGuard ------------------------------
(***************************************************************************)
(* rewrite_sql (core/rbac/sql_guard.py), called on every statement of an   *)
(* agent by _scoped_run (core/agent/factory.py), and the meaning of the    *)
(* statements it lets through, as a reference for what it does to them.    *)
(*                                                                         *)
(* A statement is the sequence of its queries: the first is the statement, *)
(* and a query refers to its subqueries by later positions.  A WHERE clause *)
(* is a set of clauses that must all hold, a clause a set of conditions of *)
(* which one must.                                                         *)
(***************************************************************************)
EXTENDS SqlScope, FiniteSets

CONSTANTS
  Everyone,     \* no context, or an UNRESTRICTED one
  Scopes,       \* the contexts: Everyone, person ids of SELF contexts, Nobody
  Statements,   \* what the model writes: bound of the model
  Databases     \* what the ERP holds: bound of the model

ASSUME ScopesAssumption == Everyone \notin Nat \cup {Nobody} /\ Scopes \subseteq Nat \cup {Nobody, Everyone}

----------------------------------------------------------------------------
(* Statements and databases.                                                *)

Ops == {"true", "match", "using", "match outer", "forbidden", "in", "exists", "not exists"}
Items == {"columns", "count", "star", "whole row", "forbidden"}
Combinations == {"union", "intersect", "except"}
Marks == {"into", "data modification", "function"}

Condition == [op : Ops, sub : Nat]
Query == [kind : {"select"} \cup Combinations, from : Seq(Source), where : SUBSET SUBSET Condition,
          item : Items, of : Nat, marks : SUBSET Marks, parts : Seq(Nat)]

Conditions(n) == UNION n.where

Subqueries(n) == {a.sub : a \in {c \in Conditions(n) : c.op \in {"in", "exists", "not exists"}}}
ExistsSubqueries(n) == {a.sub : a \in {c \in Conditions(n) : c.op \in {"exists", "not exists"}}}
DerivedTables(n) == {n.from[k].sub : k \in {i \in DOMAIN n.from : n.from[i].table = Derived}}
Parts(n) == {n.parts[k] : k \in DOMAIN n.parts}
Below(n) == Subqueries(n) \cup DerivedTables(n) \cup Parts(n)

\* A SELECT has a source, a combination two queries, a condition between two
\* sources has them, and a subquery stands later and in one place.
WellFormed(q) ==
  /\ q \in Seq(Query) /\ q # <<>>
  /\ \A i \in DOMAIN q :
       /\ IF q[i].kind = "select"
          THEN q[i].of \in DOMAIN q[i].from /\ q[i].parts = <<>>
          ELSE Len(q[i].parts) = 2 /\ q[i].from = <<>> /\ q[i].where = {}
       /\ (\E a \in Conditions(q[i]) : a.op \in {"match", "using"}) => Len(q[i].from) >= 2
       /\ Below(q[i]) \subseteq {k \in DOMAIN q : k > i}
       /\ ExistsSubqueries(q[i]) \cap (DerivedTables(q[i]) \cup Parts(q[i])) = {}
       /\ \A j \in DOMAIN q : Below(q[i]) \cap Below(q[j]) # {} => i = j

\* What PostgreSQL stores: finite tables whose rows have a positive primary key.
Stored(d) ==
  /\ d \in Database
  /\ \A t \in Tables :
       /\ IsFiniteSet(d[t])
       /\ \A r, s \in d[t] : r.id > 0 /\ (r.id = s.id => r = s)

ASSUME StatementsAssumption == \A q \in Statements : WellFormed(q)
ASSUME DatabasesAssumption == \A d \in Databases : Stored(d)

VARIABLES
  db,
  scope,      \* the rbac_ctx of the agent
  statement,  \* the statement it ran
  outcome,    \* whether it was let through
  answer      \* the rows it returned

vars == <<db, scope, statement, outcome, answer>>

NotRun == <<>>

----------------------------------------------------------------------------
(* The meaning of a statement: per query, and per row of the enclosing      *)
(* query's first source, the rows it returns.                               *)

Outer == Row \cup {Null}

\* The columns of an absent row are NULL: no key, no reference.
Out(r) == IF r = Null THEN [id |-> 0, ref |-> 0, secret |-> 0] ELSE r
Hide(r) == [r EXCEPT !.secret = 0]

\* What the select list makes of a joined row: key and reference, or all columns.
Project(item, r) == IF item = "columns" THEN Hide(Out(r)) ELSE Out(r)

\* JOIN ... USING or NATURAL JOIN on the forbidden column of both tables.
Shares(r, s) == r # Null /\ s # Null /\ r.secret = s.secret

\* Does condition a hold of the joined row e, inside the enclosing row o, if
\* the subqueries return what R says?
Holds(R, a, d, e, o) ==
  \/ a.op = "true"
  \/ a.op = "match" /\ e[1] # Null /\ e[2] # Null /\ Match(e[1], e[2])
  \/ a.op = "using" /\ Shares(e[1], e[2])
  \/ a.op = "match outer" /\ e[1] # Null /\ o # Null /\ Match(e[1], o)
  \/ a.op = "forbidden" /\ e[1] # Null /\ e[1].secret = 1
  \/ a.op = "in" /\ e[1] # Null /\ \E r \in R[<<a.sub, e[1]>>] : r.id = e[1].id
  \/ a.op = "exists" /\ R[<<a.sub, e[1]>>] # {}
  \/ a.op = "not exists" /\ R[<<a.sub, e[1]>>] = {}
  \/ a.op \in {"own row", "own fk", "own team"} /\ PredicateHolds(a, e, d)

\* What the subqueries in FROM return, and the joined rows that pass WHERE.
DerivedRows(R, n, o) ==
  [k \in DOMAIN n.from |-> IF n.from[k].table = Derived THEN R[<<n.from[k].sub, o>>] ELSE {}]
Found(R, n, d, o) ==
  {e \in Joined(n.from, SourceRows(n.from, DerivedRows(R, n, o), d)) :
     \A clause \in n.where : \E a \in clause : Holds(R, a, d, e, o)}

Rows(R, n, d, o) ==
  IF n.kind = "union" THEN R[<<n.parts[1], o>>] \cup R[<<n.parts[2], o>>]
  ELSE IF n.kind = "intersect" THEN R[<<n.parts[1], o>>] \cap R[<<n.parts[2], o>>]
  ELSE IF n.kind = "except" THEN R[<<n.parts[1], o>>] \ R[<<n.parts[2], o>>]
  ELSE IF n.item = "count" THEN {[id |-> Cardinality(Found(R, n, d, o)), ref |-> 0, secret |-> 0]}
  ELSE {Project(n.item, e[n.of]) : e \in Found(R, n, d, o)}

Results(q, d) ==
  LET R[x \in (DOMAIN q) \X Outer] == Rows(R, q[x[1]], d, x[2]) IN R

Answer(q, d) == Results(q, d)[<<1, Null>>]

----------------------------------------------------------------------------
(* rewrite_sql.                                                             *)

\* Query i is below an EXISTS of the statement: it is in every set that has what
\* stands below an EXISTS, and with a query what stands below that.
UnderExists(q, i) ==
  \A S \in SUBSET DOMAIN q :
    /\ \A j \in DOMAIN q : ExistsSubqueries(q[j]) \subseteq S
    /\ \A j \in S : Below(q[j]) \subseteq S
    => i \in S

StarAllowedBelow(q, i) == i > 1
\* find_ancestor(exp.Exists): an EXISTS returns no column.
StarAllowed(q, i) == UnderExists(q, i)

\* Refused for everybody: data modification, SELECT INTO and the listed functions
\* anywhere, the name of a forbidden column anywhere, a wildcard outside COUNT(*)
\* and EXISTS, and a table's alias as a whole row (a subquery's alias is no table
\* name).  Only exp.Column nodes are looked at: neither the columns that a join
\* shares nor the names of a column-alias list are among them.
Readable(q) ==
  \A i \in DOMAIN q :
    LET n == q[i]
    IN /\ n.marks = {}
       /\ n.item = "forbidden" => n.from[n.of].renamed
       /\ (\E a \in Conditions(n) : a.op = "forbidden") => n.from[1].renamed
       /\ n.item = "star" => StarAllowed(q, i)
       /\ n.item = "whole row" => n.from[n.of].table = Derived

InjectBare(where, added) ==
  where \cup {{a} \cup (UNION {c \ {CHOOSE x \in c : TRUE} : c \in where}) : a \in added}
\* _inject_and: AND, with what was there in parentheses.
Inject(where, added) == where \cup {{a} : a \in added}

OutermostSelect(q) == {1} \cap {i \in DOMAIN q : q[i].kind = "select"}
\* find_all(exp.Select) before anything is added: every SELECT of the statement,
\* and none of the added subqueries.
Selects(q) == {i \in DOMAIN q : q[i].kind = "select"}

Scoped(q, p) ==
  [i \in DOMAIN q |->
     IF i \in Selects(q) THEN [q[i] EXCEPT !.where = Inject(@, Predicates(q[i].from, p))]
     ELSE q[i]]

\* A restricted requester's statement names classified tables only.
Known(q) ==
  \A i \in DOMAIN q : \A k \in DOMAIN q[i].from :
    q[i].from[k].table \in Classified \cup {Derived}

Accepted(q) == Readable(q) /\ (scope # Everyone => Known(q))
Rewrite(q) == IF scope = Everyone THEN q ELSE Scoped(q, scope)

----------------------------------------------------------------------------
Init ==
  /\ db \in Databases
  /\ scope \in Scopes
  /\ statement = NotRun
  /\ outcome = "none"
  /\ answer = {}

\* db.run: a refusal is returned as a text the agent can react to.  rewrite_sql
\* keeps nothing from one statement to the next, so one of each is enough.
RunStatement(q) ==
  /\ statement = NotRun
  /\ statement' = q
  /\ IF Accepted(q)
     THEN outcome' = "answered" /\ answer' = Answer(Rewrite(q), db)
     ELSE outcome' = "rejected" /\ UNCHANGED answer
  /\ UNCHANGED <<db, scope>>

Next == \E q \in Statements : RunStatement(q)

Spec == Init /\ [][Next]_vars

----------------------------------------------------------------------------
(* Properties.                                                              *)

Answered == outcome = "answered"
OnePerson == \A i \in DOMAIN statement : PersonOnce(statement[i].from)
NoAliasList == \A i \in DOMAIN statement : NamesKept(statement[i].from)
NoOuterJoin == \A i \in DOMAIN statement : InnerOnly(statement[i].from)

\* A restricted requester's answer is computed from own rows alone: on a database
\* without everybody else it would be the same, for every shape of statement in
\* which no SELECT names `person` twice or renames the columns of a table
\* (core/rbac/sql_guard.py:9-14).
OwnRowsOnly ==
  Answered /\ scope # Everyone /\ OnePerson /\ NoAliasList =>
    answer = Answer(Rewrite(statement), View(db, scope))

\* And nothing of one's own is lost: without outer joins the answer is the one
\* the statement as written has on that database.
OwnRowsKept ==
  /\ Answered /\ scope # Everyone
  /\ OnePerson /\ NoAliasList /\ NoOuterJoin
  => answer = Answer(statement, View(db, scope))

\* An operand of UNION, INTERSECT or EXCEPT is compared by whole rows; below an
\* EXISTS too, this one lists its columns.
OperandsListColumns ==
  \A i \in DOMAIN statement : \A k \in Parts(statement[i]) :
    statement[k].kind = "select" /\ UnderExists(statement, k) =>
      statement[k].item \in {"columns", "count"}

\* A statement names every column it reads, and by its own name.
NamesColumns(q) ==
  \A i \in DOMAIN q : NamesKept(q[i].from) /\ \A a \in Conditions(q[i]) : a.op # "using"

\* What the check for forbidden columns and wildcards is worth: the answer to a
\* statement that names its columns does not depend on a forbidden one, through any
\* nesting of subqueries, "even filtering on salary leaks values via the result set"
\* (core/rbac/sql_guard.py:269), and a wildcard below an EXISTS has no part in it,
\* "neither returns column data" (:286-287), unless it stands where rows are compared.
Masked(d) == [t \in Tables |-> {Hide(r) : r \in d[t]}]
ForbiddenStaysHidden ==
  Answered /\ OperandsListColumns /\ NamesColumns(statement) =>
    answer = Answer(Rewrite(statement), Masked(db))

\* "nobody may ... read salary/NIC/DOB-class columns" (core/rbac/sql_guard.py:222-224),
\* for every statement that is let through.
NobodyReadsForbidden == Answered => answer = Answer(Rewrite(statement), Masked(db))

\* "own person row and own person-linked rows only" (core/rbac/context.py:13), for
\* every statement that is let through.
SelfSeesOwn ==
  Answered /\ scope # Everyone => answer = Answer(Rewrite(statement), View(db, scope))
=============================================================================
