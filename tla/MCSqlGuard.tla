----------------------------- MODULE MCSqlGuard -----------------------------
(* SqlGuard on all statements of a few shapes over databases of two persons. *)
EXTENDS SqlGuard, TLC

CONSTANTS person, person_team, leave_record, person_week_project, department, cte

TwoRows(refs, secrets) ==
  {[id |-> i, ref |-> refs[i], secret |-> secrets[i]] : i \in 1..2}
Same == <<1, 2>>
Swapped == <<2, 1>>
Owners == {Same, Swapped, <<1, 1>>}

\* Persons 1 and 2, whose teams, leave and projects belong to either.
MCDatabases ==
  {(person :> TwoRows(<<1, 1>>, secrets)) @@ (person_team :> TwoRows(teams, <<0, 0>>)) @@
   (leave_record :> TwoRows(leave, secrets)) @@ (person_week_project :> TwoRows(weeks, <<0, 0>>)) @@
   (department :> {[id |-> 1, ref |-> 0, secret |-> 0]}) @@ (cte :> TwoRows(Same, <<0, 0>>)) :
     teams \in {Same, Swapped}, leave \in {Same, Swapped}, weeks \in {Swapped, <<1, 1>>},
     secrets \in {<<0, 0>>, <<1, 0>>}}

From(t) == [table |-> t, left |-> FALSE, sub |-> 0, renamed |-> FALSE]
LeftJoin(t) == [From(t) EXCEPT !.left = TRUE]
Renaming(t) == [From(t) EXCEPT !.renamed = TRUE]
Subquery(i) == [From(Derived) EXCEPT !.sub = i]
If(op) == [op |-> op, sub |-> 0]
With(op, i) == [op |-> op, sub |-> i]

Select(from, where, item, of) ==
  [kind |-> "select", from |-> from, where |-> where, item |-> item, of |-> of,
   marks |-> {}, parts |-> <<>>]
Combine(kind, l, r) ==
  [kind |-> kind, from |-> <<>>, where |-> {}, item |-> "columns", of |-> 1,
   marks |-> {}, parts |-> <<l, r>>]

\* One table.
Plain ==
  {<<Select(<<From(t)>>, where, item, 1)>> :
     t \in Tables, item \in Items, where \in {{}, {{If("true")}}, {{If("forbidden")}}}}

\* Two or three tables.
Conds == {{}, {{If("match")}}, {{If("match"), If("true")}}}
Joins2 ==
  {<<Select(<<From(t), s>>, where, item, of)>> :
     t \in Tables, s \in {From(u) : u \in Tables} \cup {LeftJoin(u) : u \in Tables},
     where \in Conds, item \in {"columns", "count"}, of \in 1..2}
Joins3 ==
  {<<Select(<<From(t), From(u), From(v)>>, {}, "columns", 3)>> :
     t \in {department, person}, u \in Classified, v \in Classified}

\* A subquery in WHERE or in FROM.
Inner ==
  {Select(<<From(t)>>, where, item, 1) :
     t \in Tables, where \in {{}, {{If("match outer")}}}, item \in {"columns", "star", "forbidden"}}
Nested ==
  {<<Select(<<From(t)>>, where, "columns", 1), inner>> :
     t \in Tables, inner \in Inner,
     where \in {{{With(op, 2)}} : op \in {"in", "exists", "not exists"}} \cup
               {{{With("in", 2), If("true")}}}}
InFrom ==
  {<<Select(from, {}, item, 1), Select(<<From(t)>>, {}, inner, 1)>> :
     from \in {<<Subquery(2)>>} \cup {<<Subquery(2), From(t)>> : t \in Tables},
     item \in Items, t \in Tables, inner \in {"columns", "count", "star"}}

\* Two SELECTs combined, and a subquery below an EXISTS.
Combined ==
  {<<Combine(kind, 2, 3), Select(<<From(t)>>, {}, "columns", 1), Select(<<From(u)>>, {}, item, 1)>> :
     kind \in {"union", "intersect", "except"}, t \in Tables, u \in Tables, item \in {"columns", "star"}}
CombinedBelow ==
  {<<Select(<<From(department)>>, {{With(op, 2)}}, "columns", 1), Combine(kind, 3, 4),
     Select(<<From(t)>>, {}, item, 1), Select(<<From(u)>>, {}, item, 1)>> :
     op \in {"exists", "in"}, kind \in {"union", "intersect", "except"},
     t \in Classified, u \in Classified, item \in {"columns", "star"}}
Deep ==
  {<<Select(<<From(t)>>, {{With(op, 2)}}, "columns", 1), Select(<<Subquery(3)>>, {}, item, 1),
     Select(<<From(u)>>, {}, "star", 1)>> :
     op \in {"in", "exists"}, t \in Classified, u \in Classified, item \in Items}

\* What is refused whoever asks.
Marked ==
  {<<[Select(<<From(person)>>, {{With("in", 2)}}, "columns", 1) EXCEPT !.marks = outer],
     [Select(<<From(department)>>, {}, "columns", 1) EXCEPT !.marks = inner]>> :
     outer \in {{}, {"into"}}, inner \in {{}, {"data modification"}, {"function"}}}

\* Columns that go by another name, or by none.
AliasLists ==
  {<<Select(<<Renaming(t), From(u)>>, where, item, 1)>> :
     t \in Classified, u \in Classified, item \in {"columns", "forbidden"},
     where \in {{}, {{If("forbidden")}}}}
SharedColumns ==
  {<<Select(<<From(t), From(u)>>, {{If("using")}}, item, of)>> :
     t \in Classified, u \in Classified, item \in {"columns", "count"}, of \in 1..2}

NamingColumns ==
  Plain \cup Joins2 \cup Joins3 \cup Nested \cup InFrom \cup Combined \cup CombinedBelow \cup Deep \cup Marked
MCStatements == NamingColumns \cup AliasLists \cup SharedColumns
=============================================================================
