-------------------------- MODULE SqlGuardProofs --------------------------
(***************************************************************************)
(* Theorems about SqlGuard, for statements of any shape and nesting and    *)
(* any stored database.  The first part is about one SELECT: if its        *)
(* subqueries return the same rows on the requester's view as on the full  *)
(* database, so does the SELECT with the guard's predicates.  The second   *)
(* part shows that the meaning of a statement is well defined, and goes    *)
(* from its innermost queries outwards.                                    *)
(***************************************************************************)
EXTENDS SqlGuard, FiniteSetTheorems, WellFoundedInduction, TLAPS

Linked(t) == t = Person \/ t \in FkTables \/ t \in TeamFkTables

LEMMA TeamsOfView ==
  ASSUME NEW d \in Database, NEW p
  PROVE  TeamsOf(View(d, p), p) = TeamsOf(d, p)
<1>1. PersonTeam \in Tables
  BY ClassesAssumption DEF Tables, Classified
<1>2. \A r : IsOwn(d, p, PersonTeam, r) <=> r.ref = p
  BY ClassesAssumption DEF IsOwn
<1>3. View(d, p)[PersonTeam] = {r \in d[PersonTeam] : r.ref = p}
  BY <1>1, <1>2 DEF View
<1> QED
  BY <1>3 DEF TeamsOf

LEMMA PredicateShape ==
  ASSUME NEW from, NEW p, NEW a \in Predicates(from, p)
  PROVE  /\ a.src \in DOMAIN from
         /\ \/ a = Predicate("own row", a.src, from, p) /\ from[a.src].table = Person
            \/ a = Predicate("own fk", a.src, from, p) /\ from[a.src].table \in FkTables
            \/ a = Predicate("own team", a.src, from, p) /\ from[a.src].table \in TeamFkTables
<1>1. CASE \E i \in PersonAlias(from) : a = Predicate("own row", i, from, p)
  <2>1. PICK i \in PersonAlias(from) : a = Predicate("own row", i, from, p)
    BY <1>1
  <2>2. a.src = i /\ i \in DOMAIN from /\ from[i].table = Person
    BY <2>1 DEF Predicate, PersonAlias
  <2> QED
    BY <2>1, <2>2
<1>2. CASE \E i \in {k \in DOMAIN from : from[k].table \in FkTables} : a = Predicate("own fk", i, from, p)
  <2>1. PICK i \in {k \in DOMAIN from : from[k].table \in FkTables} : a = Predicate("own fk", i, from, p)
    BY <1>2
  <2>2. a.src = i
    BY <2>1 DEF Predicate
  <2> QED
    BY <2>1, <2>2
<1>3. CASE \E i \in {k \in DOMAIN from : from[k].table \in TeamFkTables} :
             a = Predicate("own team", i, from, p)
  <2>1. PICK i \in {k \in DOMAIN from : from[k].table \in TeamFkTables} :
          a = Predicate("own team", i, from, p)
    BY <1>3
  <2>2. a.src = i
    BY <2>1 DEF Predicate
  <2> QED
    BY <2>1, <2>2
<1> QED
  BY <1>1, <1>2, <1>3 DEF Predicates

\* A predicate on a linked source holds of exactly the requester's own rows.
LEMMA PredicatesOfSource ==
  ASSUME NEW d \in Database, NEW p \in Nat \cup {Nobody},
         NEW from \in Seq(Source), PersonOnce(from), NamesKept(from),
         NEW i \in DOMAIN from, Linked(from[i].table),
         NEW e, e[i] = Null \/ e[i] \in Row
  PROVE  (\A a \in Predicates(from, p) : a.src = i => PredicateHolds(a, e, d))
           <=> e[i] # Null /\ p # Nobody /\ IsOwn(d, p, from[i].table, e[i])
<1> DEFINE t == from[i].table
<1>1. PersonAlias(from) = {k \in DOMAIN from : from[k].table = Person}
  <2>1. \A k, l \in DOMAIN from :
          from[k].table = Person /\ from[l].table = Person => k <= l
    BY DEF PersonOnce
  <2> QED
    BY <2>1 DEF PersonAlias
<1>2. CASE t = Person
  <2>1. t \notin FkTables /\ t \notin TeamFkTables /\ t \notin FreeTables
    BY <1>2, ClassesAssumption
  <2>2. ASSUME NEW a \in Predicates(from, p), a.src = i
        PROVE  a = Predicate("own row", i, from, p)
    BY <1>2, <2>1, <2>2, PredicateShape
  <2>3. Predicate("own row", i, from, p) \in Predicates(from, p)
    BY <1>1, <1>2 DEF Predicates
  <2>4. PredicateHolds(Predicate("own row", i, from, p), e, d)
          <=> p # Nobody /\ e[i] # Null /\ e[i].id = p
    BY DEF PredicateHolds, Predicate, NamesKept
  <2>5. IsOwn(d, p, t, e[i]) <=> e[i].id = p
    BY <1>2, <2>1 DEF IsOwn
  <2>6. Predicate("own row", i, from, p).src = i
    BY DEF Predicate
  <2>7. (\A a \in Predicates(from, p) : a.src = i => PredicateHolds(a, e, d))
          <=> PredicateHolds(Predicate("own row", i, from, p), e, d)
    BY <2>2, <2>3, <2>6
  <2> QED
    BY <2>4, <2>5, <2>7
<1>3. CASE t \in FkTables
  <2>1. t # Person /\ t \notin TeamFkTables /\ t \notin FreeTables
    BY <1>3, ClassesAssumption
  <2>2. ASSUME NEW a \in Predicates(from, p), a.src = i
        PROVE  a = Predicate("own fk", i, from, p)
    BY <2>1, <2>2, PredicateShape
  <2>3. Predicate("own fk", i, from, p) \in Predicates(from, p)
    BY <1>3 DEF Predicates
  <2>4. PredicateHolds(Predicate("own fk", i, from, p), e, d)
          <=> p # Nobody /\ e[i] # Null /\ e[i].ref = p
    BY DEF PredicateHolds, Predicate, NamesKept
  <2>5. IsOwn(d, p, t, e[i]) <=> e[i].ref = p
    BY <1>3, <2>1 DEF IsOwn
  <2>6. Predicate("own fk", i, from, p).src = i
    BY DEF Predicate
  <2>7. (\A a \in Predicates(from, p) : a.src = i => PredicateHolds(a, e, d))
          <=> PredicateHolds(Predicate("own fk", i, from, p), e, d)
    BY <2>2, <2>3, <2>6
  <2> QED
    BY <2>4, <2>5, <2>7
<1>4. CASE t \in TeamFkTables
  <2>1. t # Person /\ t \notin FkTables /\ t \notin FreeTables
    BY <1>4, ClassesAssumption
  <2>2. ASSUME NEW a \in Predicates(from, p), a.src = i
        PROVE  a = Predicate("own team", i, from, p)
    BY <2>1, <2>2, PredicateShape
  <2>3. Predicate("own team", i, from, p) \in Predicates(from, p)
    BY <1>4 DEF Predicates
  <2>4. PredicateHolds(Predicate("own team", i, from, p), e, d)
          <=> p # Nobody /\ e[i] # Null /\ e[i].ref \in TeamsOf(d, p)
    BY DEF PredicateHolds, Predicate, NamesKept
  <2>5. IsOwn(d, p, t, e[i]) <=> e[i].ref \in TeamsOf(d, p)
    BY <1>4, <2>1 DEF IsOwn
  <2>6. Predicate("own team", i, from, p).src = i
    BY DEF Predicate
  <2>7. (\A a \in Predicates(from, p) : a.src = i => PredicateHolds(a, e, d))
          <=> PredicateHolds(Predicate("own team", i, from, p), e, d)
    BY <2>2, <2>3, <2>6
  <2> QED
    BY <2>4, <2>5, <2>7
<1> QED
  BY <1>2, <1>3, <1>4 DEF Linked

\* The requester's view is a database, and the requester owns all of it.
LEMMA ViewOfDatabase ==
  ASSUME NEW d \in Database, NEW p
  PROVE  /\ View(d, p) \in Database
         /\ \A t, r : IsOwn(View(d, p), p, t, r) <=> IsOwn(d, p, t, r)
<1>1. View(d, p) \in Database
  BY DEF View, Database
<1>2. \A t, r : IsOwn(View(d, p), p, t, r) <=> IsOwn(d, p, t, r)
  BY TeamsOfView DEF IsOwn
<1> QED
  BY <1>1, <1>2

LEMMA SourceRowsType ==
  ASSUME NEW d \in Database, NEW from \in Seq(Source), NEW parts \in [DOMAIN from -> SUBSET Row]
  PROVE  SourceRows(from, parts, d) \in [DOMAIN from -> SUBSET Row]
<1>1. \A i \in DOMAIN from : from[i] \in Source
  OBVIOUS
<1>2. \A i \in DOMAIN from : from[i].table # Derived => d[from[i].table] \in SUBSET Row
  BY <1>1 DEF Source, Database
<1> QED
  BY <1>2 DEF SourceRows

\* The joined rows are those that satisfy every join.
LEMMA JoinedRows ==
  ASSUME NEW from, NEW rows \in [DOMAIN from -> SUBSET Row], NEW e
  PROVE  e \in Joined(from, rows) <=>
           /\ e \in [DOMAIN from -> Row \cup {Null}]
           /\ \A i \in DOMAIN from : Joins(from, rows, e, i)
<1> DEFINE all == (UNION {rows[i] : i \in DOMAIN from}) \cup {Null}
<1>1. all \subseteq Row \cup {Null}
  <2>1. \A i \in DOMAIN from : rows[i] \subseteq Row
    OBVIOUS
  <2> QED
    BY <2>1
<1>2. ASSUME e \in [DOMAIN from -> Row \cup {Null}],
             \A i \in DOMAIN from : Joins(from, rows, e, i)
      PROVE  e \in [DOMAIN from -> all]
  <2>1. \A i \in DOMAIN from : e[i] \in rows[i] \/ e[i] = Null
    BY <1>2 DEF Joins
  <2>2. \A i \in DOMAIN from : e[i] \in all
    BY <2>1
  <2> HIDE DEF all
  <2> QED
    BY <1>2, <2>2
<1>3. e \in [DOMAIN from -> all] => e \in [DOMAIN from -> Row \cup {Null}]
  BY <1>1
<1> QED
  BY <1>2, <1>3 DEF Joined

\* Added predicates hold on the view exactly when they hold on the database.
LEMMA PredicateOnView ==
  ASSUME NEW d \in Database, NEW p, NEW from, NEW a \in Predicates(from, p), NEW e
  PROVE  PredicateHolds(a, e, View(d, p)) <=> PredicateHolds(a, e, d)
<1>1. \E op : a = Predicate(op, a.src, from, p)
  BY PredicateShape
<1>2. \A op, i : Predicate(op, i, from, p).person = p
  BY DEF Predicate
<1>3. a.person = p
  BY <1>1, <1>2
<1> QED
  BY <1>3, TeamsOfView DEF PredicateHolds

\* The rows of a linked source that pass are those of the view, and every other
\* source has the same rows in both.
LEMMA JoinsOnView ==
  ASSUME NEW d \in Database, NEW p \in Nat \cup {Nobody},
         NEW from \in Seq(Source), PersonOnce(from), NamesKept(from),
         NEW parts \in [DOMAIN from -> SUBSET Row],
         NEW i \in DOMAIN from, from[i].table \in Classified \cup {Derived},
         NEW e \in [DOMAIN from -> Row \cup {Null}],
         \A a \in Predicates(from, p) : PredicateHolds(a, e, d)
  PROVE  Joins(from, SourceRows(from, parts, d), e, i)
           <=> Joins(from, SourceRows(from, parts, View(d, p)), e, i)
<1> DEFINE t == from[i].table
           full == SourceRows(from, parts, d)
           own == SourceRows(from, parts, View(d, p))
<1>1. CASE Linked(t)
  <2>1. e[i] # Null /\ IsOwn(d, p, t, e[i])
    BY <1>1, PredicatesOfSource
  <2>2. t \in Tables /\ t # Derived
    BY <1>1, ClassesAssumption, MarkersAssumption DEF Linked, Tables, Classified
  <2>3. full[i] = d[t] /\ own[i] = {r \in d[t] : IsOwn(d, p, t, r)}
    BY <2>2 DEF SourceRows, View
  <2>4. e[i] \in full[i] <=> e[i] \in own[i]
    BY <2>1, <2>3
  <2> QED
    BY <2>1, <2>4 DEF Joins
<1>2. CASE t \in FreeTables
  <2>1. t \in Tables /\ t # Derived
    BY <1>2, MarkersAssumption DEF Tables, Classified
  <2>2. \A r : IsOwn(d, p, t, r)
    BY <1>2 DEF IsOwn
  <2>3. View(d, p)[t] = d[t]
    BY <2>1, <2>2 DEF View
  <2>4. full[i] = own[i]
    BY <2>1, <2>3 DEF SourceRows
  <2> QED
    BY <2>4 DEF Joins
<1>3. CASE t = Derived
  <2>1. full[i] = own[i]
    BY <1>3 DEF SourceRows
  <2> QED
    BY <2>1 DEF Joins
<1> QED
  BY <1>1, <1>2, <1>3 DEF Linked, Classified

\* A restricted requester's SELECT over classified tables, with what the guard
\* adds to it, joins the same rows on the full database as on the requester's
\* view: nobody else's row takes part (core/rbac/sql_guard.py:312-341), if it names
\* `person` once and every column keeps its name.
THEOREM SelectReadsOwnRows ==
  ASSUME NEW d \in Database, NEW p \in Nat \cup {Nobody},
         NEW from \in Seq(Source), PersonOnce(from), NamesKept(from),
         \A i \in DOMAIN from : from[i].table \in Classified \cup {Derived},
         NEW parts \in [DOMAIN from -> SUBSET Row]
  PROVE  InScope(from, SourceRows(from, parts, d), d, p)
           = InScope(from, SourceRows(from, parts, View(d, p)), View(d, p), p)
<1> DEFINE full == SourceRows(from, parts, d)
           own == SourceRows(from, parts, View(d, p))
<1>1. full \in [DOMAIN from -> SUBSET Row] /\ own \in [DOMAIN from -> SUBSET Row]
  BY SourceRowsType, ViewOfDatabase
<1>2. ASSUME NEW e,
             \A a \in Predicates(from, p) : PredicateHolds(a, e, d)
      PROVE  e \in Joined(from, full) <=> e \in Joined(from, own)
  <2>1. ASSUME e \in [DOMAIN from -> Row \cup {Null}], NEW i \in DOMAIN from
        PROVE  Joins(from, full, e, i) <=> Joins(from, own, e, i)
    BY <1>2, <2>1, JoinsOnView
  <2> HIDE DEF full, own
  <2> QED
    BY <1>1, <2>1, JoinedRows
<1>3. \A a \in Predicates(from, p) : \A e :
        PredicateHolds(a, e, View(d, p)) <=> PredicateHolds(a, e, d)
  BY PredicateOnView
<1> HIDE DEF full, own
<1>4. ASSUME NEW e
      PROVE  e \in InScope(from, full, d, p) <=> e \in InScope(from, own, View(d, p), p)
  BY <1>2, <1>3 DEF InScope
<1>5. InScope(from, full, d, p) = InScope(from, own, View(d, p), p)
  <2>1. /\ InScope(from, full, d, p) \subseteq InScope(from, own, View(d, p), p)
        /\ InScope(from, own, View(d, p), p) \subseteq InScope(from, full, d, p)
    BY <1>4
  <2> QED
    BY <2>1
<1> QED
  BY <1>5 DEF full, own

\* And without outer joins none of one's own is lost: what the guard adds selects
\* exactly the rows that the SELECT as written joins on the requester's view.
THEOREM SelectKeepsOwnRows ==
  ASSUME NEW d \in Database, NEW p \in Nat \cup {Nobody},
         NEW from \in Seq(Source), PersonOnce(from), NamesKept(from), InnerOnly(from),
         \A i \in DOMAIN from : from[i].table \in Classified \cup {Derived},
         NEW parts \in [DOMAIN from -> SUBSET Row]
  PROVE  InScope(from, SourceRows(from, parts, d), d, p)
           = Joined(from, SourceRows(from, parts, View(d, p)))
<1> DEFINE own == SourceRows(from, parts, View(d, p))
<1>1. own \in [DOMAIN from -> SUBSET Row]
  BY SourceRowsType, ViewOfDatabase
<1>2. ASSUME NEW e \in Joined(from, own), NEW i \in DOMAIN from, Linked(from[i].table)
      PROVE  e[i] \in Row /\ e[i] # Null /\ p # Nobody /\ IsOwn(View(d, p), p, from[i].table, e[i])
  <2> DEFINE t == from[i].table
  <2>1. e[i] \in own[i]
    BY <1>2 DEF Joined, Joins, InnerOnly
  <2>2. t \in Tables /\ t # Derived
    BY <1>2, ClassesAssumption, MarkersAssumption DEF Linked, Tables, Classified
  <2>3. own[i] = {r \in d[t] : IsOwn(d, p, t, r)} /\ d[t] \subseteq Row
    BY <2>2 DEF SourceRows, View, Database
  <2>4. e[i] \in Row /\ IsOwn(d, p, t, e[i])
    BY <2>1, <2>3
  <2>5. e[i].id \in Nat /\ e[i].ref \in Nat
    BY <2>4 DEF Row
  <2>6. t \notin FreeTables
    BY <1>2, ClassesAssumption DEF Linked
  <2>7. \A r \in d[PersonTeam] : r.ref \in Nat
    BY ClassesAssumption DEF Database, Tables, Classified, Row
  <2>8. TeamsOf(d, p) # {} => p \in Nat
    BY <2>7 DEF TeamsOf
  <2>9. p \in Nat
    BY <2>4, <2>5, <2>6, <2>8 DEF IsOwn
  <2> QED
    BY <2>4, <2>9, ViewOfDatabase, MarkersAssumption
<1>3. ASSUME NEW e \in Joined(from, own), NEW a \in Predicates(from, p)
      PROVE  PredicateHolds(a, e, View(d, p))
  <2>1. a.src \in DOMAIN from /\ Linked(from[a.src].table)
    BY PredicateShape DEF Linked
  <2>2. \A b \in Predicates(from, p) : b.src = a.src => PredicateHolds(b, e, View(d, p))
    BY <1>2, <2>1, ViewOfDatabase, PredicatesOfSource
  <2> QED
    BY <2>2
<1> HIDE DEF own
<1>4. InScope(from, own, View(d, p), p) = Joined(from, own)
  BY <1>3 DEF InScope
<1> QED
  BY <1>4, SelectReadsOwnRows DEF own

----------------------------------------------------------------------------
(* Induction, as the least element of a set of counterexamples.            *)

LEMMA LeastExists ==
  ASSUME NEW T \in SUBSET Nat, T # {}
  PROVE  \E n \in T : \A m \in T : n <= m
<1> DEFINE R == OpToRel(<, Nat)
<1>1. IsWellFoundedOn(R, Nat)
  BY NatLessThanWellFounded
<1>2. \A x, y \in Nat : x < y => <<x, y>> \in R
  BY DEF OpToRel
<1> HIDE DEF R
<1>3. PICK x \in T : \A y \in T : ~(<<y, x>> \in R)
  BY <1>1, WFMin
<1>4. ASSUME NEW y \in T PROVE x <= y
  <2>1. ~(y < x)
    BY <1>2, <1>3
  <2> QED
    BY <2>1
<1> QED
  BY <1>4

\* Upwards from zero.
LEMMA Upwards ==
  ASSUME NEW S, 0 \in S, \A n \in Nat : n \in S => n + 1 \in S
  PROVE  Nat \subseteq S
<1> SUFFICES ASSUME Nat \ S # {} PROVE FALSE
  OBVIOUS
<1>1. PICK n \in Nat \ S : \A m \in Nat \ S : n <= m
  BY LeastExists
<1>2. n - 1 \in Nat \ S
  BY <1>1
<1> QED
  BY <1>1, <1>2

\* Downwards from the last position of a statement.
LEMMA Downwards ==
  ASSUME NEW N \in Nat, NEW S, \A i \in 1..N : {k \in 1..N : k > i} \subseteq S => i \in S
  PROVE  1..N \subseteq S
<1> SUFFICES ASSUME NEW j \in 1..N, j \notin S PROVE FALSE
  OBVIOUS
<1> DEFINE T == {m \in Nat : N - m \in 1..N /\ N - m \notin S}
<1>1. N - j \in T
  <2>1. N - j \in Nat /\ N - (N - j) = j
    OBVIOUS
  <2> QED
    BY <2>1
<1>2. PICK m \in T : \A l \in T : m <= l
  <2>1. T \in SUBSET Nat /\ T # {}
    BY <1>1
  <2> HIDE DEF T
  <2> QED
    BY <2>1, LeastExists
<1>3. ASSUME NEW k \in 1..N, k > N - m PROVE k \in S
  <2>1. N - k \in Nat /\ N - (N - k) = k /\ N - k < m
    BY <1>2, <1>3
  <2> QED
    BY <1>2, <2>1
<1> QED
  BY <1>2, <1>3

----------------------------------------------------------------------------
(* Finitely many sources with finitely many rows have finitely many joined *)
(* rows.                                                                   *)

LEMMA FiniteTuples ==
  ASSUME NEW S, IsFiniteSet(S), NEW n \in Nat
  PROVE  IsFiniteSet([1..n -> S])
<1> DEFINE F == {m \in Nat : IsFiniteSet([1..m -> S])}
<1>1. 0 \in F
  <2>1. \A f, g \in [1..0 -> S] : f = g
    OBVIOUS
  <2>2. [1..0 -> S] = {} \/ \E f : [1..0 -> S] = {f}
    BY <2>1
  <2>3. \A T : T = {} \/ (\E f : T = {f}) => IsFiniteSet(T)
    BY FS_EmptySet, FS_Singleton
  <2> QED
    BY <2>2, <2>3
<1>2. ASSUME NEW m \in Nat, m \in F PROVE m + 1 \in F
  <2> DEFINE pairs == [1..m -> S] \X S
             longer == [1..(m + 1) -> S]
             f == [x \in pairs |-> [i \in 1..(m + 1) |-> IF i <= m THEN x[1][i] ELSE x[2]]]
  <2>1. IsFiniteSet(pairs)
    BY <1>2, FS_Product
  <2>2. f \in [pairs -> longer]
    <3>1. ASSUME NEW x \in pairs PROVE [i \in 1..(m + 1) |-> IF i <= m THEN x[1][i] ELSE x[2]] \in longer
      <4>1. x[1] \in [1..m -> S] /\ x[2] \in S
        OBVIOUS
      <4>2. ASSUME NEW i \in 1..(m + 1) PROVE (IF i <= m THEN x[1][i] ELSE x[2]) \in S
        BY <4>1
      <4> QED
        BY <4>2
    <3> HIDE DEF pairs, longer
    <3> QED
      BY <3>1
  <2>3. ASSUME NEW t \in longer PROVE \E x \in pairs : f[x] = t
    <3> DEFINE x == <<[i \in 1..m |-> t[i]], t[m + 1]>>
    <3>1. x \in pairs
      OBVIOUS
    <3>2. f[x] = t
      BY <3>1
    <3> QED
      BY <3>1, <3>2
  <2>4. f \in Surjection(pairs, longer)
    BY <2>2, <2>3 DEF Surjection
  <2>5. IsFiniteSet(longer)
    <3> HIDE DEF pairs, longer, f
    <3> QED
      BY <2>1, <2>4, FS_Surjection
  <2> QED
    BY <2>5
<1> HIDE DEF F
<1>3. Nat \subseteq F
  BY <1>1, <1>2, Upwards
<1> QED
  BY <1>3 DEF F

LEMMA FiniteJoined ==
  ASSUME NEW from \in Seq(Source), NEW rows, \A i \in DOMAIN from : IsFiniteSet(rows[i])
  PROVE  IsFiniteSet(Joined(from, rows))
<1> DEFINE sets == {rows[i] : i \in DOMAIN from}
           all == (UNION sets) \cup {Null}
<1>1. PICK n \in Nat : DOMAIN from = 1..n
  OBVIOUS
<1>2. IsFiniteSet(sets)
  <2> DEFINE f == [i \in 1..n |-> rows[i]]
  <2>1. f \in Surjection(1..n, sets)
    BY <1>1 DEF Surjection
  <2>2. IsFiniteSet(1..n)
    BY FS_Interval
  <2> HIDE DEF f, sets
  <2> QED
    BY <2>1, <2>2, FS_Surjection
<1>3. IsFiniteSet(all)
  <2>1. \A R \in sets : IsFiniteSet(R)
    OBVIOUS
  <2> HIDE DEF sets
  <2>2. IsFiniteSet(UNION sets)
    BY <1>2, <2>1, FS_UNION
  <2> QED
    BY <2>2, FS_AddElement
<1>4. Joined(from, rows) \in SUBSET [1..n -> all]
  BY <1>1 DEF Joined
<1> HIDE DEF all
<1> QED
  BY <1>3, <1>4, FiniteTuples, FS_Subset

----------------------------------------------------------------------------
(* The meaning of a statement is well defined: what a query returns follows *)
(* from what the queries below it return, and there is no way back up.     *)

\* What a query has to be for that, as written or as scoped.
Sound(n) ==
  /\ n.from \in Seq(Source)
  /\ n.kind \in {"select"} \cup Combinations
  /\ n.kind = "select" => n.of \in DOMAIN n.from
  /\ n.kind # "select" => {1, 2} \subseteq DOMAIN n.parts

Ordered(q) ==
  /\ \E N \in Nat : DOMAIN q = 1..N
  /\ \A i \in DOMAIN q : Sound(q[i]) /\ Below(q[i]) \subseteq {k \in DOMAIN q : k > i}

\* G and H say the same of the queries in B; G says finitely many rows of them.
Agree(G, H, B) == \A b \in B, o \in Outer : G[<<b, o>>] = H[<<b, o>>]
Typed(G, B) == \A b \in B, o \in Outer : G[<<b, o>>] \in SUBSET Row /\ IsFiniteSet(G[<<b, o>>])

FiniteTables(d) == d \in Database /\ \A t \in Tables : IsFiniteSet(d[t])

LEMMA PartsBelow ==
  ASSUME NEW n, Sound(n)
  PROVE  /\ \A k \in DOMAIN n.from : n.from[k].table = Derived => n.from[k].sub \in Below(n)
         /\ n.kind # "select" => n.parts[1] \in Below(n) /\ n.parts[2] \in Below(n)
         /\ \A a \in Conditions(n) : a.op \in {"in", "exists", "not exists"} => a.sub \in Below(n)
<1>1. ASSUME NEW k \in DOMAIN n.from, n.from[k].table = Derived
      PROVE  n.from[k].sub \in Below(n)
  BY <1>1 DEF Below, DerivedTables
<1>2. ASSUME n.kind # "select" PROVE n.parts[1] \in Below(n) /\ n.parts[2] \in Below(n)
  BY <1>2 DEF Below, Parts, Sound
<1>3. ASSUME NEW a \in Conditions(n), a.op \in {"in", "exists", "not exists"}
      PROVE  a.sub \in Below(n)
  BY <1>3 DEF Below, Subqueries
<1> QED
  BY <1>1, <1>2, <1>3

\* The sources of a query, and the first of a joined row.
LEMMA SourcesTyped ==
  ASSUME NEW n, Sound(n), NEW d, FiniteTables(d), NEW G, Typed(G, Below(n)), NEW o \in Outer
  PROVE  LET rows == SourceRows(n.from, DerivedRows(G, n, o), d)
         IN /\ DerivedRows(G, n, o) \in [DOMAIN n.from -> SUBSET Row]
            /\ rows \in [DOMAIN n.from -> SUBSET Row]
            /\ \A k \in DOMAIN n.from : IsFiniteSet(rows[k])
            /\ \A e \in Joined(n.from, rows) :
                 /\ e \in [DOMAIN n.from -> Row \cup {Null}]
                 /\ n.kind = "select" => e[1] \in Outer
<1> DEFINE parts == DerivedRows(G, n, o)
           rows == SourceRows(n.from, parts, d)
<1>1. \A k \in DOMAIN n.from : n.from[k].table = Derived =>
        G[<<n.from[k].sub, o>>] \in SUBSET Row /\ IsFiniteSet(G[<<n.from[k].sub, o>>])
  BY PartsBelow DEF Typed
<1>2. parts \in [DOMAIN n.from -> SUBSET Row]
  BY <1>1 DEF DerivedRows
<1>3. rows \in [DOMAIN n.from -> SUBSET Row]
  BY <1>2, SourceRowsType DEF Sound, FiniteTables
<1>4. ASSUME NEW k \in DOMAIN n.from PROVE IsFiniteSet(rows[k])
  <2>1. CASE n.from[k].table = Derived
    BY <1>1, <2>1 DEF SourceRows, DerivedRows
  <2>2. CASE n.from[k].table # Derived
    <3>1. n.from[k] \in Source
      BY DEF Sound
    <3> QED
      BY <2>2, <3>1 DEF SourceRows, FiniteTables, Source
  <2> QED
    BY <2>1, <2>2
<1> HIDE DEF parts, rows
<1>5. ASSUME NEW e \in Joined(n.from, rows)
      PROVE  /\ e \in [DOMAIN n.from -> Row \cup {Null}]
             /\ n.kind = "select" => e[1] \in Outer
  <2>1. e \in [DOMAIN n.from -> Row \cup {Null}]
    BY <1>3, JoinedRows
  <2>2. n.kind = "select" => 1 \in DOMAIN n.from
    BY DEF Sound
  <2> QED
    BY <2>1, <2>2 DEF Outer
<1> QED
  BY <1>2, <1>3, <1>4, <1>5 DEF parts, rows

LEMMA FoundAgrees ==
  ASSUME NEW n, Sound(n), n.kind = "select", NEW d, FiniteTables(d), NEW o \in Outer,
         NEW G, NEW H, Typed(G, Below(n)), Agree(G, H, Below(n))
  PROVE  Found(G, n, d, o) = Found(H, n, d, o)
<1> DEFINE rows == SourceRows(n.from, DerivedRows(G, n, o), d)
<1>1. DerivedRows(G, n, o) = DerivedRows(H, n, o)
  BY PartsBelow DEF DerivedRows, Agree
<1>2. ASSUME NEW e \in Joined(n.from, rows), NEW a \in Conditions(n)
      PROVE  Holds(G, a, d, e, o) <=> Holds(H, a, d, e, o)
  <2>1. e[1] \in Outer
    BY SourcesTyped
  <2>2. CASE a.op \in {"in", "exists", "not exists"}
    <3>1. G[<<a.sub, e[1]>>] = H[<<a.sub, e[1]>>]
      BY <2>1, <2>2, PartsBelow DEF Agree
    <3> QED
      BY <3>1 DEF Holds
  <2>3. CASE a.op \notin {"in", "exists", "not exists"}
    BY <2>3 DEF Holds
  <2> QED
    BY <2>2, <2>3
<1>3. \A clause \in n.where : \A a \in clause : a \in Conditions(n)
  BY DEF Conditions
<1> HIDE DEF rows
<1>4. \A e \in Joined(n.from, rows) :
        (\A clause \in n.where : \E a \in clause : Holds(G, a, d, e, o))
          <=> (\A clause \in n.where : \E a \in clause : Holds(H, a, d, e, o))
  BY <1>2, <1>3
<1> QED
  BY <1>1, <1>4 DEF Found, rows

LEMMA RowsAgree ==
  ASSUME NEW n, Sound(n), NEW d, FiniteTables(d), NEW o \in Outer,
         NEW G, NEW H, Typed(G, Below(n)), Agree(G, H, Below(n))
  PROVE  Rows(G, n, d, o) = Rows(H, n, d, o)
<1>1. CASE n.kind = "select"
  <2>1. Found(G, n, d, o) = Found(H, n, d, o)
    BY <1>1, FoundAgrees
  <2> QED
    BY <1>1, <2>1 DEF Rows
<1>2. CASE n.kind # "select"
  BY <1>2, PartsBelow DEF Rows, Agree, Sound, Combinations
<1> QED
  BY <1>1, <1>2

LEMMA RowsTyped ==
  ASSUME NEW n, Sound(n), NEW d, FiniteTables(d), NEW o \in Outer, NEW G, Typed(G, Below(n))
  PROVE  Rows(G, n, d, o) \in SUBSET Row /\ IsFiniteSet(Rows(G, n, d, o))
<1>1. CASE n.kind = "select"
  <2> DEFINE found == Found(G, n, d, o)
             rows == SourceRows(n.from, DerivedRows(G, n, o), d)
             image == {Project(n.item, e[n.of]) : e \in found}
  <2>1. IsFiniteSet(found)
    <3>1. IsFiniteSet(Joined(n.from, rows))
      BY SourcesTyped, FiniteJoined DEF Sound
    <3>2. found \subseteq Joined(n.from, rows)
      BY DEF Found
    <3> HIDE DEF found, rows
    <3> QED
      BY <3>1, <3>2, FS_Subset
  <2>2. CASE n.item = "count"
    <3>1. Cardinality(found) \in Nat
      BY <2>1, FS_CardinalityType
    <3>2. Rows(G, n, d, o) = {[id |-> Cardinality(found), ref |-> 0, secret |-> 0]}
      BY <1>1, <2>2 DEF Rows
    <3> HIDE DEF found
    <3>3. [id |-> Cardinality(found), ref |-> 0, secret |-> 0] \in Row
      BY <3>1 DEF Row
    <3> QED
      BY <3>2, <3>3, FS_Singleton
  <2>3. CASE n.item # "count"
    <3>1. Rows(G, n, d, o) = image
      BY <1>1, <2>3 DEF Rows
    <3>2. ASSUME NEW e \in found PROVE Project(n.item, e[n.of]) \in Row
      <4>1. e[n.of] \in Row \cup {Null}
        BY <1>1, SourcesTyped DEF Found, Sound
      <4>2. Out(e[n.of]) \in Row
        BY <4>1 DEF Out, Row
      <4> QED
        BY <4>2 DEF Project, Hide, Row
    <3>3. IsFiniteSet(image)
      <4>1. [e \in found |-> Project(n.item, e[n.of])] \in Surjection(found, image)
        BY DEF Surjection
      <4> HIDE DEF found, image
      <4> QED
        BY <2>1, <4>1, FS_Surjection
    <3> QED
      BY <3>1, <3>2, <3>3
  <2> QED
    BY <2>2, <2>3
<1>2. CASE n.kind # "select"
  <2> DEFINE A == G[<<n.parts[1], o>>]
             B == G[<<n.parts[2], o>>]
  <2>1. A \in SUBSET Row /\ IsFiniteSet(A) /\ B \in SUBSET Row /\ IsFiniteSet(B)
    BY <1>2, PartsBelow DEF Typed
  <2>2. Rows(G, n, d, o) \in {A \cup B, A \cap B, A \ B}
    BY <1>2 DEF Rows, Sound, Combinations
  <2> HIDE DEF A, B
  <2>3. IsFiniteSet(A \cup B)
    BY <2>1, FS_Union
  <2> QED
    BY <2>1, <2>2, <2>3, FS_Subset
<1> QED
  BY <1>1, <1>2

\* R is what the queries of q return.
Solves(R, q, d) ==
  R = [x \in (DOMAIN q) \X Outer |-> Rows(R, q[x[1]], d, x[2])]

LEMMA SolutionExists ==
  ASSUME NEW q, Ordered(q), NEW d, FiniteTables(d)
  PROVE  \E R : Solves(R, q, d) /\ Typed(R, DOMAIN q)
<1>1. PICK N \in Nat : DOMAIN q = 1..N
  BY DEF Ordered
<1> DEFINE X == (DOMAIN q) \X Outer
           From(R, m) ==
             /\ R = [x \in X |-> R[x]]
             /\ Typed(R, DOMAIN q)
             /\ \A k \in DOMAIN q, o \in Outer : k >= m => R[<<k, o>>] = Rows(R, q[k], d, o)
           S == {l \in Nat : l <= N => \E R : From(R, N + 1 - l)}
<1>2. \A k \in DOMAIN q : Sound(q[k]) /\ \A b \in Below(q[k]) : b \in DOMAIN q /\ b > k
  BY DEF Ordered
<1>3. 0 \in S
  <2> DEFINE R == [x \in X |-> {}]
  <2>1. Typed(R, DOMAIN q)
    <3>2. \A b \in DOMAIN q, o \in Outer : <<b, o>> \in X
      OBVIOUS
    <3> HIDE DEF X
    <3>1. \A x \in X : R[x] = {}
      OBVIOUS
    <3> HIDE DEF R
    <3> QED
      BY <3>1, <3>2, FS_EmptySet DEF Typed
  <2>2. \A k \in DOMAIN q : ~(k >= N + 1 - 0)
    BY <1>1
  <2>3. From(R, N + 1 - 0)
    BY <2>1, <2>2
  <2> HIDE DEF From
  <2> QED
    BY <2>3
<1>4. ASSUME NEW l \in Nat, l \in S PROVE l + 1 \in S
  <2> SUFFICES ASSUME l + 1 <= N PROVE \E R : From(R, N + 1 - (l + 1))
    <3> HIDE DEF From
    <3> QED
      OBVIOUS
  <2> DEFINE m == N - l
  <2>1. m \in 1..N /\ N + 1 - l = m + 1 /\ N + 1 - (l + 1) = m
    BY <1>1
  <2>2. PICK G : From(G, m + 1)
    <3> HIDE DEF From
    <3> QED
      BY <1>1, <1>4, <2>1
  <2> DEFINE R == [x \in X |-> IF x[1] = m THEN Rows(G, q[m], d, x[2]) ELSE G[x]]
  <2>3. \A k \in DOMAIN q, o \in Outer :
          R[<<k, o>>] = IF k = m THEN Rows(G, q[m], d, o) ELSE G[<<k, o>>]
    OBVIOUS
  <2>4. R = [x \in X |-> R[x]]
    OBVIOUS
  <2> HIDE DEF R, m, X
  <2>5. Typed(G, DOMAIN q) /\ \A k \in DOMAIN q : Typed(G, Below(q[k]))
    BY <1>2, <2>2 DEF Typed
  <2>6. ASSUME NEW o \in Outer
        PROVE  Rows(G, q[m], d, o) \in SUBSET Row /\ IsFiniteSet(Rows(G, q[m], d, o))
    BY <1>1, <1>2, <2>1, <2>5, RowsTyped
  <2>7. Typed(R, DOMAIN q)
    BY <2>3, <2>5, <2>6 DEF Typed
  <2>8. ASSUME NEW k \in DOMAIN q, k >= m, NEW o \in Outer
        PROVE  Rows(R, q[k], d, o) = Rows(G, q[k], d, o)
    <3>1. \A b \in Below(q[k]) : b \in DOMAIN q /\ b # m
      BY <1>1, <1>2, <2>1, <2>8
    <3>2. Agree(G, R, Below(q[k]))
      BY <2>3, <3>1 DEF Agree
    <3> QED
      BY <1>2, <2>5, <3>2, RowsAgree
  <2>9. ASSUME NEW k \in DOMAIN q, k >= m, NEW o \in Outer
        PROVE  R[<<k, o>>] = Rows(R, q[k], d, o)
    <3>1. CASE k = m
      BY <2>3, <2>8, <3>1, <2>9
    <3>2. CASE k # m
      <4>1. k >= m + 1
        BY <1>1, <2>1, <2>9, <3>2
      <4> QED
        BY <2>2, <2>3, <2>8, <2>9, <3>2, <4>1
    <3> QED
      BY <3>1, <3>2
  <2>10. From(R, m)
    BY <2>4, <2>7, <2>9
  <2> QED
    BY <2>1, <2>10
<1>5. \E R : From(R, 1)
  <2>1. Nat \subseteq S
    <3> HIDE DEF S
    <3> QED
      BY <1>3, <1>4, Upwards
  <2>2. N \in S /\ N <= N /\ N + 1 - N = 1
    <3> HIDE DEF S
    <3> QED
      BY <1>1, <2>1
  <2> HIDE DEF From
  <2> QED
    BY <2>2
<1>6. PICK R : From(R, 1)
  BY <1>5
<1>7. \A x \in X : x[1] \in DOMAIN q /\ x[2] \in Outer /\ x[1] >= 1 /\ x = <<x[1], x[2]>>
  BY <1>1
<1>8. \A x \in X : R[x] = Rows(R, q[x[1]], d, x[2])
  BY <1>6, <1>7
<1>9. Solves(R, q, d)
  BY <1>6, <1>8 DEF Solves
<1> QED
  BY <1>6, <1>9

\* So Results is it.
LEMMA ResultsSolve ==
  ASSUME NEW q, Ordered(q), NEW d, FiniteTables(d)
  PROVE  /\ Solves(Results(q, d), q, d)
         /\ \A i \in DOMAIN q, o \in Outer : Results(q, d)[<<i, o>>] = Rows(Results(q, d), q[i], d, o)
<1>1. Results(q, d) = CHOOSE R : Solves(R, q, d)
  BY DEF Results, Solves
<1>2. Solves(Results(q, d), q, d)
  BY <1>1, SolutionExists
<1> DEFINE R == Results(q, d)
<1> HIDE DEF R
<1>3. R = [x \in (DOMAIN q) \X Outer |-> Rows(R, q[x[1]], d, x[2])]
  BY <1>2 DEF Solves, R
<1>4. ASSUME NEW i \in DOMAIN q, NEW o \in Outer
      PROVE  R[<<i, o>>] = Rows(R, q[i], d, o)
  <2>1. <<i, o>> \in (DOMAIN q) \X Outer
    OBVIOUS
  <2> QED
    BY <1>3, <2>1
<1> QED
  BY <1>2, <1>4 DEF R

LEMMA ResultsTyped ==
  ASSUME NEW q, Ordered(q), NEW d, FiniteTables(d)
  PROVE  Typed(Results(q, d), DOMAIN q)
<1> DEFINE R == Results(q, d)
           S == {i \in DOMAIN q : Typed(R, {i})}
<1>1. PICK N \in Nat : DOMAIN q = 1..N
  BY DEF Ordered
<1>2. ASSUME NEW i \in DOMAIN q, {k \in DOMAIN q : k > i} \subseteq S PROVE i \in S
  <2>1. Sound(q[i]) /\ Below(q[i]) \subseteq S
    BY <1>2 DEF Ordered
  <2> HIDE DEF R
  <2>2. Typed(R, Below(q[i]))
    BY <2>1 DEF Typed
  <2>3. \A o \in Outer : R[<<i, o>>] = Rows(R, q[i], d, o)
    BY ResultsSolve DEF R
  <2>4. \A o \in Outer : Rows(R, q[i], d, o) \in SUBSET Row /\ IsFiniteSet(Rows(R, q[i], d, o))
    BY <2>1, <2>2, RowsTyped
  <2> QED
    BY <2>3, <2>4 DEF Typed
<1> HIDE DEF S
<1>3. 1..N \subseteq S
  BY <1>1, <1>2, Downwards
<1> QED
  BY <1>1, <1>3 DEF S, Typed

----------------------------------------------------------------------------
(* The guarded statement.                                                  *)

\* One SELECT with its predicates.
Guarded(n, p) == [n EXCEPT !.where = Inject(@, Predicates(n.from, p))]

LEMMA WellFormedOrdered ==
  ASSUME NEW q, WellFormed(q)
  PROVE  Ordered(q) /\ \A i \in DOMAIN q : q[i] \in Query
<1>1. q \in Seq(Query)
  BY DEF WellFormed
<1>2. \A i \in DOMAIN q : q[i] \in Query
  BY <1>1
<1>3. \E N \in Nat : DOMAIN q = 1..N
  BY <1>1
<1>4. ASSUME NEW i \in DOMAIN q PROVE Sound(q[i])
  <2>1. /\ q[i].kind = "select" => q[i].of \in DOMAIN q[i].from
        /\ q[i].kind # "select" => Len(q[i].parts) = 2
    BY DEF WellFormed
  <2>2. q[i].parts \in Seq(Nat) /\ q[i].from \in Seq(Source) /\ q[i].kind \in {"select"} \cup Combinations
    BY <1>2 DEF Query
  <2>3. Len(q[i].parts) = 2 => {1, 2} \subseteq DOMAIN q[i].parts
    BY <2>2
  <2> QED
    BY <2>1, <2>2, <2>3 DEF Sound
<1>5. \A i \in DOMAIN q : Below(q[i]) \subseteq {k \in DOMAIN q : k > i}
  BY DEF WellFormed
<1> QED
  BY <1>2, <1>3, <1>4, <1>5 DEF Ordered

LEMMA ConditionOps ==
  ASSUME NEW n \in Query, NEW a \in Conditions(n)
  PROVE  a.op \in Ops
<1>1. n.where \in SUBSET SUBSET Condition
  BY DEF Query
<1>2. a \in Condition
  BY <1>1 DEF Conditions
<1> QED
  BY <1>2 DEF Condition

LEMMA PredicateOps ==
  ASSUME NEW from, NEW p, NEW a \in Predicates(from, p)
  PROVE  a.op \in {"own row", "own fk", "own team"} /\ a.person = p
<1>1. \A op, i : Predicate(op, i, from, p).op = op /\ Predicate(op, i, from, p).person = p
  BY DEF Predicate
<1>2. \E op \in {"own row", "own fk", "own team"} : a = Predicate(op, a.src, from, p)
  BY PredicateShape
<1> QED
  BY <1>1, <1>2

\* A guarded SELECT differs from the written one in its WHERE clause only.
LEMMA GuardedQuery ==
  ASSUME NEW n \in Query, NEW p
  PROVE  /\ \A f \in {"kind", "from", "item", "of", "marks", "parts"} : Guarded(n, p)[f] = n[f]
         /\ Guarded(n, p).where = n.where \cup {{a} : a \in Predicates(n.from, p)}
         /\ Below(Guarded(n, p)) = Below(n)
<1> DEFINE g == Guarded(n, p)
<1>1. \A f \in {"kind", "from", "item", "of", "marks", "parts"} : g[f] = n[f]
  BY DEF Guarded, Query
<1>2. g.where = n.where \cup {{a} : a \in Predicates(n.from, p)}
  BY DEF Guarded, Inject, Query
<1> HIDE DEF g
<1>3. \A a : a \in Conditions(g) <=> a \in Conditions(n) \/ a \in Predicates(n.from, p)
  BY <1>2 DEF Conditions
<1>4. Subqueries(g) = Subqueries(n)
  BY <1>3, PredicateOps DEF Subqueries
<1>5. DerivedTables(g) = DerivedTables(n) /\ Parts(g) = Parts(n)
  <2>1. g["from"] = n["from"] /\ g["parts"] = n["parts"]
    BY <1>1
  <2> QED
    BY <2>1 DEF DerivedTables, Parts
<1>6. Below(g) = Below(n)
  BY <1>4, <1>5 DEF Below
<1> QED
  BY <1>1, <1>2, <1>6 DEF g

LEMMA ScopedQueries ==
  ASSUME NEW q, WellFormed(q), NEW p
  PROVE  /\ Ordered(Scoped(q, p))
         /\ DOMAIN Scoped(q, p) = DOMAIN q
         /\ \A i \in DOMAIN q :
              /\ q[i].kind = "select" => Scoped(q, p)[i] = Guarded(q[i], p)
              /\ q[i].kind # "select" => Scoped(q, p)[i] = q[i]
              /\ Below(Scoped(q, p)[i]) = Below(q[i])
<1> DEFINE s == Scoped(q, p)
<1>1. DOMAIN s = DOMAIN q
  BY DEF Scoped
<1>2. Ordered(q) /\ \A i \in DOMAIN q : q[i] \in Query
  BY WellFormedOrdered
<1>3. ASSUME NEW i \in DOMAIN q
      PROVE  /\ q[i].kind = "select" => s[i] = Guarded(q[i], p)
             /\ q[i].kind # "select" => s[i] = q[i]
  BY DEF Scoped, Selects, Guarded
<1> HIDE DEF s
<1>4. ASSUME NEW i \in DOMAIN q PROVE Sound(s[i]) /\ Below(s[i]) = Below(q[i])
  <2>1. Sound(q[i])
    BY <1>2 DEF Ordered
  <2>2. CASE q[i].kind = "select"
    <3>1. s[i] = Guarded(q[i], p)
      BY <1>3, <2>2
    <3>2. /\ s[i]["kind"] = q[i]["kind"] /\ s[i]["from"] = q[i]["from"]
          /\ s[i]["of"] = q[i]["of"] /\ s[i]["parts"] = q[i]["parts"]
      BY <1>2, <3>1, GuardedQuery
    <3> QED
      BY <1>2, <2>1, <3>1, <3>2, GuardedQuery DEF Sound
  <2>3. CASE q[i].kind # "select"
    BY <1>3, <2>1, <2>3
  <2> QED
    BY <2>2, <2>3
<1>5. Ordered(s)
  BY <1>1, <1>2, <1>4 DEF Ordered
<1> QED
  BY <1>1, <1>3, <1>4, <1>5 DEF s

\* What the written WHERE says does not depend on the tables, and the predicates
\* are further conjuncts.
LEMMA FoundGuarded ==
  ASSUME NEW n \in Query, NEW d, NEW p, NEW G, NEW o
  PROVE  Found(G, Guarded(n, p), d, o) =
           {e \in InScope(n.from, SourceRows(n.from, DerivedRows(G, n, o), d), d, p) :
              \A clause \in n.where : \E a \in clause : Holds(G, a, d, e, o)}
<1> DEFINE g == Guarded(n, p)
           rows == SourceRows(n.from, DerivedRows(G, n, o), d)
           added == Predicates(n.from, p)
           Passes(where, e) == \A clause \in where : \E a \in clause : Holds(G, a, d, e, o)
<1>1. g["from"] = n["from"] /\ g.where = n.where \cup {{a} : a \in added}
  BY GuardedQuery
<1>2. DerivedRows(G, g, o) = DerivedRows(G, n, o)
  BY <1>1 DEF DerivedRows
<1>3. Found(G, g, d, o) = {e \in Joined(n.from, rows) : Passes(g.where, e)}
  <2> HIDE DEF g
  <2> QED
    BY <1>1, <1>2 DEF Found
<1>4. ASSUME NEW e, NEW a \in added PROVE Holds(G, a, d, e, o) <=> PredicateHolds(a, e, d)
  BY PredicateOps DEF Holds, PredicateHolds
<1> HIDE DEF g, rows, added
<1>5. \A e : Passes(g.where, e) <=>
              Passes(n.where, e) /\ \A a \in added : PredicateHolds(a, e, d)
  <2>1. ASSUME NEW e
        PROVE  Passes({{a} : a \in added}, e) <=> \A a \in added : PredicateHolds(a, e, d)
    <3>1. ASSUME Passes({{a} : a \in added}, e), NEW a \in added PROVE PredicateHolds(a, e, d)
      <4>1. {a} \in {{b} : b \in added}
        OBVIOUS
      <4>2. \E x \in {a} : Holds(G, x, d, e, o)
        BY <3>1, <4>1
      <4> QED
        BY <1>4, <4>2
    <3>2. ASSUME \A a \in added : PredicateHolds(a, e, d), NEW c \in {{a} : a \in added}
          PROVE  \E x \in c : Holds(G, x, d, e, o)
      <4>1. PICK a \in added : c = {a}
        OBVIOUS
      <4>2. Holds(G, a, d, e, o) /\ a \in c
        BY <1>4, <3>2, <4>1
      <4> QED
        BY <4>2
    <3> QED
      BY <3>1, <3>2
  <2> QED
    BY <1>1, <2>1
<1>6. InScope(n.from, rows, d, p) = {e \in Joined(n.from, rows) : \A a \in added : PredicateHolds(a, e, d)}
  BY DEF InScope, added
<1> HIDE DEF Passes
<1>7. {e \in Joined(n.from, rows) : Passes(g.where, e)} =
      {e \in InScope(n.from, rows, d, p) : Passes(n.where, e)}
  BY <1>5, <1>6
<1> QED
  BY <1>3, <1>7 DEF Passes, rows, g

LEMMA HoldsAnywhere ==
  ASSUME NEW n \in Query, NEW a \in Conditions(n), NEW G, NEW c, NEW d, NEW e, NEW o
  PROVE  Holds(G, a, c, e, o) <=> Holds(G, a, d, e, o)
<1>1. a.op \notin {"own row", "own fk", "own team"}
  BY ConditionOps DEF Ops
<1> QED
  BY <1>1 DEF Holds

\* One guarded SELECT, whose subqueries return the same rows.
LEMMA GuardedReadsOwnRows ==
  ASSUME NEW n \in Query, Sound(n), PersonOnce(n.from), NamesKept(n.from),
         \A k \in DOMAIN n.from : n.from[k].table \in Classified \cup {Derived},
         NEW d, FiniteTables(d), NEW p \in Nat \cup {Nobody},
         NEW G, Typed(G, Below(n)), NEW o \in Outer
  PROVE  /\ Found(G, Guarded(n, p), d, o) = Found(G, Guarded(n, p), View(d, p), o)
         /\ InnerOnly(n.from) => Found(G, Guarded(n, p), d, o) = Found(G, n, View(d, p), o)
<1> DEFINE v == View(d, p)
           parts == DerivedRows(G, n, o)
           full == SourceRows(n.from, parts, d)
           own == SourceRows(n.from, parts, v)
           Passes(c, e) == \A clause \in n.where : \E a \in clause : Holds(G, a, c, e, o)
<1>1. parts \in [DOMAIN n.from -> SUBSET Row] /\ d \in Database /\ n.from \in Seq(Source)
  BY SourcesTyped DEF FiniteTables, Sound
<1>2. \A e : Passes(d, e) <=> Passes(v, e)
  BY HoldsAnywhere DEF Conditions
<1>3. /\ Found(G, Guarded(n, p), d, o) = {e \in InScope(n.from, full, d, p) : Passes(d, e)}
      /\ Found(G, Guarded(n, p), v, o) = {e \in InScope(n.from, own, v, p) : Passes(v, e)}
  BY FoundGuarded
<1>4. Found(G, n, v, o) = {e \in Joined(n.from, own) : Passes(v, e)}
  BY DEF Found
<1>5. InScope(n.from, full, d, p) = InScope(n.from, own, v, p)
  BY <1>1, SelectReadsOwnRows
<1>6. InnerOnly(n.from) => InScope(n.from, full, d, p) = Joined(n.from, own)
  BY <1>1, SelectKeepsOwnRows
<1> HIDE DEF v, full, own, Passes
<1> QED
  BY <1>2, <1>3, <1>4, <1>5, <1>6 DEF v

\* A query of a guarded statement, of any kind.
LEMMA RowsScoped ==
  ASSUME NEW q, WellFormed(q), NEW i \in DOMAIN q, PersonOnce(q[i].from), NamesKept(q[i].from), Known(q),
         NEW d, FiniteTables(d), NEW p \in Nat \cup {Nobody},
         NEW G, Typed(G, Below(q[i])), NEW o \in Outer
  PROVE  /\ Rows(G, Scoped(q, p)[i], d, o) = Rows(G, Scoped(q, p)[i], View(d, p), o)
         /\ InnerOnly(q[i].from) =>
              Rows(G, Scoped(q, p)[i], d, o) = Rows(G, q[i], View(d, p), o)
<1> DEFINE n == q[i]
           g == Guarded(n, p)
<1>1. n \in Query /\ Sound(n)
  BY WellFormedOrdered DEF Ordered
<1>2. CASE n.kind = "select"
  <2>1. Scoped(q, p)[i] = g
    BY <1>2, ScopedQueries
  <2>2. /\ Found(G, g, d, o) = Found(G, g, View(d, p), o)
        /\ InnerOnly(n.from) => Found(G, g, d, o) = Found(G, n, View(d, p), o)
    BY <1>1, GuardedReadsOwnRows DEF Known
  <2>3. g["kind"] = n["kind"] /\ g["item"] = n["item"] /\ g["of"] = n["of"]
    BY <1>1, GuardedQuery
  <2> HIDE DEF g
  <2> QED
    BY <1>2, <2>1, <2>2, <2>3 DEF Rows
<1>3. CASE n.kind # "select"
  <2>1. Scoped(q, p)[i] = n /\ n.kind \in Combinations
    BY <1>1, <1>3, ScopedQueries DEF Sound
  <2> HIDE DEF n
  <2>2. Rows(G, n, d, o) = Rows(G, n, View(d, p), o)
    BY <2>1 DEF Rows, Combinations
  <2> QED
    BY <2>1, <2>2 DEF n
<1> QED
  BY <1>2, <1>3

LEMMA FiniteView ==
  ASSUME NEW d, FiniteTables(d), NEW p
  PROVE  FiniteTables(View(d, p))
<1>1. \A t \in Tables : View(d, p)[t] \subseteq d[t]
  BY DEF View
<1> QED
  BY <1>1, FS_Subset, ViewOfDatabase DEF FiniteTables

\* From the innermost queries outwards: the whole statement.
LEMMA ResultsScoped ==
  ASSUME NEW q, WellFormed(q), Known(q), \A i \in DOMAIN q : PersonOnce(q[i].from) /\ NamesKept(q[i].from),
         NEW d, FiniteTables(d), NEW p \in Nat \cup {Nobody}
  PROVE  /\ Agree(Results(Scoped(q, p), d), Results(Scoped(q, p), View(d, p)), DOMAIN q)
         /\ (\A i \in DOMAIN q : InnerOnly(q[i].from)) =>
              Agree(Results(Scoped(q, p), d), Results(q, View(d, p)), DOMAIN q)
<1> DEFINE s == Scoped(q, p)
           v == View(d, p)
           full == Results(s, d)
           own == Results(s, v)
           written == Results(q, v)
<1>1. /\ Ordered(q) /\ Ordered(s) /\ DOMAIN s = DOMAIN q /\ FiniteTables(v)
      /\ \A i \in DOMAIN q : /\ Below(s[i]) = Below(q[i]) /\ Sound(s[i]) /\ Sound(q[i])
                             /\ Below(q[i]) \subseteq {k \in DOMAIN q : k > i}
  <2>1. /\ Ordered(s) /\ DOMAIN s = DOMAIN q
        /\ \A i \in DOMAIN q : Below(s[i]) = Below(q[i])
    BY ScopedQueries
  <2>2. Ordered(q) /\ FiniteTables(v)
    BY WellFormedOrdered, FiniteView
  <2> QED
    BY <2>1, <2>2 DEF Ordered
<1>2. /\ \A i \in DOMAIN q : Typed(full, Below(q[i]))
      /\ \A i \in DOMAIN q, o \in Outer :
           /\ full[<<i, o>>] = Rows(full, s[i], d, o)
           /\ own[<<i, o>>] = Rows(own, s[i], v, o)
           /\ written[<<i, o>>] = Rows(written, q[i], v, o)
  <2>1. Typed(full, DOMAIN q)
    BY <1>1, ResultsTyped
  <2>2. \A i \in DOMAIN q : Below(q[i]) \subseteq DOMAIN q
    BY <1>1
  <2>3. \A i \in DOMAIN q, o \in Outer :
           /\ full[<<i, o>>] = Rows(full, s[i], d, o)
           /\ own[<<i, o>>] = Rows(own, s[i], v, o)
           /\ written[<<i, o>>] = Rows(written, q[i], v, o)
    BY <1>1, ResultsSolve
  <2> HIDE DEF full
  <2> QED
    BY <2>1, <2>2, <2>3 DEF Typed
<1>3. ASSUME NEW i \in DOMAIN q, NEW o \in Outer
      PROVE  /\ Rows(full, s[i], d, o) = Rows(full, s[i], v, o)
             /\ InnerOnly(q[i].from) => Rows(full, s[i], d, o) = Rows(full, q[i], v, o)
  BY <1>2, RowsScoped
<1>4. PICK N \in Nat : DOMAIN q = 1..N
  BY <1>1 DEF Ordered
<1> HIDE DEF s, v, full, own, written
<1>5. Agree(full, own, DOMAIN q)
  <2> DEFINE S == {i \in DOMAIN q : Agree(full, own, {i})}
  <2>1. ASSUME NEW i \in DOMAIN q, {k \in DOMAIN q : k > i} \subseteq S PROVE i \in S
    <3>1. Agree(full, own, Below(q[i]))
      BY <1>1, <2>1 DEF Agree
    <3>2. \A o \in Outer : Rows(full, s[i], v, o) = Rows(own, s[i], v, o)
      BY <1>1, <1>2, <3>1, RowsAgree
    <3> QED
      BY <1>2, <1>3, <3>2 DEF Agree
  <2> HIDE DEF S
  <2>2. DOMAIN q \subseteq S
    BY <1>4, <2>1, Downwards
  <2> QED
    BY <2>2 DEF S, Agree
<1>6. ASSUME \A i \in DOMAIN q : InnerOnly(q[i].from)
      PROVE  Agree(full, written, DOMAIN q)
  <2> DEFINE S == {i \in DOMAIN q : Agree(full, written, {i})}
  <2>1. ASSUME NEW i \in DOMAIN q, {k \in DOMAIN q : k > i} \subseteq S PROVE i \in S
    <3>1. Agree(full, written, Below(q[i]))
      BY <1>1, <2>1 DEF Agree
    <3>2. \A o \in Outer : Rows(full, q[i], v, o) = Rows(written, q[i], v, o)
      BY <1>1, <1>2, <3>1, RowsAgree
    <3> QED
      BY <1>2, <1>3, <1>6, <3>2 DEF Agree
  <2> HIDE DEF S
  <2>2. DOMAIN q \subseteq S
    BY <1>4, <2>1, Downwards
  <2> QED
    BY <2>2 DEF S, Agree
<1> QED
  BY <1>5, <1>6 DEF s, v, full, own, written

----------------------------------------------------------------------------
(* The guard.                                                              *)

\* An answer is what the rewritten statement returns, and a statement that was
\* answered had been let through.
StatementInv ==
  /\ db \in Databases /\ scope \in Scopes
  /\ Answered => /\ statement \in Statements
                 /\ Accepted(statement)
                 /\ answer = Answer(Rewrite(statement), db)

THEOREM StatementInvariant == Spec => []StatementInv
<1>1. Init => StatementInv
  BY DEF Init, StatementInv, Answered
<1>2. StatementInv /\ [Next]_vars => StatementInv'
  <2> SUFFICES ASSUME StatementInv, [Next]_vars PROVE StatementInv'
    OBVIOUS
  <2>1. ASSUME NEW q \in Statements, RunStatement(q) PROVE StatementInv'
    <3>1. scope' = scope /\ db' = db /\ statement' = q
      BY <2>1 DEF RunStatement
    <3>2. Accepted(q)' <=> Accepted(q)
      BY <3>1 DEF Accepted
    <3>3. Rewrite(q)' = Rewrite(q)
      BY <3>1 DEF Rewrite
    <3>4. outcome' = "answered" => Accepted(q) /\ answer' = Answer(Rewrite(q), db)
      BY <2>1 DEF RunStatement
    <3> QED
      BY <3>1, <3>2, <3>3, <3>4 DEF StatementInv, Answered, Accepted, Rewrite
  <2>2. CASE UNCHANGED vars
    BY <2>2 DEF StatementInv, Answered, Accepted, Rewrite, vars
  <2> QED
    BY <2>1, <2>2 DEF Next
<1> QED
  BY <1>1, <1>2, PTL DEF Spec

LEMMA StoredDatabases ==
  ASSUME NEW d \in Databases
  PROVE  FiniteTables(d)
BY DatabasesAssumption DEF Stored, FiniteTables

LEMMA FirstQuery ==
  ASSUME NEW q, WellFormed(q)
  PROVE  1 \in DOMAIN q /\ Null \in Outer
BY DEF WellFormed, Outer

\* What a restricted requester is answered, whatever the shape and the nesting of
\* the statement and whatever the tables hold, is computed from the requester's own
\* rows and the tables that hold nobody's data (core/rbac/sql_guard.py:9-14), as long as
\* no SELECT names `person` twice or renames a table's columns in its alias.
THEOREM AnswersFromOwnRows == Spec => []OwnRowsOnly
<1>1. StatementInv => OwnRowsOnly
  <2> SUFFICES ASSUME StatementInv, Answered, scope # Everyone, OnePerson, NoAliasList
               PROVE  answer = Answer(Rewrite(statement), View(db, scope))
    BY DEF OwnRowsOnly
  <2>1. WellFormed(statement) /\ Known(statement) /\ scope \in Nat \cup {Nobody}
    BY StatementsAssumption, ScopesAssumption DEF StatementInv, Accepted
  <2>2. FiniteTables(db) /\ 1 \in DOMAIN statement /\ Null \in Outer
    BY <2>1, StoredDatabases, FirstQuery DEF StatementInv
  <2>3. Agree(Results(Scoped(statement, scope), db),
              Results(Scoped(statement, scope), View(db, scope)), DOMAIN statement)
    BY <2>1, <2>2, ResultsScoped DEF OnePerson, NoAliasList
  <2> QED
    BY <2>2, <2>3 DEF StatementInv, Rewrite, Answer, Agree
<1> QED
  BY <1>1, StatementInvariant, PTL

\* And without outer joins it is everything the statement as written returns on
\* them: the guard takes nothing of one's own away.
THEOREM AnswersKeepOwnRows == Spec => []OwnRowsKept
<1>1. StatementInv => OwnRowsKept
  <2> SUFFICES ASSUME StatementInv, Answered, scope # Everyone, OnePerson, NoAliasList, NoOuterJoin
               PROVE  answer = Answer(statement, View(db, scope))
    BY DEF OwnRowsKept
  <2>1. WellFormed(statement) /\ Known(statement) /\ scope \in Nat \cup {Nobody}
    BY StatementsAssumption, ScopesAssumption DEF StatementInv, Accepted
  <2>2. FiniteTables(db) /\ 1 \in DOMAIN statement /\ Null \in Outer
    BY <2>1, StoredDatabases, FirstQuery DEF StatementInv
  <2>3. Agree(Results(Scoped(statement, scope), db),
              Results(statement, View(db, scope)), DOMAIN statement)
    BY <2>1, <2>2, ResultsScoped DEF OnePerson, NoAliasList, NoOuterJoin
  <2> QED
    BY <2>2, <2>3 DEF StatementInv, Rewrite, Answer, Agree
<1> QED
  BY <1>1, StatementInvariant, PTL

----------------------------------------------------------------------------
(* Forbidden columns: the masked database has the same rows but for them,   *)
(* and every query of a readable statement finds the same.                  *)

\* A row as it is in the masked database, the absent one included, and a joined row.
Hidden(o) == IF o = Null THEN Null ELSE Hide(o)
HiddenJoin(e) == [i \in DOMAIN e |-> Hidden(e[i])]

\* Rows that can be told apart without the forbidden column, of which none looks
\* like the row of an outer join that found nothing.
Apart(S) ==
  /\ \A r, s \in S : Hide(r) = Hide(s) => r = s
  /\ \A r \in S : r.id = 0 => r.secret = 0

\* On the masked database H returns the masked rows of what G returns.
Masks(G, H, B) ==
  \A b \in B, o \in Outer :
    H[<<b, Hidden(o)>>] = {Hide(r) : r \in G[<<b, o>>]} /\ Apart(G[<<b, o>>])

\* G returns no forbidden column of the queries in B.
Bare(G, B) == \A b \in B, o \in Outer : \A r \in G[<<b, o>>] : r.secret = 0

LEMMA HideFacts ==
  /\ \A r \in Row : /\ Hide(r) \in Row /\ Hide(r) # Null /\ Hidden(r) = Hide(r)
                    /\ Hide(r).id = r.id /\ Hide(r).ref = r.ref /\ Hide(r).secret = 0
                    /\ r.secret = 0 => Hide(r) = r
  /\ \A o \in Outer : Hidden(o) \in Outer /\ (Hidden(o) = Null <=> o = Null)
<1>1. ASSUME NEW r \in Row
      PROVE  /\ Hide(r) \in Row /\ Hide(r).id = r.id /\ Hide(r).ref = r.ref /\ Hide(r).secret = 0
             /\ r.secret = 0 => Hide(r) = r
  BY DEF Hide, Row
<1>2. \A r \in Row : r # Null
  BY MarkersAssumption
<1> QED
  BY <1>1, <1>2 DEF Hidden, Outer

LEMMA MatchHidden ==
  ASSUME NEW r \in Row, NEW s \in Row
  PROVE  Match(Hidden(r), Hidden(s)) <=> Match(r, s)
BY HideFacts DEF Match

LEMMA MaskedDatabase ==
  ASSUME NEW d, Stored(d)
  PROVE  /\ FiniteTables(d) /\ FiniteTables(Masked(d))
         /\ \A t \in Tables : Apart(d[t])
         /\ \A p : TeamsOf(Masked(d), p) = TeamsOf(d, p)
<1>1. FiniteTables(d)
  BY DEF Stored, FiniteTables
<1>2. \A t \in Tables : d[t] \in SUBSET Row
  BY DEF Stored, Database
<1>3. ASSUME NEW t \in Tables PROVE Masked(d)[t] \in SUBSET Row /\ IsFiniteSet(Masked(d)[t])
  <2>1. Masked(d)[t] = {Hide(r) : r \in d[t]}
    BY DEF Masked
  <2>2. [r \in d[t] |-> Hide(r)] \in Surjection(d[t], Masked(d)[t])
    BY <2>1 DEF Surjection
  <2>3. IsFiniteSet(Masked(d)[t])
    BY <1>1, <2>2, FS_Surjection DEF FiniteTables
  <2> QED
    BY <1>2, <2>1, <2>3, HideFacts
<1>4. FiniteTables(Masked(d))
  BY <1>3 DEF FiniteTables, Database, Masked
<1>5. ASSUME NEW t \in Tables PROVE Apart(d[t])
  <2>1. \A r, s \in d[t] : r.id > 0 /\ (r.id = s.id => r = s)
    BY DEF Stored
  <2>2. \A r \in d[t] : r \in Row /\ r.id \in Nat /\ Hide(r).id = r.id
    BY <1>2, HideFacts DEF Row
  <2> QED
    BY <2>1, <2>2 DEF Apart
<1>6. ASSUME NEW p PROVE TeamsOf(Masked(d), p) = TeamsOf(d, p)
  <2>1. PersonTeam \in Tables
    BY ClassesAssumption DEF Tables, Classified
  <2>2. Masked(d)[PersonTeam] = {Hide(r) : r \in d[PersonTeam]}
    BY <2>1 DEF Masked
  <2>3. \A r \in d[PersonTeam] : Hide(r).id = r.id /\ Hide(r).ref = r.ref
    BY <1>2, <2>1, HideFacts
  <2> QED
    BY <2>2, <2>3 DEF TeamsOf
<1> QED
  BY <1>1, <1>4, <1>5, <1>6

\* The joined rows of masked sources are the masked joined rows, one for one.
LEMMA JoinedHidden ==
  ASSUME NEW from,
         NEW rows \in [DOMAIN from -> SUBSET Row], NEW masked \in [DOMAIN from -> SUBSET Row],
         \A i \in DOMAIN from : masked[i] = {Hide(r) : r \in rows[i]} /\ Apart(rows[i]),
         DOMAIN from # {} => 1 \in DOMAIN from
  PROVE  /\ \A e \in Joined(from, rows) : HiddenJoin(e) \in Joined(from, masked)
         /\ \A f \in Joined(from, masked) : \E e \in Joined(from, rows) : HiddenJoin(e) = f
         /\ \A e, f \in Joined(from, rows) : HiddenJoin(e) = HiddenJoin(f) => e = f
<1>1. ASSUME NEW e \in [DOMAIN from -> Row \cup {Null}]
      PROVE  /\ HiddenJoin(e) \in [DOMAIN from -> Row \cup {Null}]
             /\ \A i \in DOMAIN from : HiddenJoin(e)[i] = Hidden(e[i])
             /\ \A i \in DOMAIN from : e[i] \in Outer
  BY HideFacts DEF HiddenJoin, Outer
<1>2. ASSUME NEW e \in [DOMAIN from -> Row \cup {Null}], NEW i \in DOMAIN from, Joins(from, rows, e, i)
      PROVE  Joins(from, masked, HiddenJoin(e), i)
  <2> DEFINE f == HiddenJoin(e)
  <2>1. /\ f[i] = Hidden(e[i]) /\ f[1] = Hidden(e[1]) /\ e[i] \in Outer /\ e[1] \in Outer
        /\ masked[i] = {Hide(r) : r \in rows[i]} /\ rows[i] \subseteq Row
    BY <1>1
  <2> HIDE DEF f
  <2>2. e[i] \in rows[i] => f[i] \in masked[i]
    BY <2>1, HideFacts
  <2>3. CASE ~from[i].left
    BY <1>2, <2>2, <2>3 DEF Joins, f
  <2>4. CASE from[i].left /\ e[i] \in rows[i] /\ e[1] # Null /\ Match(e[1], e[i])
    <3>1. e[1] \in Row /\ e[i] \in Row
      BY <2>1, <2>4 DEF Outer
    <3>2. f[1] # Null /\ Match(f[1], f[i])
      BY <2>1, <2>4, <3>1, MatchHidden, HideFacts
    <3> QED
      BY <2>2, <2>4, <3>2 DEF Joins, f
  <2>5. CASE from[i].left /\ e[i] = Null /\ \A r \in rows[i] : e[1] = Null \/ ~Match(e[1], r)
    <3>1. f[i] = Null /\ (f[1] = Null <=> e[1] = Null)
      BY <2>1, <2>5, HideFacts
    <3>2. ASSUME NEW s \in masked[i], f[1] # Null PROVE ~Match(f[1], s)
      <4>1. PICK r \in rows[i] : s = Hide(r)
        BY <2>1
      <4>2. r \in Row /\ e[1] \in Row /\ s = Hidden(r)
        BY <2>1, <3>1, <3>2, <4>1, HideFacts DEF Outer
      <4> QED
        BY <2>1, <2>5, <3>1, <3>2, <4>2, MatchHidden
    <3> QED
      BY <2>5, <3>1, <3>2 DEF Joins, f
  <2> QED
    BY <1>2, <2>3, <2>4, <2>5 DEF Joins
<1>3. \A e \in Joined(from, rows) : HiddenJoin(e) \in Joined(from, masked)
  BY <1>1, <1>2, JoinedRows
<1>4. ASSUME NEW f \in Joined(from, masked)
      PROVE  \E e \in Joined(from, rows) : HiddenJoin(e) = f
  <2>1. /\ f \in [DOMAIN from -> Row \cup {Null}]
        /\ \A i \in DOMAIN from : Joins(from, masked, f, i)
    BY JoinedRows
  <2> DEFINE e == [i \in DOMAIN from |->
                     IF f[i] = Null THEN Null ELSE CHOOSE r \in rows[i] : Hide(r) = f[i]]
  <2>2. ASSUME NEW i \in DOMAIN from
        PROVE  \/ f[i] = Null /\ e[i] = Null
               \/ f[i] \in masked[i] /\ e[i] \in rows[i] /\ Hide(e[i]) = f[i] /\ e[i] \in Row
    <3>1. f[i] \in masked[i] \/ f[i] = Null
      BY <2>1 DEF Joins
    <3>2. CASE f[i] = Null
      BY <3>2
    <3>3. CASE f[i] # Null
      <4>1. \E r \in rows[i] : Hide(r) = f[i]
        BY <3>1, <3>3
      <4>2. e[i] = CHOOSE r \in rows[i] : Hide(r) = f[i]
        BY <3>3
      <4> HIDE DEF e
      <4> QED
        BY <3>1, <3>3, <4>1, <4>2
    <3> QED
      BY <3>2, <3>3
  <2>3. e \in [DOMAIN from -> Row \cup {Null}]
    <3>1. e = [i \in DOMAIN from |-> e[i]]
      OBVIOUS
    <3> HIDE DEF e
    <3> QED
      BY <2>2, <3>1
  <2> HIDE DEF e
  <2>4. \A i \in DOMAIN from : f[i] = Hidden(e[i]) /\ e[i] \in Outer
    BY <2>2, <2>3, HideFacts DEF Hidden, Outer
  <2>5. HiddenJoin(e) = f
    BY <2>1, <2>3, <2>4 DEF HiddenJoin
  <2>6. ASSUME NEW i \in DOMAIN from PROVE Joins(from, rows, e, i)
    <3>1. /\ f[i] = Hidden(e[i]) /\ f[1] = Hidden(e[1]) /\ e[i] \in Outer /\ e[1] \in Outer
          /\ rows[i] \subseteq Row /\ masked[i] = {Hide(r) : r \in rows[i]}
      BY <2>4
    <3>2. f[i] \in masked[i] => e[i] \in rows[i] /\ e[i] \in Row
      BY <2>2, <3>1, HideFacts
    <3>3. f[1] = Null <=> e[1] = Null
      BY <3>1, HideFacts
    <3>4. CASE ~from[i].left
      BY <2>1, <3>2, <3>4 DEF Joins
    <3>5. CASE from[i].left /\ f[i] \in masked[i] /\ f[1] # Null /\ Match(f[1], f[i])
      <4>1. e[1] \in Row /\ e[i] \in Row
        BY <3>1, <3>2, <3>3, <3>5 DEF Outer
      <4> QED
        BY <3>1, <3>2, <3>3, <3>5, <4>1, MatchHidden DEF Joins
    <3>6. CASE from[i].left /\ f[i] = Null /\ \A s \in masked[i] : f[1] = Null \/ ~Match(f[1], s)
      <4>1. ASSUME NEW r \in rows[i], e[1] # Null PROVE ~Match(e[1], r)
        <5>1. r \in Row /\ e[1] \in Row /\ Hidden(r) \in masked[i]
          BY <3>1, <4>1, HideFacts DEF Outer
        <5> QED
          BY <3>1, <3>3, <3>6, <4>1, <5>1, MatchHidden
      <4> QED
        BY <3>1, <3>6, <4>1, HideFacts DEF Joins
    <3> QED
      BY <2>1, <3>4, <3>5, <3>6 DEF Joins
  <2> QED
    BY <2>3, <2>5, <2>6, JoinedRows
<1>5. ASSUME NEW e \in Joined(from, rows), NEW f \in Joined(from, rows), HiddenJoin(e) = HiddenJoin(f)
      PROVE  e = f
  <2>1. e \in [DOMAIN from -> Row \cup {Null}] /\ f \in [DOMAIN from -> Row \cup {Null}]
    BY JoinedRows
  <2>2. ASSUME NEW i \in DOMAIN from PROVE e[i] = f[i]
    <3>1. Hidden(e[i]) = Hidden(f[i]) /\ e[i] \in Outer /\ f[i] \in Outer
      BY <1>1, <1>5, <2>1
    <3>2. (e[i] = Null \/ e[i] \in rows[i]) /\ (f[i] = Null \/ f[i] \in rows[i])
      BY JoinedRows DEF Joins
    <3>3. e[i] = Null <=> f[i] = Null
      BY <3>1, HideFacts
    <3> QED
      BY <3>1, <3>2, <3>3 DEF Hidden, Apart
  <2> QED
    BY <2>1, <2>2
<1> QED
  BY <1>3, <1>4, <1>5

\* The conditions of an accepted SELECT, as written or as scoped.
Legible(n) ==
  \A a \in Conditions(n) :
    \/ a.op \in Ops \ {"forbidden", "using"} /\ (a.op = "match" => 2 \in DOMAIN n.from)
    \/ a.op \in {"own row", "own fk", "own team"} /\ a.src \in DOMAIN n.from

\* None of them sees the difference.
LEMMA HoldsHidden ==
  ASSUME NEW n, Sound(n), n.kind = "select", Legible(n), NEW a \in Conditions(n),
         NEW d, Stored(d), NEW G, NEW H, Masks(G, H, Below(n)), Typed(G, Below(n)),
         NEW o \in Outer, NEW e \in [DOMAIN n.from -> Row \cup {Null}]
  PROVE  Holds(G, a, d, e, o) <=> Holds(H, a, Masked(d), HiddenJoin(e), Hidden(o))
<1> DEFINE f == HiddenJoin(e)
<1>1. /\ \A k \in DOMAIN n.from : e[k] \in Outer /\ f[k] = Hidden(e[k])
      /\ 1 \in DOMAIN n.from
  BY DEF HiddenJoin, Outer, Sound
<1>2. \A x \in Outer : Hidden(x) = Null <=> x = Null
  BY HideFacts
<1> HIDE DEF f
<1>3. CASE a.op = "true"
  BY <1>3 DEF Holds
<1>4. CASE a.op = "match" /\ 2 \in DOMAIN n.from
  <2>1. e[1] # Null /\ e[2] # Null => (Match(f[1], f[2]) <=> Match(e[1], e[2]))
    BY <1>1, <1>4, MatchHidden DEF Outer
  <2> QED
    BY <1>1, <1>2, <1>4, <2>1 DEF Holds, f
<1>5. CASE a.op = "match outer"
  <2>1. e[1] # Null /\ o # Null => (Match(f[1], Hidden(o)) <=> Match(e[1], o))
    BY <1>1, MatchHidden DEF Outer
  <2> QED
    BY <1>1, <1>2, <1>5, <2>1 DEF Holds, f
<1>6. CASE a.op \in {"in", "exists", "not exists"}
  <2> DEFINE R == G[<<a.sub, e[1]>>]
             T == H[<<a.sub, f[1]>>]
  <2>1. T = {Hide(r) : r \in R} /\ R \subseteq Row
    <3>1. a.sub \in Below(n) /\ e[1] \in Outer /\ f[1] = Hidden(e[1])
      BY <1>1, <1>6, PartsBelow
    <3> QED
      BY <3>1 DEF Masks, Typed
  <2>2. e[1] # Null => f[1].id = e[1].id
    BY <1>1, HideFacts DEF Outer
  <2>3. (e[1] = Null <=> f[1] = Null) /\ \A r \in R : Hide(r).id = r.id
    BY <1>1, <1>2, <2>1, HideFacts
  <2> HIDE DEF R, T
  <2>4. (T = {} <=> R = {}) /\ (e[1] # Null => ((\E r \in T : r.id = f[1].id) <=> (\E r \in R : r.id = e[1].id)))
    BY <2>1, <2>2, <2>3
  <2> QED
    BY <1>6, <2>3, <2>4 DEF Holds, R, T, f
<1>7. CASE a.op \in {"own row", "own fk", "own team"} /\ a.src \in DOMAIN n.from
  <2>1. e[a.src] # Null => f[a.src].id = e[a.src].id /\ f[a.src].ref = e[a.src].ref
    <3>1. e[a.src] \in Outer /\ f[a.src] = Hidden(e[a.src])
      BY <1>1, <1>7
    <3> QED
      BY <3>1, HideFacts DEF Outer
  <2>2. TeamsOf(Masked(d), a.person) = TeamsOf(d, a.person)
    BY MaskedDatabase
  <2>3. PredicateHolds(a, e, d) <=> PredicateHolds(a, f, Masked(d))
    BY <1>1, <1>2, <1>7, <2>1, <2>2 DEF PredicateHolds
  <2> QED
    BY <1>7, <2>3 DEF Holds, f
<1> QED
  BY <1>3, <1>4, <1>5, <1>6, <1>7 DEF Legible, Ops

\* The sources of a query on the masked database.
LEMMA SourcesHidden ==
  ASSUME NEW n, Sound(n), NEW d, Stored(d), NEW o \in Outer,
         NEW G, NEW H, Masks(G, H, Below(n)), Typed(G, Below(n)), Typed(H, Below(n))
  PROVE  LET rows == SourceRows(n.from, DerivedRows(G, n, o), d)
             masked == SourceRows(n.from, DerivedRows(H, n, Hidden(o)), Masked(d))
         IN /\ rows \in [DOMAIN n.from -> SUBSET Row] /\ masked \in [DOMAIN n.from -> SUBSET Row]
            /\ \A k \in DOMAIN n.from :
                 masked[k] = {Hide(r) : r \in rows[k]} /\ Apart(rows[k])
<1> DEFINE rows == SourceRows(n.from, DerivedRows(G, n, o), d)
           masked == SourceRows(n.from, DerivedRows(H, n, Hidden(o)), Masked(d))
<1>1. /\ FiniteTables(d) /\ FiniteTables(Masked(d)) /\ Hidden(o) \in Outer
      /\ \A t \in Tables : Apart(d[t])
  BY MaskedDatabase, HideFacts
<1>2. rows \in [DOMAIN n.from -> SUBSET Row] /\ masked \in [DOMAIN n.from -> SUBSET Row]
  BY <1>1, SourcesTyped
<1>3. ASSUME NEW k \in DOMAIN n.from
      PROVE  masked[k] = {Hide(r) : r \in rows[k]} /\ Apart(rows[k])
  <2>1. CASE n.from[k].table = Derived
    <3>1. /\ rows[k] = G[<<n.from[k].sub, o>>]
          /\ masked[k] = H[<<n.from[k].sub, Hidden(o)>>]
      BY <2>1 DEF SourceRows, DerivedRows
    <3> HIDE DEF rows, masked
    <3> QED
      BY <2>1, <3>1, PartsBelow DEF Masks
  <2>2. CASE n.from[k].table # Derived
    <3>1. n.from[k].table \in Tables
      <4>1. n.from[k] \in Source
        BY DEF Sound
      <4> QED
        BY <2>2, <4>1 DEF Source
    <3>2. rows[k] = d[n.from[k].table] /\ masked[k] = Masked(d)[n.from[k].table]
      BY <2>2 DEF SourceRows
    <3> HIDE DEF rows, masked
    <3> QED
      BY <1>1, <3>1, <3>2 DEF Masked
  <2> QED
    BY <2>1, <2>2
<1> QED
  BY <1>2, <1>3

LEMMA FoundHidden ==
  ASSUME NEW n, Sound(n), n.kind = "select", Legible(n), NEW d, Stored(d), NEW o \in Outer,
         NEW G, NEW H, Masks(G, H, Below(n)), Typed(G, Below(n)), Typed(H, Below(n))
  PROVE  /\ Found(H, n, Masked(d), Hidden(o)) = {HiddenJoin(e) : e \in Found(G, n, d, o)}
         /\ \A e, f \in Found(G, n, d, o) : HiddenJoin(e) = HiddenJoin(f) => e = f
<1> DEFINE rows == SourceRows(n.from, DerivedRows(G, n, o), d)
           masked == SourceRows(n.from, DerivedRows(H, n, Hidden(o)), Masked(d))
           Passes(e) == \A clause \in n.where : \E a \in clause : Holds(G, a, d, e, o)
           PassesMasked(f) ==
             \A clause \in n.where : \E a \in clause : Holds(H, a, Masked(d), f, Hidden(o))
<1>1. /\ \A e \in Joined(n.from, rows) : HiddenJoin(e) \in Joined(n.from, masked)
      /\ \A f \in Joined(n.from, masked) : \E e \in Joined(n.from, rows) : HiddenJoin(e) = f
      /\ \A e, f \in Joined(n.from, rows) : HiddenJoin(e) = HiddenJoin(f) => e = f
  <2>1. 1 \in DOMAIN n.from
    BY DEF Sound
  <2>2. /\ rows \in [DOMAIN n.from -> SUBSET Row] /\ masked \in [DOMAIN n.from -> SUBSET Row]
        /\ \A k \in DOMAIN n.from : masked[k] = {Hide(r) : r \in rows[k]} /\ Apart(rows[k])
    BY SourcesHidden
  <2> HIDE DEF rows, masked
  <2> QED
    BY <2>1, <2>2, JoinedHidden
<1>2. ASSUME NEW e \in Joined(n.from, rows) PROVE Passes(e) <=> PassesMasked(HiddenJoin(e))
  <2>1. e \in [DOMAIN n.from -> Row \cup {Null}]
    BY MaskedDatabase, SourcesTyped
  <2>2. \A clause \in n.where : \A a \in clause :
          Holds(G, a, d, e, o) <=> Holds(H, a, Masked(d), HiddenJoin(e), Hidden(o))
    BY <2>1, HoldsHidden DEF Conditions
  <2> QED
    BY <2>2
<1>3. /\ Found(G, n, d, o) = {e \in Joined(n.from, rows) : Passes(e)}
      /\ Found(H, n, Masked(d), Hidden(o)) = {f \in Joined(n.from, masked) : PassesMasked(f)}
  BY DEF Found
<1> HIDE DEF rows, masked, Passes, PassesMasked
<1> QED
  BY <1>1, <1>2, <1>3

\* What a query returns on the masked database; the operands of a combination
\* are compared as they are.
LEMMA RowsHidden ==
  ASSUME NEW n, Sound(n), n.kind = "select" => Legible(n), NEW d, Stored(d), NEW o \in Outer,
         NEW G, NEW H, Masks(G, H, Below(n)), Typed(G, Below(n)), Typed(H, Below(n)),
         n.kind # "select" => Bare(G, Below(n))
  PROVE  /\ Rows(H, n, Masked(d), Hidden(o)) = {Hide(r) : r \in Rows(G, n, d, o)}
         /\ Apart(Rows(G, n, d, o))
<1>1. CASE n.kind = "select" /\ n.item = "count"
  <2> DEFINE found == Found(G, n, d, o)
             masked == Found(H, n, Masked(d), Hidden(o))
             row == [id |-> Cardinality(found), ref |-> 0, secret |-> 0]
  <2>1. /\ masked = {HiddenJoin(e) : e \in found}
        /\ \A e, f \in found : HiddenJoin(e) = HiddenJoin(f) => e = f
    BY <1>1, FoundHidden
  <2>2. IsFiniteSet(found)
    <3>1. IsFiniteSet(Joined(n.from, SourceRows(n.from, DerivedRows(G, n, o), d)))
      BY MaskedDatabase, SourcesTyped, FiniteJoined DEF Sound
    <3>2. found \subseteq Joined(n.from, SourceRows(n.from, DerivedRows(G, n, o), d))
      BY DEF Found
    <3> QED
      BY <3>1, <3>2, FS_Subset
  <2>3. Cardinality(masked) = Cardinality(found)
    <3> DEFINE f == [e \in found |-> HiddenJoin(e)]
    <3> HIDE DEF found, masked
    <3>1. f \in Bijection(found, masked)
      BY <2>1 DEF Bijection, Injection, IsInjective, Surjection
    <3> HIDE DEF f
    <3> QED
      BY <2>2, <3>1, FS_Bijection DEF ExistsBijection
  <2>4. /\ Rows(G, n, d, o) = {row}
        /\ Rows(H, n, Masked(d), Hidden(o)) = {row}
    BY <1>1, <2>3 DEF Rows, Combinations
  <2>5. Cardinality(found) \in Nat
    BY <2>2, FS_CardinalityType
  <2>6. row \in Row /\ row.secret = 0
    <3> HIDE DEF found
    <3> QED
      BY <2>5 DEF Row
  <2>7. Hide(row) = row
    <3> HIDE DEF row
    <3> QED
      BY <2>6, HideFacts
  <2> HIDE DEF row
  <2> QED
    BY <2>4, <2>6, <2>7 DEF Apart
<1>2. CASE n.kind = "select" /\ n.item # "count"
  <2> DEFINE found == Found(G, n, d, o)
             masked == Found(H, n, Masked(d), Hidden(o))
             rows == SourceRows(n.from, DerivedRows(G, n, o), d)
             none == [id |-> 0, ref |-> 0, secret |-> 0]
  <2>1. masked = {HiddenJoin(e) : e \in found}
    BY <1>2, FoundHidden
  <2>2. ASSUME NEW e \in found
        PROVE  /\ e[n.of] = Null \/ e[n.of] \in rows[n.of]
               /\ HiddenJoin(e)[n.of] = Hidden(e[n.of])
    <3>1. n.of \in DOMAIN n.from /\ e \in Joined(n.from, rows)
      BY <1>2 DEF Sound, Found
    <3>2. rows \in [DOMAIN n.from -> SUBSET Row]
      BY MaskedDatabase, SourcesTyped
    <3> HIDE DEF rows
    <3> QED
      BY <3>1, <3>2, JoinedRows DEF Joins, HiddenJoin
  <2>3. rows[n.of] \subseteq Row /\ Apart(rows[n.of])
    BY <1>2, SourcesHidden DEF Sound
  <2>4. none \in Row /\ none.id = 0 /\ none.secret = 0 /\ none.ref = 0 /\ Hide(none) = none
    BY HideFacts DEF Row
  <2>5. ASSUME NEW x, x = Null \/ x \in rows[n.of]
        PROVE  /\ Out(x) \in {none} \cup rows[n.of]
               /\ Out(Hidden(x)) = Hide(Out(x))
    <3>1. CASE x = Null
      BY <2>4, <3>1 DEF Out, Hidden
    <3>2. CASE x # Null
      <4>1. x \in Row /\ Hidden(x) # Null /\ Hidden(x) = Hide(x)
        BY <2>3, <2>5, <3>2, HideFacts
      <4> QED
        BY <2>5, <3>2, <4>1 DEF Out
    <3> QED
      BY <3>1, <3>2
  <2>6. /\ Rows(G, n, d, o) = {Project(n.item, e[n.of]) : e \in found}
        /\ Rows(H, n, Masked(d), Hidden(o)) = {Project(n.item, f[n.of]) : f \in masked}
    BY <1>2 DEF Rows
  <2> HIDE DEF found, masked, rows, none
  <2>7. Rows(H, n, Masked(d), Hidden(o)) = {Project(n.item, Hidden(e[n.of])) : e \in found}
    BY <2>1, <2>2, <2>6
  <2>8. Apart({none} \cup rows[n.of]) /\ {none} \cup rows[n.of] \subseteq Row
    <3>1. \A r \in rows[n.of] : Hide(r).id = r.id /\ (r.secret = 0 => Hide(r) = r)
      BY <2>3, HideFacts
    <3> QED
      BY <2>3, <2>4, <3>1 DEF Apart
  <2>9. ASSUME NEW e \in found
        PROVE  Project(n.item, Hidden(e[n.of])) = Hide(Project(n.item, e[n.of]))
    BY <2>2, <2>5 DEF Project
  <2>10. Rows(H, n, Masked(d), Hidden(o)) = {Hide(r) : r \in Rows(G, n, d, o)}
    BY <2>6, <2>7, <2>9
  <2>11. CASE n.item = "columns"
    <3>1. ASSUME NEW r \in Rows(G, n, d, o) PROVE r.secret = 0 /\ Hide(r) = r
      <4>1. PICK e \in found : r = Hide(Out(e[n.of]))
        BY <2>6, <2>11 DEF Project
      <4>2. Out(e[n.of]) \in Row
        BY <2>2, <2>5, <2>8
      <4> QED
        BY <4>1, <4>2, HideFacts
    <3> QED
      BY <2>10, <3>1 DEF Apart
  <2>12. CASE n.item # "columns"
    <3>1. Rows(G, n, d, o) \subseteq {none} \cup rows[n.of]
      BY <2>2, <2>5, <2>6, <2>12 DEF Project
    <3> QED
      BY <2>8, <2>10, <3>1 DEF Apart
  <2> QED
    BY <2>11, <2>12
<1>3. CASE n.kind # "select"
  <2> DEFINE A == G[<<n.parts[1], o>>]
             B == G[<<n.parts[2], o>>]
  <2>1. /\ A \subseteq Row /\ B \subseteq Row /\ \A r \in A \cup B : r.secret = 0
        /\ H[<<n.parts[1], Hidden(o)>>] = {Hide(r) : r \in A}
        /\ H[<<n.parts[2], Hidden(o)>>] = {Hide(r) : r \in B}
    BY <1>3, PartsBelow DEF Masks, Typed, Bare
  <2>2. \A r \in A \cup B : Hide(r) = r
    BY <2>1, HideFacts
  <2> HIDE DEF A, B
  <2>3. H[<<n.parts[1], Hidden(o)>>] = A /\ H[<<n.parts[2], Hidden(o)>>] = B
    BY <2>1, <2>2
  <2>4. /\ Rows(H, n, Masked(d), Hidden(o)) = Rows(G, n, d, o)
        /\ Rows(G, n, d, o) \subseteq A \cup B
    BY <1>3, <2>3 DEF Rows, Sound, Combinations, A, B
  <2> QED
    BY <2>1, <2>2, <2>4 DEF Apart
<1> QED
  BY <1>1, <1>2, <1>3

\* Which queries return no forbidden column.
LEMMA RowsBare ==
  ASSUME NEW n, Sound(n), NEW d, FiniteTables(d), NEW o \in Outer, NEW G, Typed(G, Below(n)),
         \/ n.kind # "select" /\ Bare(G, Below(n))
         \/ n.kind = "select" /\ n.item \in {"columns", "count"}
         \/ n.kind = "select" /\ n.from[n.of].table = Derived /\ Bare(G, {n.from[n.of].sub})
  PROVE  \A r \in Rows(G, n, d, o) : r.secret = 0
<1> DEFINE found == Found(G, n, d, o)
           rows == SourceRows(n.from, DerivedRows(G, n, o), d)
<1>1. CASE n.kind # "select" /\ Bare(G, Below(n))
  BY <1>1, PartsBelow DEF Rows, Bare, Sound, Combinations
<1>2. CASE n.kind = "select" /\ n.item = "count"
  <2>1. Rows(G, n, d, o) = {[id |-> Cardinality(found), ref |-> 0, secret |-> 0]}
    BY <1>2 DEF Rows
  <2> HIDE DEF found
  <2> QED
    BY <2>1
<1>3. ASSUME n.kind = "select", n.item # "count"
      PROVE  /\ Rows(G, n, d, o) = {Project(n.item, e[n.of]) : e \in found}
             /\ \A e \in found : (e[n.of] = Null \/ e[n.of] \in rows[n.of]) /\ rows[n.of] \subseteq Row
  <2>1. n.of \in DOMAIN n.from /\ rows \in [DOMAIN n.from -> SUBSET Row]
    BY <1>3, SourcesTyped DEF Sound
  <2>2. \A e \in found : e \in Joined(n.from, rows)
    BY DEF Found
  <2>3. Rows(G, n, d, o) = {Project(n.item, e[n.of]) : e \in found}
    BY <1>3 DEF Rows
  <2> HIDE DEF found, rows
  <2> QED
    BY <2>1, <2>2, <2>3, JoinedRows DEF Joins
<1>4. \A x : x = Null => Out(x).secret = 0 /\ Out(x) \in Row
  BY DEF Out, Row
<1>5. CASE n.kind = "select" /\ n.item = "columns"
  <2>1. \A e \in found : Out(e[n.of]) \in Row
    BY <1>3, <1>4, <1>5 DEF Out
  <2> HIDE DEF found
  <2> QED
    BY <1>3, <1>5, <2>1, HideFacts DEF Project
<1>6. CASE n.kind = "select" /\ n.item \notin {"columns", "count"}
            /\ n.from[n.of].table = Derived /\ Bare(G, {n.from[n.of].sub})
  <2>1. rows[n.of] = G[<<n.from[n.of].sub, o>>]
    BY <1>6 DEF SourceRows, DerivedRows, Sound
  <2>2. \A r \in rows[n.of] : r.secret = 0
    BY <1>6, <2>1 DEF Bare
  <2> HIDE DEF found, rows
  <2>3. \A e \in found : Out(e[n.of]).secret = 0
    BY <1>3, <1>4, <1>6, <2>2 DEF Out
  <2> QED
    BY <1>3, <1>6, <2>3 DEF Project
<1> QED
  BY <1>1, <1>2, <1>5, <1>6

\* A subquery in FROM stands below an EXISTS only if its query does.
LEMMA NotUnderExists ==
  ASSUME NEW q, WellFormed(q), NEW j \in DOMAIN q, ~UnderExists(q, j), NEW k \in DerivedTables(q[j])
  PROVE  ~UnderExists(q, k)
<1>1. PICK S \in SUBSET DOMAIN q :
        /\ \A i \in DOMAIN q : ExistsSubqueries(q[i]) \subseteq S
        /\ \A i \in S : Below(q[i]) \subseteq S
        /\ j \notin S
  BY DEF UnderExists
<1> DEFINE T == S \ {k}
<1>2. \A i \in DOMAIN q : k \in Below(q[i]) => i = j
  BY DEF WellFormed, Below
<1>3. k \notin ExistsSubqueries(q[j])
  BY DEF WellFormed
<1>4. \A i \in DOMAIN q : ExistsSubqueries(q[i]) \subseteq Below(q[i])
  BY DEF ExistsSubqueries, Subqueries, Below
<1>5. \A i \in DOMAIN q : ExistsSubqueries(q[i]) \subseteq T
  BY <1>1, <1>2, <1>3, <1>4
<1>6. \A i \in T : Below(q[i]) \subseteq T
  BY <1>1, <1>2
<1> HIDE DEF T
<1>7. T \in SUBSET DOMAIN q /\ k \notin T
  BY DEF T
<1> QED
  BY <1>5, <1>6, <1>7 DEF UnderExists

\* r has the queries of q, but for readable further conjuncts.
Mirrors(r, q) ==
  /\ Ordered(r) /\ DOMAIN r = DOMAIN q
  /\ \A i \in DOMAIN q :
       /\ r[i].kind = q[i].kind /\ r[i].from = q[i].from
       /\ r[i].item = q[i].item /\ r[i].of = q[i].of
       /\ Below(r[i]) = Below(q[i])
       /\ q[i].kind = "select" => Legible(r[i])

\* What stands in a statement that names its columns is seen.
LEMMA ForbiddenSeen ==
  ASSUME NEW q, WellFormed(q), Readable(q), NamesColumns(q), NEW i \in DOMAIN q
  PROVE  /\ \A a \in Conditions(q[i]) : a.op \notin {"forbidden", "using"}
         /\ q[i].kind = "select" => q[i].item # "forbidden"
<1> DEFINE n == q[i]
<1>1. n \in Query /\ n.from \in Seq(Source)
  BY WellFormedOrdered DEF Query
<1>2. \A k \in DOMAIN n.from : ~n.from[k].renamed
  BY DEF NamesColumns, NamesKept
<1>3. ASSUME NEW a \in Conditions(n), a.op = "forbidden" PROVE FALSE
  <2>1. n.kind = "select" /\ 1 \in DOMAIN n.from
    <3>1. n.kind = "select" /\ n.of \in DOMAIN n.from
      BY <1>3 DEF WellFormed, Conditions
    <3> QED
      BY <1>1, <3>1
  <2> QED
    BY <1>2, <1>3, <2>1 DEF Readable
<1>4. n.kind = "select" => n.of \in DOMAIN n.from
  BY DEF WellFormed
<1>5. n.kind = "select" => n.item # "forbidden"
  BY <1>2, <1>4 DEF Readable
<1> QED
  BY <1>3, <1>5 DEF NamesColumns

LEMMA ReadableMirrors ==
  ASSUME NEW q, WellFormed(q), Readable(q), NamesColumns(q), NEW p
  PROVE  Mirrors(q, q) /\ Mirrors(Scoped(q, p), q)
<1>1. Ordered(q) /\ \A i \in DOMAIN q : q[i] \in Query
  BY WellFormedOrdered
<1>2. ASSUME NEW i \in DOMAIN q PROVE Legible(q[i])
  <2>1. ASSUME NEW a \in Conditions(q[i]) PROVE a.op \in Ops \ {"forbidden", "using"}
    BY <1>1, ConditionOps, ForbiddenSeen
  <2>2. ASSUME NEW a \in Conditions(q[i]), a.op = "match" PROVE 2 \in DOMAIN q[i].from
    <3>1. Len(q[i].from) >= 2 /\ q[i].from \in Seq(Source)
      BY <1>1, <2>2 DEF WellFormed, Query
    <3> QED
      BY <3>1
  <2> QED
    BY <2>1, <2>2 DEF Legible
<1>3. ASSUME NEW i \in DOMAIN q, q[i].kind = "select" PROVE Legible(Guarded(q[i], p))
  <2> DEFINE g == Guarded(q[i], p)
  <2>1. /\ g["from"] = q[i]["from"]
        /\ g.where = q[i].where \cup {{a} : a \in Predicates(q[i].from, p)}
    BY <1>1, GuardedQuery
  <2> HIDE DEF g
  <2>2. \A a : a \in Conditions(g) => a \in Conditions(q[i]) \/ a \in Predicates(q[i].from, p)
    BY <2>1 DEF Conditions
  <2>3. \A a \in Predicates(q[i].from, p) :
          a.op \in {"own row", "own fk", "own team"} /\ a.src \in DOMAIN q[i].from
    BY PredicateOps, PredicateShape
  <2> QED
    BY <1>2, <2>1, <2>2, <2>3 DEF Legible, g
<1>4. Mirrors(q, q)
  BY <1>1, <1>2 DEF Mirrors
<1>5. Mirrors(Scoped(q, p), q)
  <2> DEFINE s == Scoped(q, p)
  <2>1. /\ Ordered(s) /\ DOMAIN s = DOMAIN q
        /\ \A i \in DOMAIN q : /\ q[i].kind = "select" => s[i] = Guarded(q[i], p)
                               /\ q[i].kind # "select" => s[i] = q[i]
                               /\ Below(s[i]) = Below(q[i])
    BY ScopedQueries
  <2>2. ASSUME NEW i \in DOMAIN q
        PROVE  /\ Guarded(q[i], p).kind = q[i].kind /\ Guarded(q[i], p).from = q[i].from
               /\ Guarded(q[i], p).item = q[i].item /\ Guarded(q[i], p).of = q[i].of
    BY <1>1 DEF Guarded, Query
  <2> HIDE DEF s
  <2> QED
    BY <1>3, <2>1, <2>2 DEF Mirrors, s
<1> QED
  BY <1>4, <1>5

\* From the innermost queries outwards: the whole statement on the masked database.
\* Only below an EXISTS does a query return a forbidden column, and never to a
\* combination.
LEMMA ResultsHidden ==
  ASSUME NEW q, WellFormed(q), Readable(q), NamesColumns(q),
         \A i \in DOMAIN q : \A k \in Parts(q[i]) :
           q[k].kind = "select" /\ UnderExists(q, k) => q[k].item \in {"columns", "count"},
         NEW r, Mirrors(r, q), NEW d, Stored(d)
  PROVE  /\ Masks(Results(r, d), Results(r, Masked(d)), DOMAIN q)
         /\ \A i \in DOMAIN q : ~UnderExists(q, i) => Bare(Results(r, d), {i})
<1> DEFINE G == Results(r, d)
           H == Results(r, Masked(d))
           Plain(i) == \/ ~UnderExists(q, i) \/ q[i].kind # "select"
                       \/ q[i].item \in {"columns", "count"}
           S == {i \in DOMAIN q : Masks(G, H, {i}) /\ (Plain(i) => Bare(G, {i}))}
<1>1. /\ Ordered(r) /\ DOMAIN r = DOMAIN q /\ FiniteTables(d) /\ FiniteTables(Masked(d))
      /\ \A i \in DOMAIN q : Sound(r[i]) /\ Below(q[i]) \subseteq DOMAIN q
  BY MaskedDatabase DEF Mirrors, Ordered
<1>2. /\ \A i \in DOMAIN q : Typed(G, Below(q[i])) /\ Typed(H, Below(q[i]))
      /\ \A i \in DOMAIN q, o \in Outer :
           /\ G[<<i, o>>] = Rows(G, r[i], d, o)
           /\ H[<<i, Hidden(o)>>] = Rows(H, r[i], Masked(d), Hidden(o))
  <2>1. Typed(G, DOMAIN q) /\ Typed(H, DOMAIN q)
    BY <1>1, ResultsTyped
  <2>2. \A i \in DOMAIN q, o \in Outer :
          /\ G[<<i, o>>] = Rows(G, r[i], d, o)
          /\ H[<<i, o>>] = Rows(H, r[i], Masked(d), o)
    BY <1>1, ResultsSolve
  <2> HIDE DEF G, H
  <2> QED
    BY <1>1, <2>1, <2>2, HideFacts DEF Typed
<1> HIDE DEF G, H
<1>3. ASSUME NEW i \in DOMAIN q, {k \in DOMAIN q : k > i} \subseteq S PROVE i \in S
  <2> DEFINE n == r[i]
  <2>1. /\ Sound(n) /\ Below(n) = Below(q[i]) /\ n.kind = q[i].kind /\ n.from = q[i].from
        /\ n.item = q[i].item /\ n.of = q[i].of /\ (n.kind = "select" => Legible(n))
    BY <1>1 DEF Mirrors
  <2>2. Below(q[i]) \subseteq S
    BY <1>3 DEF WellFormed
  <2>3. Typed(G, Below(n)) /\ Typed(H, Below(n)) /\ Masks(G, H, Below(n))
    BY <1>2, <2>1, <2>2 DEF Masks
  <2>4. ASSUME n.kind # "select" PROVE Bare(G, Below(n))
    <3>1. Below(q[i]) = Parts(q[i])
      <4>1. q[i].from = <<>> /\ q[i].where = {}
        BY <2>1, <2>4 DEF WellFormed
      <4>2. DerivedTables(q[i]) = {} /\ Subqueries(q[i]) = {}
        BY <4>1 DEF DerivedTables, Subqueries, Conditions
      <4> QED
        BY <4>2 DEF Below
    <3>2. \A k \in Parts(q[i]) : Plain(k)
      OBVIOUS
    <3> HIDE DEF Plain
    <3> QED
      BY <2>1, <2>2, <3>1, <3>2 DEF Bare
  <2>5. ASSUME NEW o \in Outer
        PROVE  H[<<i, Hidden(o)>>] = {Hide(x) : x \in G[<<i, o>>]} /\ Apart(G[<<i, o>>])
    <3>1. /\ Rows(H, n, Masked(d), Hidden(o)) = {Hide(x) : x \in Rows(G, n, d, o)}
          /\ Apart(Rows(G, n, d, o))
      <4> HIDE DEF n
      <4> QED
        BY <2>1, <2>3, <2>4, RowsHidden
    <3> QED
      BY <1>2, <3>1
  <2>6. ASSUME Plain(i) PROVE Bare(G, {i})
    <3>1. \/ n.kind # "select" /\ Bare(G, Below(n))
          \/ n.kind = "select" /\ n.item \in {"columns", "count"}
          \/ n.kind = "select" /\ n.from[n.of].table = Derived /\ Bare(G, {n.from[n.of].sub})
      <4>1. CASE n.kind = "select" /\ n.item \notin {"columns", "count"}
        <5>1. ~UnderExists(q, i)
          BY <2>1, <2>6, <4>1
        <5>2. n.item = "whole row"
          <6>0. q[i].kind = "select" => q[i].item # "forbidden"
            BY ForbiddenSeen
          <6>1. q[i].item \in Items /\ q[i].item # "forbidden" /\ q[i].item # "star"
            BY <2>1, <4>1, <5>1, <6>0, WellFormedOrdered DEF Readable, StarAllowed, Query
          <6> QED
            BY <2>1, <4>1, <6>1 DEF Items
        <5>3. n.from[n.of].table = Derived /\ n.of \in DOMAIN n.from
          BY <2>1, <4>1, <5>2 DEF Readable, Sound
        <5>4. n.from[n.of].sub \in DerivedTables(q[i])
          BY <2>1, <5>3 DEF DerivedTables
        <5>5. ~UnderExists(q, n.from[n.of].sub) /\ n.from[n.of].sub \in S
          BY <2>2, <5>1, <5>4, NotUnderExists DEF Below
        <5> QED
          BY <4>1, <5>3, <5>5
      <4> QED
        BY <2>4, <4>1
    <3>2. \A o \in Outer : \A x \in Rows(G, n, d, o) : x.secret = 0
      <4> HIDE DEF n
      <4> QED
        BY <1>1, <2>1, <2>3, <3>1, RowsBare
    <3> QED
      BY <1>2, <3>2 DEF Bare
  <2> HIDE DEF Plain
  <2> QED
    BY <2>5, <2>6 DEF Masks
<1>4. PICK N \in Nat : DOMAIN q = 1..N
  BY WellFormedOrdered DEF Ordered
<1>5. DOMAIN q \subseteq S
  <2> HIDE DEF S
  <2> QED
    BY <1>3, <1>4, Downwards
<1>6. Masks(G, H, DOMAIN q)
  BY <1>5 DEF Masks
<1> QED
  BY <1>5, <1>6 DEF G, H

\* The statement itself does not stand below an EXISTS.
LEMMA FirstNotUnderExists ==
  ASSUME NEW q, WellFormed(q)
  PROVE  ~UnderExists(q, 1)
<1> DEFINE T == (DOMAIN q) \ {1}
<1>1. PICK N \in Nat : DOMAIN q = 1..N
  BY WellFormedOrdered DEF Ordered
<1>2. \A i \in DOMAIN q : Below(q[i]) \subseteq T /\ ExistsSubqueries(q[i]) \subseteq Below(q[i])
  <2>1. \A i \in DOMAIN q : ExistsSubqueries(q[i]) \subseteq Below(q[i])
    BY DEF ExistsSubqueries, Subqueries, Below
  <2>2. \A i \in DOMAIN q : Below(q[i]) \subseteq {k \in DOMAIN q : k > i}
    BY DEF WellFormed
  <2>3. \A i, k \in DOMAIN q : k > i => k # 1
    BY <1>1
  <2> QED
    BY <2>1, <2>2, <2>3
<1>3. T \in SUBSET DOMAIN q /\ 1 \notin T
  OBVIOUS
<1> HIDE DEF T
<1> QED
  BY <1>2, <1>3 DEF UnderExists

\* The answer to a statement that names the columns it reads, by their own names,
\* depends on no forbidden one, restricted requester or not: filtering on one is refused,
\* and what a wildcard below an EXISTS reads never gets out unless it is an operand of a
\* combination (core/rbac/sql_guard.py:266-300).  Without these premises the formula is
\* false of the code, as NobodyReadsForbidden is.
THEOREM ForbiddenColumnsUnread == Spec => []ForbiddenStaysHidden
<1>1. StatementInv => ForbiddenStaysHidden
  <2> SUFFICES ASSUME StatementInv, Answered, OperandsListColumns, NamesColumns(statement)
               PROVE  answer = Answer(Rewrite(statement), Masked(db))
    BY DEF ForbiddenStaysHidden
  <2> DEFINE q == statement
             r == Rewrite(q)
             G == Results(r, db)
             H == Results(r, Masked(db))
  <2>1. WellFormed(q) /\ Readable(q) /\ Stored(db)
    BY StatementsAssumption, DatabasesAssumption DEF StatementInv, Accepted
  <2>2. Mirrors(r, q)
    BY <2>1, ReadableMirrors DEF Rewrite
  <2>3. Masks(G, H, DOMAIN q) /\ Bare(G, {1})
    BY <2>1, <2>2, ResultsHidden, FirstNotUnderExists, FirstQuery DEF OperandsListColumns
  <2>4. 1 \in DOMAIN q /\ Null \in Outer /\ Hidden(Null) = Null
    BY <2>1, FirstQuery DEF Hidden
  <2>5. G[<<1, Null>>] \subseteq Row
    <3>1. Ordered(r) /\ DOMAIN r = DOMAIN q /\ FiniteTables(db)
      BY <2>1, <2>2, MaskedDatabase DEF Mirrors
    <3> QED
      BY <2>4, <3>1, ResultsTyped DEF Typed
  <2> HIDE DEF G, H
  <2>6. H[<<1, Null>>] = {Hide(x) : x \in G[<<1, Null>>]}
    BY <2>3, <2>4 DEF Masks
  <2>7. \A x \in G[<<1, Null>>] : Hide(x) = x
    BY <2>3, <2>4, <2>5, HideFacts DEF Bare
  <2>8. H[<<1, Null>>] = G[<<1, Null>>]
    BY <2>6, <2>7
  <2> QED
    BY <2>8 DEF StatementInv, Answer, G, H
<1> QED
  BY <1>1, StatementInvariant, PTL
=============================================================================
