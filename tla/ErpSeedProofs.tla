--------------------------- MODULE ErpSeedProofs ---------------------------
(***************************************************************************)
(* Theorems about ErpSeed, for any grain of the random numbers: every life *)
(* the script can write for a person is in order.  The invariant says what *)
(* holds of each part of it from the step on that writes it.               *)
(***************************************************************************)
EXTENDS ErpSeed, TLAPS

Early == {"idle", "drop", "create", "lookups", "people"}

\* Who has left has been there for half a year at least; moving the joining date back takes
\* it further from the confirmation.
PersonInOrder(p) ==
  /\ p \in Person
  /\ p.left # None => p.left \in Int /\ p.joined + 180 <= p.left /\ p.left <= Today - 30
  /\ p.confirmed # None => /\ p.confirmed \in Int
                           /\ p.joined + 90 <= p.confirmed /\ p.confirmed <= Today
                           /\ p.left = None => p.confirmed <= p.joined + 180

\* What seed_person_teams writes, and so on.
TeamsInOrder(p, teams) ==
  \A i \in DOMAIN teams : /\ p.joined < teams[i].from
                          /\ p.left # None => teams[i].from < teams[i].to
LeaveInOrder(p, leave) ==
  leave # None => /\ p.joined < leave.from /\ leave.from <= leave.to
                  /\ leave.to <= (IF p.left = None THEN Today ELSE p.left)
                  /\ leave.taken => leave.to < Today
FiledInOrder(p, filed) ==
  p.left # None => p.joined < filed /\ filed < p.left

WeekAddsUp ==
  life.week # None =>
    LET s == life.week.shares
    IN life.week.hours = s[1] + (IF Len(s) = 2 THEN s[2] ELSE 0)

LifeInOrder ==
  /\ at \in Early => life = Nobody
  /\ at \notin Early => PersonInOrder(life.person)
  /\ at \notin Early \cup {"teams"} => Len(life.teams) \in {1, 2}
  /\ TeamsInOrder(life.person, life.teams)
  /\ LeaveInOrder(life.person, life.leave)
  /\ WeekAddsUp
  /\ at \in {"statuses", "commit"} => FiledInOrder(life.person, life.filed)
  /\ at = "commit" => life.stints = Stints

Whole(c) ==
  /\ c.copies \in {0, 1} /\ (c.people <=> c.copies = 1)
  /\ c.tables \in {{}, AllTables} /\ (c.copies = 1 => c.tables = AllTables)

\* What the transaction has seeded is a whole database but for the steps that make the
\* lookup rows and the people; a second seeding is bound to meet the people of the first.
SeedInOrder ==
  /\ Whole(db) /\ (last = "refused" => db.people)
  /\ at \notin {"people"} => Whole(work)
  /\ at \in Early => (work.people => db.people)
  /\ at \notin {"idle", "drop", "create"} => work.tables = AllTables
  /\ at = "people" => work.copies \in {1, 2} /\ (work.people <=> work.copies = 2)
  /\ at \notin Early => work.copies = 1

Inv == TypeOK /\ LifeInOrder /\ SeedInOrder

----------------------------------------------------------------------------
(* What the draws yield.                                                   *)

LEMMA Drawn ==
  ASSUME NEW lo \in Int, NEW hi \in Int, NEW n \in Draw(lo, hi)
  PROVE  n \in Int /\ lo <= n /\ n <= hi
BY DEF Draw

\* Whoever is made to leave joined half a year before.
LEMMA ExitsLate ==
  ASSUME NEW j \in Int, NEW e \in Exits(j) \cup Stays(j)
  PROVE  /\ e.joined \in Int /\ e.joined <= j
         /\ e.left = None => e.joined = j
         /\ e.left # None => e.left \in Int /\ e.joined + 180 <= e.left /\ e.left <= Today - 30
         /\ e.left \in Days
<1> USE DEF Today, Days
<1>1. CASE e \in Stays(j)
  BY <1>1 DEF Stays
<1>2. CASE e \in Exits(j)
  <2> DEFINE S == IF j + 180 < Today - 30 THEN {j} ELSE Draw((Today - 30) - 730, (Today - 30) - 270)
  <2>1. PICK i \in S : e \in [joined : {i}, left : Draw(i + 180, Today - 30)]
    <3>1. Exits(j) = UNION {[joined : {i}, left : Draw(i + 180, Today - 30)] : i \in S}
      BY DEF Exits
    <3> HIDE DEF S
    <3> QED
      BY <1>2, <3>1
  <2>2. i \in Int
    BY <2>1, Drawn
  <2>3. e.joined = i /\ e.left \in Draw(i + 180, Today - 30)
    BY <2>1
  <2>4. i <= j
    BY <2>1, Drawn
  <2>5. e.left \in Int
    BY <2>2, <2>3, Drawn
  <2>6. e.left # None
    BY <2>5, SeedAssumption
  <2> QED
    BY <2>2, <2>3, <2>4, <2>5, <2>6, Drawn
<1> QED
  BY <1>1, <1>2

LEMMA JoinDatesTyped ==
  ASSUME NEW y \in Int, NEW j \in JoinDates(y)
  PROVE  j \in Int
<1>1. FirstOfYear(y) \in Int /\ FirstOfYear(y + 1) \in Int
  BY DEF FirstOfYear
<1>2. PICK d \in Draw(FirstOfYear(y), FirstOfYear(y + 1) - 1) :
        j \in IF d > Today THEN Draw(Today - 30, Today - 1) ELSE {d}
  BY DEF JoinDates
<1> QED
  BY <1>1, <1>2, Drawn DEF Today

LEMMA PeopleInOrder ==
  ASSUME NEW p \in People
  PROVE  PersonInOrder(p)
<1>1. PICK j \in UNION {JoinDates(y) : y \in 2019..2025}, t \in Types :
        p \in {[joined |-> e.joined, left |-> e.left, type |-> t, confirmed |-> d] :
                 e \in Exits(j) \cup Stays(j), d \in Confirmations(j, t)}
  BY DEF People
<1>2. PICK e \in Exits(j) \cup Stays(j), d \in Confirmations(j, t) :
        p = [joined |-> e.joined, left |-> e.left, type |-> t, confirmed |-> d]
  BY <1>1
<1>3. j \in Int
  BY <1>1, JoinDatesTyped
<1>4. d # None => d \in Int /\ d <= Today /\ j + 90 <= d /\ d <= j + 180
  <2>1. CASE t # "full"
    BY <2>1, <1>2 DEF Confirmations
  <2>2. CASE t = "full"
    <3>1. PICK c \in Draw(j + 90, j + 180) : d = IF c > Today THEN None ELSE c
      BY <1>2, <2>2 DEF Confirmations
    <3>2. c \in Int /\ j + 90 <= c /\ c <= j + 180
      BY <1>3, Drawn
    <3> QED
      BY <3>1, <3>2 DEF Today
  <2> QED
    BY <2>1, <2>2
<1>5. /\ e.joined \in Int /\ e.left \in Days /\ e.joined <= j
      /\ e.left = None => e.joined = j
      /\ e.left # None => e.left \in Int /\ e.joined + 180 <= e.left /\ e.left <= Today - 30
  BY <1>2, <1>3, ExitsLate
<1> QED
  <2>1. p.joined = e.joined /\ p.left = e.left /\ p.confirmed = d
    BY <1>2
  <2>2. p \in Person
    BY <1>1, <1>2, <1>4, <1>5 DEF Person, Days
  <2>3. d # None => e.joined + 90 <= d /\ (e.left = None => d <= e.joined + 180)
    BY <1>3, <1>4, <1>5
  <2> QED
    BY <1>4, <1>5, <2>1, <2>2, <2>3 DEF PersonInOrder

LEMMA AssignmentsInOrder ==
  ASSUME PersonInOrder(P), NEW teams \in Assignments
  PROVE  teams \in Seq(Stint) /\ Len(teams) \in {1, 2} /\ TeamsInOrder(P, teams)
<1> USE DEF PersonInOrder, Person, Stint, Days, TeamsInOrder
<1>1. CASE \E d \in Draw(7, 30) : teams = <<[from |-> P.joined + d, to |-> P.left]>>
  <2>1. PICK d \in Draw(7, 30) : teams = <<[from |-> P.joined + d, to |-> P.left]>>
    BY <1>1
  <2>2. d \in Int /\ 7 <= d /\ d <= 30
    BY Drawn
  <2> QED
    BY <2>1, <2>2
<1>2. CASE /\ P.left = None
           /\ \E d \in Draw(7, 30), m \in Draw(30, 90) :
                teams = <<[from |-> P.joined + d, to |-> None], [from |-> (P.joined + d) + m, to |-> None]>>
  <2>1. PICK d \in Draw(7, 30), m \in Draw(30, 90) :
          teams = <<[from |-> P.joined + d, to |-> None], [from |-> (P.joined + d) + m, to |-> None]>>
    BY <1>2
  <2>2. d \in Int /\ 7 <= d /\ m \in Int /\ 30 <= m
    BY Drawn
  <2> QED
    BY <1>2, <2>1, <2>2
<1> QED
  BY <1>1, <1>2 DEF Assignments

LEMMA TakenBefore ==
  ASSUME NEW x \in Int, NEW b \in BOOLEAN, NEW d, NEW l,
         l = [from |-> d, to |-> x, taken |-> (b /\ x < Today)]
  PROVE  l.taken => x < Today
<1> DEFINE A == b /\ x < Today
<1>1. l.taken = A
  BY DEF Today
<1>2. A => x < Today
  OBVIOUS
<1> HIDE DEF A
<1> QED
  BY <1>1, <1>2, Zenon

LEMMA LeavesInOrder ==
  ASSUME PersonInOrder(P), NEW leave \in Leaves
  PROVE  leave \in Leave \cup {None} /\ LeaveInOrder(P, leave)
<1> DEFINE first == LargerOf(P.joined + 30, FirstOfYear(2022))
           final == LastDay - 1
<1>0. /\ P.joined \in Int /\ LastDay \in Int /\ FirstOfYear(2022) \in Int
      /\ LastDay = IF P.left = None THEN Today ELSE P.left
  BY DEF PersonInOrder, Person, LastDay, Today, FirstOfYear
<1>1. CASE leave = None
  BY <1>1 DEF LeaveInOrder
<1>2. CASE leave # None
  <2>1. PICK d \in Draw(first, final), n \in {1, 2, 3, 5, 14, 90}, approved \in BOOLEAN :
          leave = [from |-> d, to |-> SmallerOf((d + n) - 1, LastDay),
                   taken |-> approved /\ SmallerOf((d + n) - 1, LastDay) < Today]
    BY <1>2 DEF Leaves
  <2>2. first \in Int /\ P.joined + 30 <= first /\ final \in Int
    BY <1>0 DEF LargerOf
  <2>3. d \in Int /\ P.joined + 30 <= d /\ d <= LastDay - 1
    <3> HIDE DEF first
    <3> QED
      BY <2>2, <1>0, Drawn
  <2> DEFINE last_ == SmallerOf((d + n) - 1, LastDay)
  <2>4. last_ \in Int /\ d <= last_ /\ last_ <= LastDay
    BY <1>0, <2>3 DEF SmallerOf
  <2> HIDE DEF last_
  <2>5. leave.from = d /\ leave.to = last_
    BY <2>1 DEF last_
  <2>7. leave.taken => last_ < Today
    <3>1. leave = [from |-> d, to |-> last_, taken |-> (approved /\ last_ < Today)]
      BY <2>1 DEF last_
    <3> QED
      BY <2>4, <3>1, TakenBefore
  <2>6. leave \in Leave
    BY <2>1, <2>3, <2>4 DEF Leave, last_
  <2> QED
    BY <1>0, <2>3, <2>4, <2>5, <2>6, <2>7 DEF LeaveInOrder
<1> QED
  BY <1>1, <1>2

LEMMA ShareFits ==
  ASSUME NEW remaining \in Nat, NEW final \in BOOLEAN, NEW h \in Share(remaining, final)
  PROVE  h \in 0..remaining /\ (final => h = remaining)
<1> DEFINE D == IF final THEN {remaining} ELSE Draw(5, LargerOf(5, remaining - 5))
<1>1. PICK d \in D : h = LargerOf(0, SmallerOf(d, remaining))
  BY DEF Share
<1>2. d \in Int /\ 0 <= d /\ (final => d = remaining)
  <2>1. CASE final
    BY <2>1
  <2>2. CASE ~final
    <3>1. LargerOf(5, remaining - 5) \in Int
      BY DEF LargerOf
    <3> QED
      BY <2>2, <3>1, Drawn
  <2> QED
    BY <2>1, <2>2
<1> QED
  BY <1>1, <1>2 DEF LargerOf, SmallerOf

\* Whatever is drawn for the first team, the shares are natural and add up.
LEMMA SharesAddUp ==
  ASSUME NEW hours \in Nat, NEW n \in {1, 2}, NEW s \in Distributions(hours, n)
  PROVE  s \in Seq(Nat) /\ hours = s[1] + (IF Len(s) = 2 THEN s[2] ELSE 0)
<1>1. CASE n = 1
  <2>1. PICK h \in Share(hours, TRUE) : s = <<h>>
    BY <1>1 DEF Distributions
  <2>2. h = hours
    BY ShareFits
  <2> QED
    BY <2>1, <2>2
<1>2. CASE n = 2
  <2>1. PICK g \in Share(hours, FALSE) : s \in {<<g, h>> : h \in Share(hours - g, TRUE)}
    <3>1. Distributions(hours, n)
            = UNION {{<<g, h>> : h \in Share(hours - g, TRUE)} : g \in Share(hours, FALSE)}
      BY <1>2 DEF Distributions
    <3> QED
      BY <3>1, Zenon
  <2>2. PICK h \in Share(hours - g, TRUE) : s = <<g, h>>
    BY <2>1
  <2>3. g \in Nat /\ hours - g \in Nat
    <3>1. g \in 0..hours
      BY <2>1, ShareFits
    <3> QED
      BY <3>1
  <2>4. h = hours - g
    BY <2>3, <2>2, ShareFits
  <2> QED
    BY <2>2, <2>3, <2>4
<1> QED
  BY <1>1, <1>2

LEMMA WeeksAddUp ==
  ASSUME Len(life.teams) \in {1, 2}, NEW week \in Weeks, week # None
  PROVE  week \in Week /\ week.hours = week.shares[1] + (IF Len(week.shares) = 2 THEN week.shares[2] ELSE 0)
<1>1. PICK h \in Draw(35, 45) \cup Draw(0, 10), n \in 1..Len(life.teams) :
        week \in [hours : {h}, shares : Distributions(h, n)]
  BY DEF Weeks
<1>2. h \in Nat
  <2>1. h \in Draw(35, 45) => h \in Nat
    BY Drawn
  <2>2. h \in Draw(0, 10) => h \in Nat
    BY Drawn
  <2> QED
    BY <2>1, <2>2
<1>3. n \in {1, 2}
  <2> DEFINE L == Len(life.teams)
  <2>1. L \in {1, 2} /\ n \in 1..L
    OBVIOUS
  <2> HIDE DEF L
  <2> QED
    BY <2>1
<1> QED
  BY <1>1, <1>2, <1>3, SharesAddUp DEF Week

LEMMA FiledInTime ==
  ASSUME PersonInOrder(P), P.left # None, NEW d \in Draw(14, 60)
  PROVE  P.left - d \in Int /\ P.joined < P.left - d /\ P.left - d < P.left
BY Drawn DEF PersonInOrder, Person

----------------------------------------------------------------------------
(* The invariant, step by step.                                            *)

LEMMA InitInv == Init => Inv
<1> SUFFICES ASSUME Init PROVE Inv
  OBVIOUS
<1>1. TypeOK
  BY SeedAssumption DEF Init, TypeOK, Empty, Contents, Steps, Nobody, Life, Days
<1>2. LifeInOrder
  BY DEF Init, LifeInOrder, Early, Nobody, TeamsInOrder, LeaveInOrder, WeekAddsUp
<1>3. SeedInOrder
  BY DEF Init, SeedInOrder, Early, Whole, Empty
<1> QED
  BY <1>1, <1>2, <1>3 DEF Inv

\* The end of a run, whatever it leaves in the database.
LEMMA EndKeeps ==
  ASSUME Inv, NEW c \in Contents, Whole(c), NEW how \in {"done", "refused", "killed"},
         End(c, how), how = "refused" => c.people
  PROVE  Inv'
<1>1. TypeOK'
  BY DEF Inv, TypeOK, End, Steps, Nobody, Life, Days
<1>2. LifeInOrder'
  BY DEF End, LifeInOrder, Early, Nobody, TeamsInOrder, LeaveInOrder, WeekAddsUp
<1>3. SeedInOrder'
  BY DEF End, SeedInOrder, Early
<1> QED
  BY <1>1, <1>2, <1>3 DEF Inv

LEMMA NextInv == Inv /\ [Next]_vars => Inv'
<1> SUFFICES ASSUME Inv, [Next]_vars PROVE Inv'
  OBVIOUS
<1> USE DEF Inv, GoTo
<1>u. CASE UNCHANGED vars
  BY <1>u DEF vars, TypeOK, LifeInOrder, SeedInOrder, WeekAddsUp, Stints, P
<1>1. CASE Begin
  <2>1. TypeOK'
    BY <1>1, SeedAssumption DEF Begin, TypeOK, Steps
  <2>2. LifeInOrder'
    BY <1>1 DEF Begin, LifeInOrder, Early, WeekAddsUp
  <2>3. SeedInOrder'
    BY <1>1 DEF Begin, SeedInOrder, Early
  <2> QED
    BY <2>1, <2>2, <2>3
<1>2. CASE Interrupt
  BY <1>2, EndKeeps DEF Interrupt, Rollback, SeedInOrder, TypeOK
<1>3. CASE Commit
  BY <1>3, EndKeeps DEF Commit, SeedInOrder, TypeOK
<1>4. CASE DropAll
  <2>1. DropsFit(work.tables)
    <3>1. work.tables = {} \/ work.tables = AllTables
      BY <1>4 DEF DropAll, SeedInOrder, Whole
    <3>2. DropsFit({})
      BY DEF DropsFit
    <3> QED
      BY <3>1, <3>2, OrdersFit
  <2>2. work' = Empty /\ at' = "create" /\ UNCHANGED <<db, mode, last, runs, life>> /\ at = "drop"
    BY <1>4, <2>1 DEF DropAll
  <2>3. TypeOK'
    BY <2>2 DEF TypeOK, Steps, Empty, Contents
  <2>4. LifeInOrder'
    BY <2>2 DEF LifeInOrder, Early, WeekAddsUp
  <2>5. SeedInOrder'
    BY <2>2 DEF SeedInOrder, Early, Empty, Whole
  <2> QED
    BY <2>3, <2>4, <2>5
<1>5. CASE CreateTables
  <2> DEFINE made == [work EXCEPT !.tables = AllTables]
  <2>1. CreatesFit(work.tables)
    <3>1. work.tables = {} \/ work.tables = AllTables
      BY <1>5 DEF CreateTables, SeedInOrder, Whole
    <3>2. CreatesFit(AllTables)
      BY DEF CreatesFit, AllTables
    <3> QED
      BY <3>1, <3>2, OrdersFit
  <2>2. /\ made \in Contents /\ Whole(made) /\ made.tables = AllTables
        /\ made.people = work.people /\ at = "create"
    BY <1>5 DEF CreateTables, SeedInOrder, Whole, TypeOK, Contents
  <2> HIDE DEF made
  <2>3. \/ End(made, "done")
        \/ work' = made /\ at' = "lookups" /\ UNCHANGED <<db, mode, last, runs, life>>
    BY <1>5, <2>1 DEF CreateTables, made
  <2>4. CASE End(made, "done")
    BY <2>2, <2>4, EndKeeps
  <2>5. CASE work' = made /\ at' = "lookups" /\ UNCHANGED <<db, mode, last, runs, life>>
    <3>1. TypeOK'
      BY <2>2, <2>5 DEF TypeOK, Steps
    <3>2. LifeInOrder'
      BY <2>2, <2>5 DEF LifeInOrder, Early, WeekAddsUp
    <3>3. SeedInOrder'
      BY <2>2, <2>5 DEF SeedInOrder, Early
    <3> QED
      BY <3>1, <3>2, <3>3
  <2> QED
    BY <2>3, <2>4, <2>5
<1>6. CASE SeedLookups
  <2>1. /\ work' = [work EXCEPT !.copies = work.copies + 1] /\ at = "lookups" /\ at' = "people"
        /\ UNCHANGED <<db, mode, last, runs, life>>
    BY <1>6 DEF SeedLookups
  <2>2. TypeOK'
    BY <2>1 DEF TypeOK, Steps, Contents
  <2>3. LifeInOrder'
    BY <2>1 DEF LifeInOrder, Early, WeekAddsUp
  <2>4. /\ work'.copies = work.copies + 1 /\ work'.tables = work.tables
        /\ work'.people = work.people
    BY <2>1 DEF TypeOK, Contents
  <2>5. SeedInOrder'
    BY <2>1, <2>4 DEF SeedInOrder, Early, Whole
  <2> QED
    BY <2>2, <2>3, <2>5
<1>7. CASE SeedPeople
  <2>1. at = "people"
    BY <1>7 DEF SeedPeople
  <2>2. CASE work.people
    BY <1>7, <2>1, <2>2, EndKeeps DEF SeedPeople, Rollback, SeedInOrder, Early, TypeOK
  <2>3. CASE ~work.people
    <3>1. PICK p \in People : life' = [life EXCEPT !.person = p]
      BY <1>7, <2>3 DEF SeedPeople
    <3>2. work' = [work EXCEPT !.people = TRUE] /\ at' = "teams" /\ UNCHANGED <<db, mode, last, runs>>
      BY <1>7, <2>3 DEF SeedPeople
    <3>3. PersonInOrder(p)
      BY PeopleInOrder
    <3>4. life' \in Life /\ life'.person = p
          /\ life'.teams = <<>> /\ life'.leave = None /\ life'.week = None
      BY <2>1, <3>1, <3>3 DEF TypeOK, Life, PersonInOrder, LifeInOrder, Early, Nobody
    <3>5. work'.copies = work.copies /\ work'.tables = work.tables /\ work'.people
      BY <3>2 DEF TypeOK, Contents
    <3>6. TypeOK'
      BY <3>2, <3>4 DEF TypeOK, Contents, Steps
    <3>7. LifeInOrder'
      BY <3>2, <3>3, <3>4 DEF LifeInOrder, Early, TeamsInOrder, LeaveInOrder, WeekAddsUp
    <3>8. SeedInOrder'
      BY <2>1, <2>3, <3>2, <3>5 DEF SeedInOrder, Early, Whole
    <3> QED
      BY <3>6, <3>7, <3>8
  <2> QED
    BY <2>2, <2>3
<1>8. CASE SeedPersonTeams
  <2>1. PICK r \in Assignments : life' = [life EXCEPT !.teams = r]
    BY <1>8 DEF SeedPersonTeams, Write
  <2>2. at = "teams" /\ at' = "leaves" /\ UNCHANGED <<db, work, mode, last, runs>>
    BY <1>8 DEF SeedPersonTeams, Write
  <2>3. PersonInOrder(P)
    BY <2>2 DEF LifeInOrder, Early, P
  <2>4. r \in Seq(Stint) /\ Len(r) \in {1, 2} /\ TeamsInOrder(P, r)
    BY <2>3, AssignmentsInOrder
  <2>5. life' \in Life /\ life'.teams = r
    BY <2>1, <2>4 DEF TypeOK, Life
  <2>6. /\ life'.person = life.person
        /\ life'.leave = life.leave
        /\ life'.week = life.week
        /\ life'.filed = life.filed
    BY <2>1 DEF TypeOK, Life
  <2>7. TypeOK'
    BY <2>2, <2>5 DEF TypeOK, Steps
  <2>8. LifeInOrder'
    BY <2>2, <2>3, <2>4, <2>5, <2>6 DEF LifeInOrder, Early, WeekAddsUp, P
  <2>9. SeedInOrder'
    BY <2>2 DEF SeedInOrder, Early
  <2> QED
    BY <2>7, <2>8, <2>9
<1>9. CASE SeedLeaveRecords
  <2>1. PICK r \in Leaves : life' = [life EXCEPT !.leave = r]
    BY <1>9 DEF SeedLeaveRecords, Write
  <2>2. at = "leaves" /\ at' = "weeks" /\ UNCHANGED <<db, work, mode, last, runs>>
    BY <1>9 DEF SeedLeaveRecords, Write
  <2>3. PersonInOrder(P)
    BY <2>2 DEF LifeInOrder, Early, P
  <2>4. r \in Leave \cup {None} /\ LeaveInOrder(P, r)
    BY <2>3, LeavesInOrder
  <2>5. life' \in Life /\ life'.leave = r
    BY <2>1, <2>4 DEF TypeOK, Life
  <2>6. /\ life'.person = life.person
        /\ life'.teams = life.teams
        /\ life'.week = life.week
        /\ life'.filed = life.filed
    BY <2>1 DEF TypeOK, Life
  <2>7. TypeOK'
    BY <2>2, <2>5 DEF TypeOK, Steps
  <2>8. LifeInOrder'
    BY <2>2, <2>3, <2>4, <2>5, <2>6 DEF LifeInOrder, Early, WeekAddsUp, P
  <2>9. SeedInOrder'
    BY <2>2 DEF SeedInOrder, Early
  <2> QED
    BY <2>7, <2>8, <2>9
<1>10. CASE SeedWeekLogs
  <2>1. PICK r \in Weeks : life' = [life EXCEPT !.week = r]
    BY <1>10 DEF SeedWeekLogs, Write
  <2>2. at = "weeks" /\ at' = "resignations" /\ UNCHANGED <<db, work, mode, last, runs>>
    BY <1>10 DEF SeedWeekLogs, Write
  <2>3. PersonInOrder(P)
    BY <2>2 DEF LifeInOrder, Early, P
  <2>4. /\ r \in Week \cup {None}
        /\ r # None => r.hours = r.shares[1] + (IF Len(r.shares) = 2 THEN r.shares[2] ELSE 0)
    <3>1. Len(life.teams) \in {1, 2}
      BY <2>2 DEF LifeInOrder, Early
    <3> QED
      BY <3>1, WeeksAddUp
  <2>5. life' \in Life /\ life'.week = r
    BY <2>1, <2>4 DEF TypeOK, Life
  <2>6. /\ life'.person = life.person
        /\ life'.teams = life.teams
        /\ life'.leave = life.leave
        /\ life'.filed = life.filed
    BY <2>1 DEF TypeOK, Life
  <2>7. TypeOK'
    BY <2>2, <2>5 DEF TypeOK, Steps
  <2>8. LifeInOrder'
    BY <2>2, <2>3, <2>4, <2>5, <2>6 DEF LifeInOrder, Early, WeekAddsUp
  <2>9. SeedInOrder'
    BY <2>2 DEF SeedInOrder, Early
  <2> QED
    BY <2>7, <2>8, <2>9
<1>11. CASE SeedResignations
  <2>1. PICK r \in (IF P.left = None THEN {None} ELSE {P.left - d : d \in Draw(14, 60)}) : life' = [life EXCEPT !.filed = r]
    BY <1>11 DEF SeedResignations, Write
  <2>2. at = "resignations" /\ at' = "statuses" /\ UNCHANGED <<db, work, mode, last, runs>>
    BY <1>11 DEF SeedResignations, Write
  <2>3. PersonInOrder(P)
    BY <2>2 DEF LifeInOrder, Early, P
  <2>4. r \in Days /\ FiledInOrder(P, r)
    <3>1. CASE P.left = None
      BY <3>1 DEF FiledInOrder, Days
    <3>2. CASE P.left # None
      <4>1. PICK d \in Draw(14, 60) : r = P.left - d
        BY <3>2
      <4> QED
        BY <2>3, <3>2, <4>1, FiledInTime DEF FiledInOrder, Days
    <3> QED
      BY <3>1, <3>2
  <2>5. life' \in Life /\ life'.filed = r
    BY <2>1, <2>4 DEF TypeOK, Life
  <2>6. /\ life'.person = life.person
        /\ life'.teams = life.teams
        /\ life'.leave = life.leave
        /\ life'.week = life.week
    BY <2>1 DEF TypeOK, Life
  <2>7. TypeOK'
    BY <2>2, <2>5 DEF TypeOK, Steps
  <2>8. LifeInOrder'
    BY <2>2, <2>3, <2>4, <2>5, <2>6 DEF LifeInOrder, Early, WeekAddsUp, P
  <2>9. SeedInOrder'
    BY <2>2 DEF SeedInOrder, Early
  <2> QED
    BY <2>7, <2>8, <2>9
<1>12. CASE SeedStatusHistory
  <2>1. PICK r \in {Stints} : life' = [life EXCEPT !.stints = r]
    BY <1>12 DEF SeedStatusHistory, Write
  <2>2. at = "statuses" /\ at' = "commit" /\ UNCHANGED <<db, work, mode, last, runs>>
    BY <1>12 DEF SeedStatusHistory, Write
  <2>3. PersonInOrder(P)
    BY <2>2 DEF LifeInOrder, Early, P
  <2>4. r = Stints /\ r \in Seq(Stint)
    <3>1. P.joined \in Int /\ P.left \in Days
      BY <2>3 DEF PersonInOrder, Person
    <3>2. /\ [from |-> P.joined, to |-> P.joined + 90] \in Stint
          /\ [from |-> P.joined + 90, to |-> None] \in Stint
          /\ [from |-> P.joined + 90, to |-> P.left] \in Stint
          /\ P.left # None => [from |-> P.left, to |-> None] \in Stint
      BY <3>1 DEF Stint, Days
    <3>3. Stints \in Seq(Stint)
      <4>1. CASE P.left = None
        BY <3>2, <4>1 DEF Stints
      <4>2. CASE P.left # None
        BY <3>2, <4>2 DEF Stints
      <4> QED
        BY <4>1, <4>2
    <3> QED
      BY <3>3
  <2>5. life' \in Life /\ life'.stints = r
    BY <2>1, <2>4 DEF TypeOK, Life
  <2>6. /\ life'.person = life.person
        /\ life'.teams = life.teams
        /\ life'.leave = life.leave
        /\ life'.week = life.week
        /\ life'.filed = life.filed
    BY <2>1 DEF TypeOK, Life
  <2>7. TypeOK'
    BY <2>2, <2>5 DEF TypeOK, Steps
  <2>8. LifeInOrder'
    BY <2>2, <2>3, <2>4, <2>5, <2>6 DEF LifeInOrder, Early, WeekAddsUp, Stints, P
  <2>9. SeedInOrder'
    BY <2>2 DEF SeedInOrder, Early
  <2> QED
    BY <2>7, <2>8, <2>9
<1> QED
  BY <1>u, <1>1, <1>2, <1>3, <1>4, <1>5, <1>6, <1>7, <1>8, <1>9, <1>10, <1>11, <1>12 DEF Next

THEOREM Invariance == Spec => []Inv
BY InitInv, NextInv, PTL DEF Spec

----------------------------------------------------------------------------
(* The theorems.                                                           *)

\* The rows of a person and the contents of the database keep their types.
THEOREM TypeCorrect == Spec => []TypeOK
BY Invariance, PTL DEF Inv

\* No run, however it ended, leaves the database seeded in part or twice, and only a
\* second seeding is refused.
THEOREM SeededWhollyOrNot == Spec => []NoHalfSeed
<1>1. Inv => NoHalfSeed
  BY DEF Inv, SeedInOrder, Whole, NoHalfSeed, TypeOK, Contents
<1> QED
  BY <1>1, Invariance, PTL

\* Every life written to the end is in order and its hours add up, whatever was drawn.  A
\* confirmation is held to the exit only for those who stay.
THEOREM LivesAreInOrder == Spec => []RowsAgree
<1>1. Inv => RowsAgree
  <2> SUFFICES ASSUME Inv, at = "commit" PROVE RowsAgree
    BY DEF RowsAgree
  <2>1. /\ PersonInOrder(P) /\ TeamsInOrder(P, life.teams) /\ LeaveInOrder(P, life.leave)
        /\ FiledInOrder(P, life.filed) /\ life.stints = Stints
    BY DEF Inv, LifeInOrder, Early, P
  <2>2. P.joined \in Int /\ P.left \in Days
    BY <2>1 DEF PersonInOrder, Person
  <2>3. /\ life.stints[1].from = P.joined
        /\ \A i \in 1..(Len(life.stints) - 1) :
             life.stints[i].from <= life.stints[i].to /\ life.stints[i].to = life.stints[i + 1].from
        /\ life.stints[Len(life.stints)].to = None
        /\ P.left # None => life.stints[Len(life.stints)].from = P.left
    <3>1. CASE P.left = None
      BY <2>1, <2>2, <3>1 DEF Stints
    <3>2. CASE P.left # None
      BY <2>1, <2>2, <3>2 DEF Stints, PersonInOrder
    <3> QED
      BY <3>1, <3>2
  <2>4. /\ P.left # None => P.left < Today /\ P.joined < life.filed /\ life.filed < P.left
        /\ P.confirmed # None => /\ P.joined + 90 <= P.confirmed /\ P.confirmed <= Today
                                 /\ P.left = None => P.confirmed <= P.joined + 180
    BY <2>1, <2>2 DEF PersonInOrder, FiledInOrder, LastDay, Today
  <2>5. life.leave # None =>
          /\ P.joined < life.leave.from /\ life.leave.from <= life.leave.to
          /\ life.leave.to <= LastDay /\ (life.leave.taken => life.leave.to < Today)
    BY <2>1 DEF LeaveInOrder, LastDay
  <2>6. WeekAddsUp
    BY DEF Inv, LifeInOrder
  <2> QED
    BY <2>1, <2>3, <2>4, <2>5, <2>6 DEF WeekAddsUp, RowsAgree, TeamsInOrder
<1> QED
  BY <1>1, Invariance, PTL
=============================================================================
