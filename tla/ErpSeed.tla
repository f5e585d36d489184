------------------------------- MODULE ErpSeed -------------------------------
(***************************************************************************)
(* scripts/seed_erp.py: runs of the script one after another, each in one  *)
(* transaction (engine.begin), and the rows it writes about one person.    *)
(* The functions of the script draw independently for each person, so the  *)
(* person stands for any of the 500; of several leaves and weeks of the    *)
(* person one stands for all.  Days count from 2019-01-01, a Tuesday.      *)
(***************************************************************************)
EXTENDS ErpTables

CONSTANTS
  None,   \* NULL, no row
  Grain,  \* bound of the model: random.randint yields its ends and every Grain-th number
  MaxRuns \* bound of the model: runs of the script

ASSUME SeedAssumption == Grain \in Nat \ {0} /\ MaxRuns \in Nat \ {0} /\ None \notin Int

VARIABLES
  db,    \* the committed database: its tables, copies of the lookup rows, whether it has people
  work,  \* the same, as the transaction of the run sees it
  at,    \* the step the run is at
  mode,  \* its options
  life,  \* what it has written about the person
  last,  \* how the run before ended
  runs   \* runs begun so far

vars == <<db, work, at, mode, life, last, runs>>

Today == 2298
Draw(lo, hi) == {n \in lo..hi : n \in {lo, hi} \/ (n - lo) % Grain = 0}
WeekStart(d) == d - ((d + 1) % 7)
SmallerOf(a, b) == IF a <= b THEN a ELSE b
LargerOf(a, b) == IF a >= b THEN a ELSE b

Days == Int \cup {None}
Contents == [tables : SUBSET AllTables, copies : Nat, people : BOOLEAN]
Types == {"full", "contractor", "other"}
Person == [joined : Int, left : Days, type : Types, confirmed : Days]
Stint == [from : Int, to : Days]
Leave == [from : Int, to : Int, taken : BOOLEAN]
Week == [hours : Nat, shares : Seq(Nat)]
Life == [person : Person \cup {None}, teams : Seq(Stint), leave : Leave \cup {None},
         week : Week \cup {None}, filed : Days, stints : Seq(Stint)]
Nobody == [person |-> None, teams |-> <<>>, leave |-> None, week |-> None, filed |-> None,
           stints |-> <<>>]
Steps == {"idle", "drop", "create", "lookups", "people", "teams", "leaves", "weeks",
          "resignations", "statuses", "commit"}

TypeOK ==
  /\ db \in Contents /\ work \in Contents
  /\ at \in Steps
  /\ mode \in [reset : BOOLEAN, tablesOnly : BOOLEAN]
  /\ life \in Life
  /\ last \in {"none", "done", "refused", "killed"}
  /\ runs \in 0..MaxRuns

Empty == [tables |-> {}, copies |-> 0, people |-> FALSE]

Init ==
  /\ db = Empty /\ work = Empty
  /\ at = "idle"
  /\ mode = [reset |-> FALSE, tablesOnly |-> FALSE]
  /\ life = Nobody
  /\ last = "none"
  /\ runs = 0

----------------------------------------------------------------------------
(* The transaction.                                                        *)

GoTo(step) == at' = step /\ UNCHANGED <<db, mode, last, runs>>
End(contents, how) ==
  /\ db' = contents /\ work' = contents
  /\ at' = "idle" /\ last' = how /\ life' = Nobody
  /\ UNCHANGED <<mode, runs>>

Begin ==
  /\ at = "idle" /\ runs < MaxRuns
  /\ runs' = runs + 1
  /\ mode' \in [reset : BOOLEAN, tablesOnly : BOOLEAN]
  /\ at' = IF mode'.reset THEN "drop" ELSE "create"
  /\ UNCHANGED <<db, work, life, last>>

KeepWhatIsDone(how) == End(work, how)
\* An exception leaves engine.begin() with a ROLLBACK.
Rollback(how) == End(db, how)

Interrupt == at # "idle" /\ Rollback("killed")

DropAll ==
  /\ at = "drop"
  /\ IF DropsFit(work.tables) THEN work' = Empty /\ GoTo("create") /\ UNCHANGED life
     ELSE Rollback("refused")

CreateTables ==
  /\ at = "create"
  /\ LET made == [work EXCEPT !.tables = AllTables]
     IN IF ~CreatesFit(work.tables) THEN Rollback("refused") ELSE
        IF mode.tablesOnly THEN End(made, "done")
        ELSE work' = made /\ GoTo("lookups") /\ UNCHANGED life

\* Only employment_type has a key besides its id; the other rows come once more.
SeedLookups ==
  /\ at = "lookups"
  /\ work' = [work EXCEPT !.copies = @ + 1]
  /\ GoTo("people") /\ UNCHANGED life

Commit == at = "commit" /\ End(work, "done")

----------------------------------------------------------------------------
(* seed_people.                                                            *)

FirstOfYear(y) == 365 * (y - 2019) + (y - 2017) \div 4
JoinDates(y) ==
  UNION {IF d > Today THEN Draw(Today - 30, Today - 1) ELSE {d} :
           d \in Draw(FirstOfYear(y), FirstOfYear(y + 1) - 1)}
Confirmations(joined, type) ==
  IF type # "full" THEN {None}
  ELSE {IF d > Today THEN None ELSE d : d \in Draw(joined + 90, joined + 180)}

ExitsAnyTime(joined) == [joined : {joined}, left : Draw(joined, Today - 30)]
\* Who joined too recently to have left is made to have joined earlier.
Exits(joined) ==
  LET latest == Today - 30
  IN UNION {[joined : {j}, left : Draw(j + 180, latest)] :
              j \in IF joined + 180 < latest THEN {joined} ELSE Draw(latest - 730, latest - 270)}
Stays(joined) == [joined : {joined}, left : {None}]

\* The confirmation is drawn before the joining date may be moved.
People ==
  UNION {UNION {{[joined |-> e.joined, left |-> e.left, type |-> t, confirmed |-> d] :
                    e \in Exits(j) \cup Stays(j), d \in Confirmations(j, t)} : t \in Types} :
         j \in UNION {JoinDates(y) : y \in 2019..2025}}

\* person_id is UNIQUE and numbered from EMP-0001 in every run.
SeedPeople ==
  /\ at = "people"
  /\ IF work.people THEN Rollback("refused")
     ELSE /\ \E p \in People : life' = [life EXCEPT !.person = p]
          /\ work' = [work EXCEPT !.people = TRUE]
          /\ GoTo("teams")

----------------------------------------------------------------------------
(* What is drawn for a person on the list seed_people returns.             *)

P == life.person
Write(field, rows, next) ==
  /\ \E r \in rows : life' = [life EXCEPT ![field] = r]
  /\ GoTo(next) /\ UNCHANGED work

\* seed_person_teams; a second assignment in Engineering, QA and DevOps only.
Assignments ==
  {<<[from |-> P.joined + d, to |-> P.left]>> : d \in Draw(7, 30)} \cup
  (IF P.left # None THEN {}
   ELSE {<<[from |-> P.joined + d, to |-> None], [from |-> P.joined + d + m, to |-> None]>> :
           d \in Draw(7, 30), m \in Draw(30, 90)})
SeedPersonTeams == at = "teams" /\ Write("teams", Assignments, "leaves")

LastDay == IF P.left = None THEN Today ELSE P.left

\* seed_leave_records: from 2022 on, a month after joining; 90 days are a maternity leave.
Leaves ==
  LET first == LargerOf(P.joined + 30, FirstOfYear(2022))
      final == LastDay - 1
  IN IF LastDay - P.joined < 30 \/ first >= final THEN {None}
     ELSE {[from |-> d, to |-> SmallerOf(d + n - 1, LastDay),
            taken |-> approved /\ SmallerOf(d + n - 1, LastDay) < Today] :
             d \in Draw(first, final), n \in {1, 2, 3, 5, 14, 90}, approved \in BOOLEAN}
SeedLeaveRecords == at = "leaves" /\ Write("leave", Leaves, "weeks")

\* seed_week_logs: a team gets what is drawn for it or what remains, the last one all that
\* remains.  The minutes, drawn for the log and for each project on their own, are left out:
\* no two of them need agree.
ShareUnclamped(remaining, final) ==
  IF final THEN {remaining} ELSE Draw(5, LargerOf(5, remaining - 5))
ShareOfDraw(remaining, final) ==
  {LargerOf(0, h) : h \in ShareUnclamped(remaining, final)}
Share(remaining, final) ==
  {LargerOf(0, SmallerOf(h, remaining)) :
     h \in IF final THEN {remaining} ELSE Draw(5, LargerOf(5, remaining - 5))}
Distributions(hours, n) ==
  IF n = 1 THEN {<<h>> : h \in Share(hours, TRUE)}
  ELSE UNION {{<<g, h>> : h \in Share(hours - g, TRUE)} : g \in Share(hours, FALSE)}

Mondays == {d \in WeekStart(Today - 16 * 7)..(Today - 1) : WeekStart(d) = d /\ d >= P.joined}
Weeks ==
  IF P.left # None \/ P.type = "contractor" \/ Mondays = {} THEN {None}
  ELSE UNION {UNION {[hours : {h}, shares : Distributions(h, n)] : n \in 1..Len(life.teams)} :
                h \in Draw(35, 45) \cup Draw(0, 10)}
SeedWeekLogs == at = "weeks" /\ Write("week", Weeks, "resignations")

\* seed_resignations
SeedResignations ==
  /\ at = "resignations"
  /\ Write("filed", IF P.left = None THEN {None} ELSE {P.left - d : d \in Draw(14, 60)}, "statuses")

\* seed_status_history: on probation for 90 days, then active until the exit, or in the
\* status the person has.
Stints ==
  LET probation == [from |-> P.joined, to |-> P.joined + 90]
  IN IF P.left = None THEN <<probation, [from |-> P.joined + 90, to |-> None]>>
     ELSE <<probation, [from |-> P.joined + 90, to |-> P.left], [from |-> P.left, to |-> None]>>
SeedStatusHistory == at = "statuses" /\ Write("stints", {Stints}, "commit")

Next ==
  \/ Begin \/ Interrupt \/ Commit
  \/ DropAll \/ CreateTables \/ SeedLookups \/ SeedPeople
  \/ SeedPersonTeams \/ SeedLeaveRecords \/ SeedWeekLogs \/ SeedResignations \/ SeedStatusHistory

Spec == Init /\ [][Next]_vars

----------------------------------------------------------------------------
(* Properties.                                                             *)

\* Whatever runs came before and wherever they were stopped, the committed database has
\* people and each lookup row once, or neither; --reset always seeds it afresh, and
\* what is refused is a second seeding.
NoHalfSeed ==
  /\ db.people <=> db.copies = 1
  /\ db.copies > 0 => db.tables = AllTables
  /\ last = "refused" => db.people

\* A life that is written to the end is one: the status history runs without a gap
\* from the joining date, the exit comes when probation and notice fit before it, teams,
\* leaves and the resignation lie within the employment, and the hours of a week are those
\* of its projects, however few there were.  A confirmation comes
\* three months after joining at the least, and six at the most for those who stay
\* (scripts/seed_erp.py:1004); of those who left it may come after the exit, because the
\* joining date may be moved once the confirmation is drawn.
RowsAgree ==
  at = "commit" =>
    /\ life.stints[1].from = P.joined
    /\ \A i \in 1..(Len(life.stints) - 1) :
         life.stints[i].from <= life.stints[i].to /\ life.stints[i].to = life.stints[i + 1].from
    /\ life.stints[Len(life.stints)].to = None
    /\ P.left # None => /\ P.left < Today /\ life.stints[Len(life.stints)].from = P.left
                        /\ P.joined < life.filed /\ life.filed < P.left
    /\ \A i \in DOMAIN life.teams :
         P.joined < life.teams[i].from /\ (P.left # None => life.teams[i].from < life.teams[i].to)
    /\ P.confirmed # None => /\ P.joined + 90 <= P.confirmed /\ P.confirmed <= Today
                             /\ P.left = None => P.confirmed <= P.joined + 180
    /\ life.leave # None =>
         /\ P.joined < life.leave.from /\ life.leave.from <= life.leave.to
         /\ life.leave.to <= LastDay /\ (life.leave.taken => life.leave.to < Today)
    /\ life.week # None =>
         LET s == life.week.shares
         IN life.week.hours = s[1] + (IF Len(s) = 2 THEN s[2] ELSE 0)
=============================================================================
