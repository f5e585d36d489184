---------------------------- MODULE SlackProofs ----------------------------
(***************************************************************************)
(* Proofs about the two parts of adapters/slack.py.  The first is about    *)
(* SlackDelivery, for every number of events and processes and every value *)
(* of the times; the second about ThreadHistory, for threads of any        *)
(* length, pages of any size and any number of people, messages and jobs.  *)
(***************************************************************************)
EXTENDS SlackDelivery, ThreadHistory, SequenceTheorems, WellFoundedInduction, TLAPS

----------------------------------------------------------------------------
(* The inductive invariant.                                                  *)

\* A handler's clock reading is never from the future.
StampInv == \A p \in Procs : handler[p].phase = "stamped" => handler[p].stamp <= clock

\* The row of an event is that of its last first sight, and is only ever purged
\* when more than a TTL has passed since the clock reading in it.
SightInv ==
  \A e \in Events :
    /\ \A i \in 1..Len(sights[e]) : sights[e][i].at <= clock
    /\ \A i, j \in 1..Len(sights[e]) :
         i < j => sights[e][j].at > sights[e][i].stamp + Ttl
    /\ seen[e] # NoRow => /\ sights[e] # <<>>
                          /\ seen[e] = sights[e][Len(sights[e])].stamp
    /\ seen[e] = NoRow /\ sights[e] # <<>> =>
         clock > sights[e][Len(sights[e])].stamp + Ttl

TableInv == StampInv /\ SightInv /\ TableBounded

Of(q) == {q[i] : i \in 1..Len(q)}
Once(q) == \A i, j \in 1..Len(q) : q[i] = q[j] => i = j
InPool(p) == Of(queue[p]) \cup running[p]
Ended == processed \cup lost \cup failed
Recorded == {j \in Jobs : j[2] \in 1..Len(sights[j[1]])}

\* A job is in one place: once in one queue, or with one thread, or with the handler
\* that recorded it, or ended; and it is submitted before it is in a pool.
JobInv ==
  /\ \A p \in Procs : /\ Once(queue[p])
                      /\ Of(queue[p]) \cap running[p] = {}
                      /\ Held(p) \cap InPool(p) = {}
                      /\ InMemory(p) \subseteq Recorded
                      /\ InMemory(p) \cap Ended = {}
  /\ \A p, q \in Procs : p # q => InMemory(p) \cap InMemory(q) = {}
  /\ Ended \subseteq Recorded

SubmitInv ==
  \A e \in Events :
    /\ Once(dispatched[e])
    /\ Of(dispatched[e]) \subseteq 1..Len(sights[e])
    /\ \A p \in Procs, n \in Nat : <<e, n>> \in Held(p) => n \notin Of(dispatched[e])

OwedInv == Owed \subseteq Ended \cup UNION {InMemory(p) : p \in Procs}

IInv == TypeOK /\ TableInv /\ JobInv /\ SubmitInv /\ OwedInv

----------------------------------------------------------------------------
(* Sequences and what they hold.                                             *)

LEMMA AppendOf ==
  ASSUME NEW S, NEW q \in Seq(S), NEW e \in S
  PROVE  /\ Of(Append(q, e)) = Of(q) \cup {e}
         /\ Once(q) /\ e \notin Of(q) => Once(Append(q, e))
<1> DEFINE a == Append(q, e)
<1>1. /\ Len(q) \in Nat /\ Len(a) = Len(q) + 1
      /\ \A i \in 1..Len(q) : a[i] = q[i]
      /\ a[Len(q) + 1] = e
  BY AppendProperties, LenProperties
<1> HIDE DEF a
<1>2. Of(a) = Of(q) \cup {e}
  <2>1. \A i \in 1..Len(a) : i \in 1..Len(q) \/ i = Len(q) + 1
    BY <1>1
  <2>2. 1..Len(q) \subseteq 1..Len(a) /\ Len(q) + 1 \in 1..Len(a)
    BY <1>1
  <2> QED
    BY <1>1, <2>1, <2>2 DEF Of
<1>3. ASSUME Once(q), e \notin Of(q), NEW i \in 1..Len(a), NEW j \in 1..Len(a), a[i] = a[j]
      PROVE  i = j
  <2>1. \A k \in 1..Len(q) : a[k] = q[k] /\ q[k] # e
    BY <1>1, <1>3 DEF Of
  <2>2. i \in 1..Len(q) \/ i = Len(q) + 1
    BY <1>1
  <2>3. j \in 1..Len(q) \/ j = Len(q) + 1
    BY <1>1
  <2> QED
    BY <1>1, <1>3, <2>1, <2>2, <2>3 DEF Once
<1> QED
  BY <1>2, <1>3 DEF Once, a

LEMMA TailOf ==
  ASSUME NEW S, NEW q \in Seq(S), q # <<>>
  PROVE  /\ Of(q) = {Head(q)} \cup Of(Tail(q))
         /\ Once(q) => Once(Tail(q)) /\ Head(q) \notin Of(Tail(q))
<1> DEFINE t == Tail(q)
<1>1. /\ Len(q) \in Nat \ {0} /\ Head(q) = q[1] /\ Len(t) = Len(q) - 1
      /\ \A i \in 1..Len(t) : t[i] = q[i + 1]
  BY HeadTailProperties, LenProperties, EmptySeq
<1> HIDE DEF t
<1>2. /\ \A i \in 1..Len(t) : i + 1 \in 1..Len(q) /\ i + 1 # 1
      /\ \A i \in 1..Len(q) : i = 1 \/ (i - 1 \in 1..Len(t) /\ t[i - 1] = q[i])
      /\ 1 \in 1..Len(q)
  BY <1>1
<1>3. Of(q) = {Head(q)} \cup Of(t)
  BY <1>1, <1>2 DEF Of
<1>4. ASSUME Once(q) PROVE Once(t) /\ Head(q) \notin Of(t)
  <2>1. Head(q) \notin Of(t)
    BY <1>1, <1>2, <1>4 DEF Of, Once
  <2>2. ASSUME NEW i \in 1..Len(t), NEW j \in 1..Len(t), t[i] = t[j] PROVE i = j
    <3>1. i + 1 = j + 1
      BY <1>1, <1>2, <1>4, <2>2 DEF Once
    <3> QED
      BY <1>1, <3>1
  <2> QED
    BY <2>1, <2>2 DEF Once
<1> QED
  BY <1>3, <1>4 DEF t

----------------------------------------------------------------------------
(* Types.                                                                    *)

LEMMA NumbersAreNat == Ttl \in Nat /\ Skew \in Nat /\ RetrySpan \in Nat /\ Window \in Nat
BY NumbersAssumption

\* The state of a handler that is serving a request has all its fields.
LEMMA ServingFields ==
  ASSUME TypeOK, NEW p \in Procs
  PROVE  /\ handler[p] = Idle \/ handler[p] \in Serving
         /\ handler[p] = Idle <=> handler[p].phase = "idle"
         /\ handler[p] \in Serving =>
              /\ handler[p].event \in Events
              /\ handler[p].stamp \in Nat
              /\ handler[p].sight \in Nat
BY DEF TypeOK, Serving, Idle

\* One more first sight of e.
LEMMA SightAdded ==
  ASSUME TypeOK, NEW e \in Events, NEW r \in Sight,
         sights' = [sights EXCEPT ![e] = Append(@, r)]
  PROVE  /\ sights' \in [Events -> Seq(Sight)]
         /\ Len(sights[e]) \in Nat
         /\ Len(sights'[e]) = Len(sights[e]) + 1
         /\ \A i \in 1..Len(sights[e]) : sights'[e][i] = sights[e][i]
         /\ sights'[e][Len(sights[e]) + 1] = r
         /\ \A d \in Events : d # e => sights'[d] = sights[d]
<1>1. sights[e] \in Seq(Sight) /\ sights'[e] = Append(sights[e], r)
  BY DEF TypeOK
<1>2. Append(sights[e], r) \in Seq(Sight)
  BY <1>1
<1> QED
  BY <1>1, <1>2, AppendProperties, LenProperties DEF TypeOK

\* What a first sight appends is one.
LEMMA Inserted ==
  ASSUME TypeOK, NEW p \in Procs, Insert(handler[p])
  PROVE  /\ handler[p] \in Serving
         /\ handler[p].event \in Events /\ handler[p].stamp \in Nat
         /\ [stamp |-> handler[p].stamp, at |-> clock] \in Sight
         /\ sights' = [sights EXCEPT ![handler[p].event] =
                         Append(@, [stamp |-> handler[p].stamp, at |-> clock])]
<1>1. handler[p] \in Serving
  BY ServingFields DEF Insert, Idle
<1> QED
  BY <1>1, ServingFields DEF Insert, Sight, TypeOK

\* The sights of a sequence of them have their fields.
LEMMA SightFields ==
  ASSUME NEW s \in Seq(Sight)
  PROVE  /\ Len(s) \in Nat
         /\ s # <<>> => Len(s) \in 1..Len(s)
         /\ Len(s) # 0 => s # <<>>
         /\ \A i \in 1..Len(s) : s[i].stamp \in Nat /\ s[i].at \in Nat
<1>1. \A i \in 1..Len(s) : s[i] \in Sight
  BY ElementOfSeq
<1>2. Len(s) \in Nat /\ (Len(s) = 0 => s = <<>>) /\ (s = <<>> => Len(s) = 0)
  BY EmptySeq, LenProperties
<1>3. s # <<>> => Len(s) \in 1..Len(s)
  BY <1>2
<1> QED
  BY <1>1, <1>2, <1>3 DEF Sight

LEMMA HeldJobs ==
  ASSUME TypeOK, NEW p \in Procs
  PROVE  /\ Held(p) \subseteq Events \X Nat
         /\ handler[p].phase # "recorded" => Held(p) = {}
BY ServingFields DEF Held, Idle

LEMMA InitType == Init => TypeOK
BY NumbersAssumption DEF Init, TypeOK, Sight, Jobs, Request

LEMMA TypeStep == TypeOK /\ JobInv /\ [Next]_vars => TypeOK'
<1> SUFFICES ASSUME TypeOK, JobInv, [Next]_vars PROVE TypeOK'
  OBVIOUS
<1> USE NumbersAreNat DEF TypeOK
<1>1. CASE Tick
  BY <1>1 DEF Tick, slackVars, poolVars
<1>2. ASSUME NEW e \in Events, FirstDelivery(e) PROVE TypeOK'
  <2>1. PICK k \in 0..Skew :
           /\ firstTs' = [firstTs EXCEPT ![e] = clock + k]
           /\ sent' = sent \cup {[event |-> e, ts |-> clock + k]}
    BY <1>2 DEF FirstDelivery
  <2>2. clock + k \in Nat
    OBVIOUS
  <2> QED
    BY <1>2, <2>1, <2>2 DEF FirstDelivery, Request, poolVars
<1>3. ASSUME NEW e \in Events, Retry(e) PROVE TypeOK'
  <2>1. PICK k \in 0..Skew : sent' = sent \cup {[event |-> e, ts |-> clock + k]}
    BY <1>3 DEF Retry
  <2>2. clock + k \in Nat
    OBVIOUS
  <2> QED
    BY <1>3, <2>1, <2>2 DEF Retry, Request, poolVars
<1>4. ASSUME NEW p \in Procs, Accept(p) PROVE TypeOK'
  <2>1. PICK r \in sent : handler' = [handler EXCEPT ![p] =
            [phase |-> "verified", event |-> r.event, stamp |-> 0, sight |-> 0]]
    BY <1>4 DEF Accept
  <2>2. r.event \in Events
    BY DEF Request
  <2>3. [phase |-> "verified", event |-> r.event, stamp |-> 0, sight |-> 0] \in Serving
    BY <2>2 DEF Serving
  <2> QED
    BY <1>4, <2>1, <2>3 DEF Accept, slackVars, poolVars
<1>5. ASSUME NEW p \in Procs, Stamp(p) PROVE TypeOK'
  <2>1. handler[p] \in Serving
    BY <1>5 DEF Stamp, Idle
  <2>2. [handler[p] EXCEPT !.phase = "stamped", !.stamp = clock] \in Serving
    BY <2>1 DEF Serving
  <2> QED
    BY <1>5, <2>2 DEF Stamp, slackVars, poolVars
<1>6. ASSUME NEW p \in Procs, Insert(handler[p])
      PROVE  /\ seen' \in [Events -> Nat \cup {NoRow}]
             /\ sights' \in [Events -> Seq(Sight)]
             /\ <<handler[p].event, Len(sights[handler[p].event]) + 1>> \in Jobs
  <2>1. /\ handler[p].event \in Events /\ handler[p].stamp \in Nat
        /\ [stamp |-> handler[p].stamp, at |-> clock] \in Sight
        /\ sights' = [sights EXCEPT ![handler[p].event] =
                        Append(@, [stamp |-> handler[p].stamp, at |-> clock])]
    BY <1>6, Inserted
  <2>2. seen' \in [Events -> Nat \cup {NoRow}]
    BY <1>6, <2>1 DEF Insert
  <2>3. sights' \in [Events -> Seq(Sight)] /\ Len(sights[handler[p].event]) \in Nat
    BY <2>1, SightAdded
  <2> QED
    BY <2>1, <2>2, <2>3 DEF Jobs
<1>7. ASSUME NEW p \in Procs, RecordFirstSight(p) PROVE TypeOK'
  <2> DEFINE n == Len(sights[handler[p].event]) + 1
  <2>1. Insert(handler[p])
    BY <1>7 DEF RecordFirstSight
  <2>2. handler[p] \in Serving /\ n \in Nat
    BY <1>6, <2>1, Inserted DEF Jobs
  <2>3. [handler[p] EXCEPT !.phase = "recorded", !.sight = n] \in Serving
    BY <2>2 DEF Serving
  <2>4. handler' = [handler EXCEPT ![p] = [handler[p] EXCEPT !.phase = "recorded", !.sight = n]]
    BY <1>7 DEF RecordFirstSight
  <2> HIDE DEF n
  <2>5. handler' \in [Procs -> Serving \cup {Idle}]
    BY <2>3, <2>4
  <2> QED
    BY <1>6, <1>7, <2>1, <2>5 DEF RecordFirstSight, slackVars, poolVars
<1>8. ASSUME NEW p \in Procs, CommitUnacknowledged(p) PROVE TypeOK'
  <2>1. Insert(handler[p])
    BY <1>8 DEF CommitUnacknowledged
  <2> QED
    BY <1>6, <1>8, <2>1 DEF CommitUnacknowledged, slackVars, poolVars
<1>9. ASSUME NEW p \in Procs, AckDuplicate(p) \/ TransactionFails(p) \/ AckIgnored(p) PROVE TypeOK'
  BY <1>9 DEF AckDuplicate, TransactionFails, AckIgnored, slackVars, poolVars
<1>10. Recorded \subseteq Jobs /\ \A p \in Procs : InMemory(p) \subseteq Jobs /\ Held(p) \subseteq Jobs
  BY DEF JobInv, Recorded, InMemory
<1>11. ASSUME NEW p \in Procs, RouteRaises(p) PROVE TypeOK'
  BY <1>10, <1>11 DEF RouteRaises, slackVars, poolVars
<1>12. ASSUME NEW p \in Procs, Dispatch(p) PROVE TypeOK'
  <2>1. /\ handler[p].event \in Events /\ handler[p].sight \in Nat
        /\ <<handler[p].event, handler[p].sight>> \in Held(p)
    BY <1>12, ServingFields DEF Dispatch, Held, Idle
  <2>2. /\ queue' = [queue EXCEPT ![p] = Append(@, <<handler[p].event, handler[p].sight>>)]
        /\ dispatched' = [dispatched EXCEPT ![handler[p].event] = Append(@, handler[p].sight)]
        /\ handler' = [handler EXCEPT ![p] = Idle]
    BY <1>12 DEF Dispatch
  <2>3. /\ Append(queue[p], <<handler[p].event, handler[p].sight>>) \in Seq(Jobs)
        /\ Append(dispatched[handler[p].event], handler[p].sight) \in Seq(Nat)
    BY <1>10, <2>1
  <2>4. /\ queue' \in [Procs -> Seq(Jobs)]
        /\ dispatched' \in [Events -> Seq(Nat)]
        /\ handler' \in [Procs -> Serving \cup {Idle}]
    BY <2>2, <2>3
  <2> QED
    BY <1>12, <2>4 DEF Dispatch, slackVars
<1>13. ASSUME NEW p \in Procs, StartJob(p) PROVE TypeOK'
  BY <1>13 DEF StartJob, slackVars
<1>14. ASSUME NEW p \in Procs, NEW j \in running[p], FinishJob(p, j) PROVE TypeOK'
  BY <1>14 DEF FinishJob, slackVars
<1>15. ASSUME NEW p \in Procs, Shutdown(p) PROVE TypeOK'
  BY <1>15 DEF Shutdown, slackVars, poolVars
<1>16. ASSUME NEW p \in Procs, Restart(p) PROVE TypeOK'
  <2>1. queue' \in [Procs -> Seq(Jobs)]
    BY <1>16 DEF Restart
  <2> QED
    BY <1>16, <2>1 DEF Restart, slackVars
<1>17. ASSUME NEW p \in Procs, Crash(p) PROVE TypeOK'
  <2>1. queue' \in [Procs -> Seq(Jobs)]
    BY <1>17 DEF Crash
  <2> QED
    BY <1>10, <1>17, <2>1 DEF Crash, slackVars
<1>18. CASE UNCHANGED vars
  BY <1>18 DEF vars
<1> QED
  BY <1>1, <1>2, <1>3, <1>4, <1>5, <1>7, <1>8, <1>9, <1>11, <1>12, <1>13, <1>14, <1>15, <1>16,
     <1>17, <1>18 DEF Next

----------------------------------------------------------------------------
(* The table.                                                                *)

LEMMA InitTable == Init => TableInv
BY EmptySeq DEF Init, TableInv, StampInv, SightInv, TableBounded, Idle

\* The heart of the proof: an event without a row, or with an expired one, has no first
\* sight within the TTL of the commit; and all rows that the commit leaves are within
\* one TTL of the one it writes, or older by a handler's delay.
LEMMA InsertKeeps ==
  ASSUME TypeOK, TableInv, NEW p \in Procs, Insert(handler[p]), clock' = clock
  PROVE  SightInv' /\ TableBounded'
<1> DEFINE h == handler[p]
           ev == h.event
           n == Len(sights[ev]) + 1
<1> USE NumbersAreNat
<1>1. /\ ev \in Events /\ h.stamp \in Nat /\ h.stamp <= clock /\ clock \in Nat
      /\ [stamp |-> h.stamp, at |-> clock] \in Sight
      /\ sights' = [sights EXCEPT ![ev] = Append(@, [stamp |-> h.stamp, at |-> clock])]
  BY Inserted DEF Insert, TableInv, StampInv, TypeOK
<1>2. /\ sights' \in [Events -> Seq(Sight)]
      /\ n \in Nat \ {0} /\ n - 1 = Len(sights[ev]) /\ Len(sights'[ev]) = n
      /\ \A i \in 1..(n - 1) : sights'[ev][i] = sights[ev][i]
      /\ sights'[ev][n].stamp = h.stamp /\ sights'[ev][n].at = clock
      /\ \A d \in Events : d # ev => sights'[d] = sights[d]
  <2> DEFINE r == [stamp |-> h.stamp, at |-> clock]
  <2>1. r.stamp = h.stamp /\ r.at = clock
    OBVIOUS
  <2>2. r \in Sight /\ sights' = [sights EXCEPT ![ev] = Append(@, r)]
    BY <1>1
  <2> HIDE DEF r, n
  <2>3. /\ sights' \in [Events -> Seq(Sight)]
        /\ Len(sights[ev]) \in Nat
        /\ Len(sights'[ev]) = Len(sights[ev]) + 1
        /\ \A i \in 1..Len(sights[ev]) : sights'[ev][i] = sights[ev][i]
        /\ sights'[ev][Len(sights[ev]) + 1] = r
        /\ \A d \in Events : d # ev => sights'[d] = sights[d]
    BY <1>1, <2>2, SightAdded
  <2>4. n = Len(sights[ev]) + 1
    BY DEF n
  <2>5. n \in Nat \ {0} /\ n - 1 = Len(sights[ev])
    BY <2>3, <2>4
  <2> QED
    BY <2>1, <2>3, <2>4, <2>5
<1>3. \A e \in Events : /\ Len(sights[e]) \in Nat
                        /\ (sights[e] # <<>> => Len(sights[e]) \in 1..Len(sights[e]))
                        /\ (Len(sights[e]) # 0 => sights[e] # <<>>)
                        /\ \A i \in 1..Len(sights[e]) :
                             sights[e][i].stamp \in Nat /\ sights[e][i].at \in Nat
  BY SightFields DEF TypeOK
<1>4. /\ seen[ev] = NoRow \/ ev \in Expired(h.stamp)
      /\ \A e \in Events : seen'[e] = IF e = ev THEN h.stamp
                                      ELSE IF e \in Expired(h.stamp) THEN NoRow ELSE seen[e]
      /\ \A e \in Events : seen[e] \in Nat \cup {NoRow}
  BY DEF Insert, TypeOK
<1>5. sights[ev] # <<>> => clock > sights[ev][n - 1].stamp + Ttl
  <2> SUFFICES ASSUME sights[ev] # <<>> PROVE clock > sights[ev][n - 1].stamp + Ttl
    OBVIOUS
  <2>1. CASE seen[ev] = NoRow
    <3>1. n - 1 = Len(sights[ev])
      BY <1>2
    <3>2. clock > sights[ev][Len(sights[ev])].stamp + Ttl
      BY <1>1, <2>1 DEF TableInv, SightInv
    <3> HIDE DEF n
    <3> QED
      BY <3>1, <3>2
  <2>2. CASE ev \in Expired(h.stamp)
    <3>1. seen[ev] < h.stamp - Ttl /\ seen[ev] # NoRow
      BY <2>2 DEF Expired
    <3>2. seen[ev] = sights[ev][n - 1].stamp
      <4>1. n - 1 = Len(sights[ev])
        BY <1>2
      <4>2. seen[ev] = sights[ev][Len(sights[ev])].stamp
        BY <1>1, <3>1 DEF TableInv, SightInv
      <4> HIDE DEF n
      <4> QED
        BY <4>1, <4>2
    <3> QED
      BY <1>1, <1>4, <3>1, <3>2
  <2> QED
    BY <1>4, <2>1, <2>2
<1> HIDE DEF n, h, ev
<1>6. ASSUME NEW i \in 1..(n - 1) PROVE clock > sights[ev][i].stamp + Ttl
  <2>1. /\ sights[ev] # <<>> /\ n - 1 \in 1..(n - 1)
        /\ sights[ev][i].stamp \in Nat /\ sights[ev][n - 1].at \in Nat
    BY <1>1, <1>2, <1>3
  <2>2. CASE i = n - 1
    BY <1>5, <2>1, <2>2
  <2>3. CASE i # n - 1
    <3>1. i < n - 1
      BY <1>2, <2>3
    <3> DEFINE t == sights[ev][n - 1].at
               u == sights[ev][i].stamp + Ttl
    <3>2. t > u /\ t <= clock
      BY <1>1, <1>2, <2>1, <3>1 DEF TableInv, SightInv
    <3>3. t \in Nat /\ u \in Nat /\ clock \in Nat
      BY <1>1, <2>1
    <3> HIDE DEF t, u
    <3>4. clock > u
      BY <3>2, <3>3
    <3> QED
      BY <3>4 DEF u
  <2> QED
    BY <2>2, <2>3
<1>7. SightInv'
  <2> SUFFICES ASSUME NEW e \in Events
               PROVE  /\ \A i \in 1..Len(sights'[e]) : sights'[e][i].at <= clock
                      /\ \A i, j \in 1..Len(sights'[e]) :
                           i < j => sights'[e][j].at > sights'[e][i].stamp + Ttl
                      /\ seen'[e] # NoRow =>
                           sights'[e] # <<>> /\ seen'[e] = sights'[e][Len(sights'[e])].stamp
                      /\ seen'[e] = NoRow /\ sights'[e] # <<>> =>
                           clock > sights'[e][Len(sights'[e])].stamp + Ttl
    BY DEF SightInv
  <2>1. CASE e = ev
    <3>1. \A i \in 1..n : i \in 1..(n - 1) \/ i = n
      BY <1>2
    <3>2. \A i \in 1..n : sights'[ev][i].at <= clock
      BY <1>1, <1>2, <3>1 DEF TableInv, SightInv
    <3>3. ASSUME NEW i \in 1..n, NEW j \in 1..n, i < j
          PROVE  sights'[ev][j].at > sights'[ev][i].stamp + Ttl
      <4>1. i \in 1..(n - 1)
        BY <1>2, <3>3
      <4>2. CASE j = n
        BY <1>2, <1>6, <4>1, <4>2
      <4>3. CASE j # n
        <5>1. j \in 1..(n - 1)
          BY <3>1, <4>3
        <5> QED
          BY <1>1, <1>2, <3>3, <4>1, <5>1 DEF TableInv, SightInv
      <4> QED
        BY <4>2, <4>3
    <3>4. seen'[ev] = sights'[ev][n].stamp /\ seen'[ev] # NoRow /\ sights'[ev] # <<>>
      BY <1>1, <1>2, <1>4, EmptySeq DEF NoRow
    <3> QED
      BY <1>2, <2>1, <3>2, <3>3, <3>4
  <2>2. CASE e # ev
    <3>1. sights'[e] = sights[e] /\ seen'[e] = IF e \in Expired(h.stamp) THEN NoRow ELSE seen[e]
      BY <1>2, <1>4, <2>2
    <3>2. e \in Expired(h.stamp) => clock > sights[e][Len(sights[e])].stamp + Ttl
      BY <1>1, <1>4 DEF Expired, TableInv, SightInv
    <3> QED
      BY <3>1, <3>2 DEF TableInv, SightInv
  <2> QED
    BY <2>1, <2>2
<1>8. TableBounded'
  <2> SUFFICES ASSUME NEW d \in Events, NEW e \in Events, seen'[d] # NoRow, seen'[e] # NoRow,
                      seen'[d] - seen'[e] > Ttl
               PROVE  sights'[e][Len(sights'[e])].at >= sights'[d][Len(sights'[d])].at
    BY DEF TableBounded
  <2>1. CASE e = ev
    <3>1. sights'[e][Len(sights'[e])].at = clock
      BY <1>2, <2>1
    <3>2. sights'[d] # <<>> /\ Len(sights'[d]) \in Nat /\ (Len(sights'[d]) # 0 => Len(sights'[d]) \in 1..Len(sights'[d]))
      BY <1>2, <1>7, LenProperties DEF SightInv
    <3>3. Len(sights'[d]) # 0
      BY <1>2, <3>2, EmptySeq
    <3>4. sights'[d][Len(sights'[d])].at <= clock /\ sights'[d][Len(sights'[d])].at \in Nat
      <4>1. sights'[d] \in Seq(Sight)
        BY <1>2
      <4>2. Len(sights'[d]) \in 1..Len(sights'[d])
        BY <3>2, <3>3
      <4> QED
        BY <1>7, <4>1, <4>2, SightFields DEF SightInv
    <3> QED
      BY <1>1, <3>1, <3>4
  <2>2. CASE e # ev
    <3>1. seen'[e] = seen[e] /\ seen[e] >= h.stamp - Ttl /\ seen[e] # NoRow /\ seen[e] \in Nat
      BY <1>1, <1>4, <2>2 DEF Expired
    <3>2. d # ev
      BY <1>1, <1>4, <3>1
    <3>3. seen'[d] = seen[d] /\ sights'[d] = sights[d] /\ sights'[e] = sights[e]
      BY <1>2, <1>4, <2>2, <3>2
    <3> QED
      BY <3>1, <3>3 DEF TableInv, TableBounded
  <2> QED
    BY <2>1, <2>2
<1> QED
  BY <1>7, <1>8

LEMMA TableStep == TypeOK /\ TableInv /\ [Next]_vars => TableInv'
<1> SUFFICES ASSUME TypeOK, TableInv, [Next]_vars PROVE TableInv'
  OBVIOUS
<1>1. ASSUME UNCHANGED <<clock, seen, sights>>,
             \A p \in Procs : handler'[p].phase = "stamped" =>
               handler'[p] = handler[p] \/ handler'[p].stamp = clock
      PROVE  TableInv'
  <2>1. StampInv'
    <3>1. clock \in Nat
      BY DEF TypeOK
    <3> QED
      BY <1>1, <3>1 DEF TableInv, StampInv
  <2> QED
    BY <1>1, <2>1 DEF TableInv, SightInv, TableBounded
<1>2. CASE Tick
  <2>1. clock' = clock + 1 /\ clock \in Nat /\ UNCHANGED <<handler, seen, sights>>
    BY <1>2 DEF Tick, TypeOK
  <2>2. StampInv'
    <3> SUFFICES ASSUME NEW p \in Procs, handler[p].phase = "stamped"
                 PROVE  handler[p].stamp <= clock'
      BY <2>1 DEF StampInv
    <3>1. handler[p].stamp \in Nat
      BY ServingFields DEF Idle
    <3> QED
      BY <2>1, <3>1 DEF TableInv, StampInv
  <2>3. SightInv'
    <3>1. \A e \in Events : /\ Len(sights[e]) \in Nat
                            /\ (sights[e] # <<>> => Len(sights[e]) \in 1..Len(sights[e]))
                            /\ \A i \in 1..Len(sights[e]) :
                                 sights[e][i].stamp \in Nat /\ sights[e][i].at \in Nat
      BY SightFields DEF TypeOK
    <3> QED
      BY <2>1, <3>1, NumbersAreNat DEF TableInv, SightInv
  <2> QED
    BY <2>1, <2>2, <2>3 DEF TableInv, TableBounded
<1>3. ASSUME NEW e \in Events, FirstDelivery(e) \/ Retry(e) PROVE TableInv'
  BY <1>1, <1>3 DEF FirstDelivery, Retry
<1>4. ASSUME NEW p \in Procs, NEW h, handler' = [handler EXCEPT ![p] = h],
             h.phase = "stamped" => h.stamp = clock, UNCHANGED <<clock, seen, sights>>
      PROVE  TableInv'
  <2>1. \A q \in Procs : handler'[q] = IF q = p THEN h ELSE handler[q]
    BY <1>4 DEF TypeOK
  <2> QED
    BY <1>1, <1>4, <2>1
<1>5. ASSUME NEW p \in Procs, Accept(p) PROVE TableInv'
  <2>1. PICK r \in sent :
          handler' = [handler EXCEPT ![p] =
            [phase |-> "verified", event |-> r.event, stamp |-> 0, sight |-> 0]]
    BY <1>5 DEF Accept
  <2> DEFINE h == [phase |-> "verified", event |-> r.event, stamp |-> 0, sight |-> 0]
  <2>2. h.phase # "stamped" /\ UNCHANGED <<clock, seen, sights>>
    BY <1>5 DEF Accept
  <2> HIDE DEF h
  <2> QED
    BY <1>4, <2>1, <2>2 DEF h
<1>6. ASSUME NEW p \in Procs, Stamp(p) PROVE TableInv'
  <2> DEFINE h == [handler[p] EXCEPT !.phase = "stamped", !.stamp = clock]
  <2>1. handler[p] \in Serving
    BY <1>6, ServingFields DEF Stamp
  <2>2. handler' = [handler EXCEPT ![p] = h] /\ h.stamp = clock /\ UNCHANGED <<clock, seen, sights>>
    BY <1>6, <2>1 DEF Stamp, Serving
  <2> HIDE DEF h
  <2> QED
    BY <1>4, <2>2
<1>7. Idle.phase # "stamped"
  BY DEF Idle
<1>8. ASSUME NEW p \in Procs, RecordFirstSight(p) \/ CommitUnacknowledged(p) PROVE TableInv'
  <2>1. Insert(handler[p]) /\ clock' = clock
    BY <1>8 DEF RecordFirstSight, CommitUnacknowledged
  <2>2. /\ \A q \in Procs : q # p => handler'[q] = handler[q]
        /\ handler'[p].phase # "stamped"
    <3>1. CASE RecordFirstSight(p)
      <4>1. handler[p] \in Serving
        BY <2>1, Inserted
      <4> QED
        BY <3>1, <4>1 DEF RecordFirstSight, TypeOK, Serving
    <3>2. CASE CommitUnacknowledged(p)
      BY <1>7, <3>2 DEF CommitUnacknowledged, TypeOK
    <3> QED
      BY <1>8, <3>1, <3>2
  <2>3. StampInv'
    BY <2>1, <2>2 DEF TableInv, StampInv
  <2> QED
    BY <2>1, <2>3, InsertKeeps DEF TableInv
<1>9. ASSUME NEW p \in Procs, \/ AckDuplicate(p) \/ TransactionFails(p) \/ AckIgnored(p)
                              \/ RouteRaises(p) \/ Dispatch(p) \/ Crash(p)
      PROVE  TableInv'
  <2>1. handler' = [handler EXCEPT ![p] = Idle] /\ UNCHANGED <<clock, seen, sights>>
    BY <1>9 DEF AckDuplicate, TransactionFails, AckIgnored, RouteRaises, Dispatch, Crash
  <2> QED
    BY <1>4, <1>7, <2>1
<1>10. ASSUME NEW p \in Procs, \/ StartJob(p) \/ Shutdown(p) \/ Restart(p)
                               \/ \E j \in running[p] : FinishJob(p, j)
       PROVE  TableInv'
  BY <1>1, <1>10 DEF StartJob, Shutdown, Restart, FinishJob
<1>11. CASE UNCHANGED vars
  BY <1>1, <1>11 DEF vars
<1> QED
  BY <1>2, <1>3, <1>5, <1>6, <1>8, <1>9, <1>10, <1>11 DEF Next

----------------------------------------------------------------------------
(* The jobs.                                                                 *)

JobsInv == JobInv /\ SubmitInv /\ OwedInv

LEMMA InitJobs == Init => JobsInv
<1> SUFFICES ASSUME Init PROVE JobsInv
  OBVIOUS
<1>1. /\ \A p \in Procs : queue[p] = <<>> /\ running[p] = {} /\ Held(p) = {}
      /\ Ended = {}
      /\ \A e \in Events : sights[e] = <<>> /\ dispatched[e] = <<>>
  BY DEF Init, Held, Idle, Ended
<1>2. Of(<<>>) = {} /\ Once(<<>>) /\ Len(<<>>) = 0
  BY EmptySeq DEF Of, Once
<1>3. \A p \in Procs : InMemory(p) = {} /\ InPool(p) = {}
  BY <1>1, <1>2 DEF InMemory, InPool, Of
<1>4. Owed = {}
  BY <1>1, <1>2 DEF Owed
<1> QED
  BY <1>1, <1>2, <1>3, <1>4 DEF JobsInv, JobInv, SubmitInv, OwedInv

LEMMA MemoryIs ==
  ASSUME NEW p \in Procs
  PROVE  /\ InMemory(p) = InPool(p) \cup Held(p)
         /\ InMemory(p)' = InPool(p)' \cup Held(p)'
BY DEF InMemory, InPool, Of

LEMMA PoolIs ==
  ASSUME NEW p \in Procs, queue'[p] = queue[p], running'[p] = running[p]
  PROVE  InPool(p)' = InPool(p)
BY DEF InPool, Of

LEMMA DropsHeld ==
  ASSUME NEW p \in Procs, handler'[p] = Idle,
         \A q \in Procs : q # p => handler'[q] = handler[q]
  PROVE  Held(p)' = {} /\ \A q \in Procs : q # p => Held(q)' = Held(q)
<1>1. handler'[p].phase # "recorded"
  BY DEF Idle
<1>2. Held(p)' = {}
  BY <1>1 DEF Held
<1> QED
  BY <1>2 DEF Held

\* What counts is where the jobs are.
LEMMA JobsKept ==
  ASSUME JobsInv, UNCHANGED <<queue, running, sights, dispatched>>, Ended' = Ended,
         \A p \in Procs : Held(p)' = Held(p)
  PROVE  JobsInv'
<1>1. \A p \in Procs : InPool(p)' = InPool(p) /\ InMemory(p)' = InMemory(p)
  BY MemoryIs, PoolIs
<1>2. Recorded' = Recorded /\ Owed' = Owed
  BY DEF Recorded, Owed
<1>3. JobInv'
  BY <1>1, <1>2 DEF JobsInv, JobInv, Of, Once
<1>4. SubmitInv'
  BY DEF JobsInv, SubmitInv, Of, Once
<1> QED
  BY <1>1, <1>2, <1>3, <1>4 DEF JobsInv, OwedInv

\* The handler of p goes from one state to another without holding a job in either.
LEMMA HandlerMoves ==
  ASSUME TypeOK, JobsInv, NEW p \in Procs, NEW h, handler' = [handler EXCEPT ![p] = h],
         Held(p) = {}, h.phase # "recorded",
         UNCHANGED <<queue, running, sights, dispatched>>, Ended' = Ended
  PROVE  JobsInv'
<1>1. \A q \in Procs : handler'[q] = IF q = p THEN h ELSE handler[q]
  BY DEF TypeOK
<1>2. \A q \in Procs : Held(q)' = Held(q)
  BY <1>1 DEF Held
<1> QED
  BY <1>2, JobsKept

\* A new first sight is one that nobody has, and the only new one.
LEMMA NewSight ==
  ASSUME TypeOK, NEW p \in Procs, Insert(handler[p])
  PROVE  LET e == handler[p].event
             n == Len(sights[e]) + 1
         IN /\ n \in Nat \ {0} /\ e \in Events
            /\ Recorded \subseteq Recorded' /\ <<e, n>> \in Recorded' \ Recorded
            /\ n \notin 1..Len(sights[e])
            /\ \A d \in Events : 1..Len(sights[d]) \subseteq 1..Len(sights'[d])
            /\ Owed' \subseteq Owed \cup {<<e, n>>}
            /\ e \in Ignored => Owed' \subseteq Owed
<1> DEFINE e == handler[p].event
           n == Len(sights[e]) + 1
           r == [stamp |-> handler[p].stamp, at |-> clock]
<1>1. e \in Events /\ r \in Sight /\ sights' = [sights EXCEPT ![e] = Append(@, r)]
  BY Inserted
<1> HIDE DEF r, e
<1>2. /\ Len(sights[e]) \in Nat /\ Len(sights'[e]) = n
      /\ \A d \in Events : d # e => sights'[d] = sights[d]
  BY <1>1, SightAdded
<1>3. /\ n \in Nat \ {0} /\ n \notin 1..Len(sights[e])
      /\ 1..n = (1..Len(sights[e])) \cup {n} /\ n \in 1..n
  BY <1>2
<1> HIDE DEF n
<1>4. \A d \in Events : 1..Len(sights'[d]) = IF d = e THEN (1..Len(sights[e])) \cup {n} ELSE 1..Len(sights[d])
  BY <1>2, <1>3
<1>5. /\ Recorded \subseteq Recorded' /\ <<e, n>> \in Recorded' \ Recorded
  BY <1>1, <1>3, <1>4 DEF Recorded, Jobs
<1>6. /\ Owed' \subseteq Owed \cup {<<e, n>>}
      /\ e \in Ignored => Owed' \subseteq Owed
  <2> SUFFICES ASSUME NEW d \in Events \ Ignored, NEW k \in 1..Len(sights'[d]), <<d, k>> \notin Owed
               PROVE  d = e /\ k = n
    BY DEF Owed
  <2>1. k \notin 1..Len(sights[d])
    BY DEF Owed
  <2> QED
    BY <1>4, <2>1
<1> QED
  BY <1>1, <1>3, <1>4, <1>5, <1>6 DEF e, n

LEMMA RecordKeepsJobs ==
  ASSUME TypeOK, JobsInv, NEW p \in Procs, RecordFirstSight(p)
  PROVE  JobsInv'
<1> DEFINE e == handler[p].event
           n == Len(sights[e]) + 1
<1>1. /\ UNCHANGED <<queue, running, processed, dispatched, lost, failed>>
      /\ Insert(handler[p])
      /\ handler' = [handler EXCEPT ![p].phase = "recorded", ![p].sight = n]
  BY DEF RecordFirstSight, poolVars
<1>2. handler[p] \in Serving /\ handler[p].phase # "recorded"
  BY <1>1, Inserted DEF Insert
<1>3. /\ handler'[p].phase = "recorded" /\ handler'[p].event = e /\ handler'[p].sight = n
      /\ \A q \in Procs : q # p => handler'[q] = handler[q]
  BY <1>1, <1>2 DEF TypeOK, Serving
<1>4. /\ n \in Nat \ {0} /\ e \in Events
      /\ Recorded \subseteq Recorded' /\ <<e, n>> \in Recorded' \ Recorded
      /\ n \notin 1..Len(sights[e])
      /\ \A d \in Events : 1..Len(sights[d]) \subseteq 1..Len(sights'[d])
      /\ Owed' \subseteq Owed \cup {<<e, n>>}
      /\ e \in Ignored => Owed' \subseteq Owed
  BY <1>1, NewSight
<1> HIDE DEF n, e
<1>5. /\ Held(p) = {}
      /\ Held(p)' = IF e \in Ignored THEN {} ELSE {<<e, n>>}
      /\ \A q \in Procs : q # p => Held(q)' = Held(q)
  BY <1>2, <1>3 DEF Held
<1>6. Ended' = Ended /\ \A q \in Procs : InPool(q)' = InPool(q)
  BY <1>1 DEF Ended, InPool, Of
<1>7. /\ InMemory(p)' = InMemory(p) \cup Held(p)'
      /\ \A q \in Procs : q # p => InMemory(q)' = InMemory(q)
  BY <1>5, <1>6, MemoryIs
\* Whatever is anywhere is recorded, and <<e, n>> was not.
<1>8. \A q \in Procs : Held(p)' \cap InMemory(q) = {} /\ Held(p)' \cap InPool(q) = {} /\ Held(p)' \cap Ended = {}
  BY <1>4, <1>5, MemoryIs DEF JobsInv, JobInv
<1>9. JobInv'
  <2>1. ASSUME NEW q \in Procs
        PROVE  /\ Once(queue'[q])
               /\ Of(queue'[q]) \cap running'[q] = {}
               /\ Held(q)' \cap InPool(q)' = {}
               /\ InMemory(q)' \subseteq Recorded'
               /\ InMemory(q)' \cap Ended' = {}
    <3>1. Once(queue'[q]) /\ Of(queue'[q]) \cap running'[q] = {}
      BY <1>1 DEF JobsInv, JobInv
    <3>2. Held(q)' \cap InPool(q)' = {}
      BY <1>5, <1>6, <1>8 DEF JobsInv, JobInv
    <3>3. InMemory(q) \subseteq Recorded' /\ Held(p)' \subseteq Recorded'
      BY <1>4, <1>5 DEF JobsInv, JobInv
    <3>4. InMemory(q) \cap Ended = {}
      BY DEF JobsInv, JobInv
    <3>5. CASE q = p
      BY <1>6, <1>7, <1>8, <3>1, <3>2, <3>3, <3>4, <3>5
    <3>6. CASE q # p
      BY <1>6, <1>7, <3>1, <3>2, <3>3, <3>4, <3>6
    <3> QED
      BY <3>5, <3>6
  <2>2. ASSUME NEW q \in Procs, NEW r \in Procs, q # r
        PROVE  InMemory(q)' \cap InMemory(r)' = {}
    <3>1. InMemory(q) \cap InMemory(r) = {}
      BY <2>2 DEF JobsInv, JobInv
    <3> QED
      BY <1>7, <1>8, <2>2, <3>1
  <2>3. Ended' \subseteq Recorded'
    BY <1>4, <1>6 DEF JobsInv, JobInv
  <2> QED
    BY <2>1, <2>2, <2>3 DEF JobInv
<1>10. SubmitInv'
  <2> SUFFICES ASSUME NEW d \in Events
               PROVE  /\ Once(dispatched[d])
                      /\ Of(dispatched[d]) \subseteq 1..Len(sights'[d])
                      /\ \A q \in Procs, k \in Nat : <<d, k>> \in Held(q)' => k \notin Of(dispatched[d])
    BY <1>1 DEF SubmitInv
  <2>1. Once(dispatched[d]) /\ Of(dispatched[d]) \subseteq 1..Len(sights'[d])
    BY <1>4 DEF JobsInv, SubmitInv
  <2>2. ASSUME NEW q \in Procs, NEW k \in Nat, <<d, k>> \in Held(q)' PROVE k \notin Of(dispatched[d])
    <3>1. CASE q = p
      <4>1. d = e /\ k = n
        BY <1>5, <2>2, <3>1
      <4> QED
        BY <1>4, <4>1 DEF JobsInv, SubmitInv
    <3>2. CASE q # p
      BY <1>5, <2>2, <3>2 DEF JobsInv, SubmitInv
    <3> QED
      BY <3>1, <3>2
  <2> QED
    BY <2>1, <2>2
<1>11. OwedInv'
  <2>1. Owed' \subseteq Owed \cup Held(p)'
    BY <1>4, <1>5
  <2>2. \A q \in Procs : InMemory(q) \subseteq InMemory(q)'
    BY <1>7
  <2>3. Held(p)' \subseteq InMemory(p)'
    BY MemoryIs
  <2> QED
    BY <1>6, <2>1, <2>2, <2>3 DEF JobsInv, OwedInv
<1> QED
  BY <1>9, <1>10, <1>11 DEF JobsInv

LEMMA UnacknowledgedKeepsJobs ==
  ASSUME TypeOK, JobsInv, NEW p \in Procs, CommitUnacknowledged(p)
  PROVE  JobsInv'
<1> DEFINE e == handler[p].event
           n == Len(sights[e]) + 1
<1>1. /\ UNCHANGED <<queue, running, processed, dispatched, lost>>
      /\ Insert(handler[p]) /\ failed' = failed \cup {<<e, n>>}
      /\ handler' = [handler EXCEPT ![p] = Idle]
  BY DEF CommitUnacknowledged, poolVars
<1>2. \A q \in Procs : Held(q)' = Held(q)
  <2>1. Held(p) = {}
    BY <1>1 DEF Insert, Held
  <2>2. \A q \in Procs : handler'[q] = IF q = p THEN Idle ELSE handler[q]
    BY <1>1 DEF TypeOK
  <2> QED
    BY <2>1, <2>2 DEF Held, Idle
<1>3. /\ n \in Nat \ {0} /\ e \in Events
      /\ Recorded \subseteq Recorded' /\ <<e, n>> \in Recorded' \ Recorded
      /\ \A d \in Events : 1..Len(sights[d]) \subseteq 1..Len(sights'[d])
      /\ Owed' \subseteq Owed \cup {<<e, n>>}
  BY <1>1, NewSight
<1> HIDE DEF n, e
<1>4. Ended' = Ended \cup {<<e, n>>}
  BY <1>1 DEF Ended
<1>5. \A q \in Procs : InPool(q)' = InPool(q) /\ InMemory(q)' = InMemory(q)
  BY <1>1, <1>2, MemoryIs, PoolIs
<1>6. JobInv'
  <2>1. \A q \in Procs : InMemory(q)' \subseteq Recorded' /\ InMemory(q)' \cap Ended' = {}
    BY <1>3, <1>4, <1>5 DEF JobsInv, JobInv
  <2>2. \A q \in Procs : Once(queue'[q]) /\ Of(queue'[q]) \cap running'[q] = {} /\ Held(q)' \cap InPool(q)' = {}
    BY <1>1, <1>2, <1>5 DEF JobsInv, JobInv
  <2>3. \A q, r \in Procs : q # r => InMemory(q)' \cap InMemory(r)' = {}
    BY <1>5 DEF JobsInv, JobInv
  <2>4. Ended' \subseteq Recorded'
    BY <1>3, <1>4 DEF JobsInv, JobInv
  <2> QED
    BY <2>1, <2>2, <2>3, <2>4 DEF JobInv
<1>7. SubmitInv'
  BY <1>1, <1>2, <1>3 DEF JobsInv, SubmitInv
<1>8. OwedInv'
  BY <1>3, <1>4, <1>5 DEF JobsInv, OwedInv
<1> QED
  BY <1>6, <1>7, <1>8 DEF JobsInv

\* Jobs leave p's memory for an end: the route raised, or p crashed.
LEMMA JobsEnd ==
  ASSUME JobsInv, NEW p \in Procs, NEW S, S \subseteq InMemory(p),
         UNCHANGED <<sights, dispatched>>, Ended' = Ended \cup S,
         Held(p)' \subseteq Held(p),
         \A q \in Procs : q # p => /\ queue'[q] = queue[q] /\ running'[q] = running[q]
                                   /\ Held(q)' = Held(q),
         Once(queue'[p]), Of(queue'[p]) \subseteq Of(queue[p]), running'[p] \subseteq running[p],
         InMemory(p)' = InMemory(p) \ S
  PROVE  JobsInv'
<1>1. \A q \in Procs : q # p => InPool(q)' = InPool(q) /\ InMemory(q)' = InMemory(q)
  BY MemoryIs, PoolIs
<1>2. Recorded' = Recorded /\ Owed' = Owed
  BY DEF Recorded, Owed
<1>3. InPool(p)' \subseteq InPool(p) /\ InMemory(p)' \subseteq InMemory(p)
  BY DEF InPool, Of
<1>4. ASSUME NEW q \in Procs, q # p PROVE S \cap InMemory(q) = {}
  BY <1>4 DEF JobsInv, JobInv
<1>5. JobInv'
  <2>1. ASSUME NEW q \in Procs
        PROVE  /\ Once(queue'[q]) /\ Of(queue'[q]) \cap running'[q] = {}
               /\ Held(q)' \cap InPool(q)' = {}
               /\ InMemory(q)' \subseteq Recorded /\ InMemory(q)' \cap Ended' = {}
    <3>1. /\ Of(queue[q]) \cap running[q] = {} /\ Held(q) \cap InPool(q) = {}
          /\ InMemory(q) \subseteq Recorded /\ InMemory(q) \cap Ended = {} /\ Once(queue[q])
      BY DEF JobsInv, JobInv
    <3>2. CASE q = p
      BY <1>3, <3>1, <3>2
    <3>3. CASE q # p
      BY <1>1, <1>4, <3>1, <3>3
    <3> QED
      BY <3>2, <3>3
  <2>2. \A q, r \in Procs : q # r => InMemory(q)' \cap InMemory(r)' = {}
    <3>1. \A q \in Procs : InMemory(q)' \subseteq InMemory(q)
      BY <1>1, <1>3
    <3> QED
      BY <3>1 DEF JobsInv, JobInv
  <2>3. Ended' \subseteq Recorded
    BY DEF JobsInv, JobInv
  <2> QED
    BY <1>2, <2>1, <2>2, <2>3 DEF JobInv
<1>6. SubmitInv'
  <2>1. \A q \in Procs : Held(q)' \subseteq Held(q)
    OBVIOUS
  <2> QED
    BY <2>1 DEF JobsInv, SubmitInv
<1>7. OwedInv'
  <2>1. \A q \in Procs : InMemory(q) \subseteq InMemory(q)' \cup S
    BY <1>1
  <2> QED
    BY <1>2, <2>1 DEF JobsInv, OwedInv
<1> QED
  BY <1>5, <1>6, <1>7 DEF JobsInv

LEMMA DispatchKeepsJobs ==
  ASSUME TypeOK, JobsInv, NEW p \in Procs, Dispatch(p)
  PROVE  JobsInv'
<1> DEFINE e == handler[p].event
           n == handler[p].sight
           j == <<e, n>>
<1>1. /\ UNCHANGED <<running, processed, sights, lost, failed>>
      /\ handler[p].phase = "recorded" /\ e \notin Ignored
      /\ handler' = [handler EXCEPT ![p] = Idle]
      /\ queue' = [queue EXCEPT ![p] = Append(@, j)]
      /\ dispatched' = [dispatched EXCEPT ![e] = Append(@, n)]
  BY DEF Dispatch
<1>2. /\ e \in Events /\ n \in Nat /\ Held(p) = {j}
  BY <1>1, ServingFields DEF Held, Idle
<1>3. /\ j \in Recorded /\ n \in 1..Len(sights[e]) /\ j \in Jobs
      /\ \A q \in Procs : j \notin InPool(q)
      /\ \A q \in Procs : q # p => j \notin Held(q) /\ j \notin InMemory(q)
      /\ n \notin Of(dispatched[e])
  <2>1. j \in Recorded /\ j \notin InPool(p)
    BY <1>2, MemoryIs DEF JobsInv, JobInv
  <2>2. ASSUME NEW q \in Procs, q # p PROVE j \notin InMemory(q) /\ j \notin Held(q) /\ j \notin InPool(q)
    BY <1>2, <2>2, MemoryIs DEF JobsInv, JobInv
  <2>3. n \notin Of(dispatched[e])
    BY <1>2 DEF JobsInv, SubmitInv
  <2> QED
    BY <2>1, <2>2, <2>3 DEF Recorded
<1>4. /\ \A q \in Procs : q # p => queue'[q] = queue[q] /\ handler'[q] = handler[q]
      /\ queue'[p] = Append(queue[p], j) /\ handler'[p] = Idle
      /\ queue[p] \in Seq(Jobs) /\ dispatched[e] \in Seq(Nat)
      /\ \A d \in Events : dispatched'[d] = IF d = e THEN Append(dispatched[e], n) ELSE dispatched[d]
  BY <1>1, <1>2 DEF TypeOK
<1> HIDE DEF j
<1>5. /\ Of(queue'[p]) = Of(queue[p]) \cup {j} /\ Once(queue'[p])
  <2>1. Once(queue[p]) /\ j \notin Of(queue[p])
    BY <1>3 DEF JobsInv, JobInv, InPool
  <2> QED
    BY <1>3, <1>4, <2>1, AppendOf
<1>6. /\ Of(Append(dispatched[e], n)) = Of(dispatched[e]) \cup {n}
      /\ Once(Append(dispatched[e], n))
  <2>1. Once(dispatched[e])
    BY <1>2 DEF JobsInv, SubmitInv
  <2> QED
    BY <1>2, <1>3, <1>4, <2>1, AppendOf
<1>7. /\ Held(p)' = {}
      /\ \A q \in Procs : q # p => Held(q)' = Held(q)
  BY <1>4, DropsHeld
<1>8. /\ InPool(p)' = InPool(p) \cup {j}
      /\ \A q \in Procs : q # p => InPool(q)' = InPool(q)
  BY <1>1, <1>4, <1>5 DEF InPool, Of
<1>9. \A q \in Procs : InMemory(q)' = InMemory(q)
  <2>1. InMemory(p)' = InMemory(p)
    BY <1>2, <1>7, <1>8, MemoryIs DEF j
  <2>2. \A q \in Procs : q # p => InMemory(q)' = InMemory(q)
    BY <1>7, <1>8, MemoryIs
  <2> QED
    BY <2>1, <2>2
<1>10. Ended' = Ended /\ Recorded' = Recorded /\ Owed' = Owed
  BY <1>1 DEF Ended, Recorded, Owed
<1>11. JobInv'
  <2>1. ASSUME NEW q \in Procs
        PROVE  /\ Once(queue'[q]) /\ Of(queue'[q]) \cap running'[q] = {} /\ Held(q)' \cap InPool(q)' = {}
    <3>1. Once(queue[q]) /\ Of(queue[q]) \cap running[q] = {} /\ Held(q) \cap InPool(q) = {}
      BY DEF JobsInv, JobInv
    <3>2. CASE q = p
      <4>1. j \notin running[p]
        BY <1>3 DEF InPool
      <4> QED
        BY <1>1, <1>5, <1>7, <3>1, <3>2, <4>1
    <3>3. CASE q # p
      BY <1>1, <1>4, <1>7, <1>8, <3>1, <3>3
    <3> QED
      BY <3>2, <3>3
  <2> QED
    BY <1>9, <1>10, <2>1 DEF JobsInv, JobInv
<1>12. SubmitInv'
  <2> SUFFICES ASSUME NEW d \in Events
               PROVE  /\ Once(dispatched'[d])
                      /\ Of(dispatched'[d]) \subseteq 1..Len(sights'[d])
                      /\ \A q \in Procs, k \in Nat : <<d, k>> \in Held(q)' => k \notin Of(dispatched'[d])
    BY DEF SubmitInv
  <2>1. CASE d = e
    <3>1. dispatched'[d] = Append(dispatched[e], n)
      BY <1>4, <2>1
    <3>2. Of(dispatched'[d]) \subseteq 1..Len(sights'[d])
      BY <1>1, <1>2, <1>3, <1>6, <2>1, <3>1 DEF JobsInv, SubmitInv
    <3>3. ASSUME NEW q \in Procs, NEW k \in Nat, <<d, k>> \in Held(q)' PROVE k \notin Of(dispatched'[d])
      <4>1. q # p /\ <<d, k>> \in Held(q)
        BY <1>7, <3>3
      <4>2. k # n
        BY <1>3, <2>1, <4>1 DEF j
      <4>3. k \notin Of(dispatched[e])
        BY <1>2, <2>1, <4>1 DEF JobsInv, SubmitInv
      <4> QED
        BY <1>6, <3>1, <4>2, <4>3
    <3> QED
      BY <1>6, <3>1, <3>2, <3>3
  <2>2. CASE d # e
    <3>1. dispatched'[d] = dispatched[d] /\ \A q \in Procs : Held(q)' \subseteq Held(q)
      BY <1>4, <1>7, <2>2
    <3> QED
      BY <1>1, <3>1 DEF JobsInv, SubmitInv
  <2> QED
    BY <2>1, <2>2
<1>13. OwedInv'
  BY <1>9, <1>10 DEF JobsInv, OwedInv
<1> QED
  BY <1>11, <1>12, <1>13 DEF JobsInv

\* A thread takes a job that nobody runs and that has not been run.
LEMMA JobTaken ==
  ASSUME TypeOK, JobsInv, NEW p \in Procs, StartJob(p)
  PROVE  /\ \A q \in Procs : q # p => queue'[q] = queue[q] /\ running'[q] = running[q]
         /\ running'[p] = running[p] \cup {Head(queue[p])}
         /\ Of(queue[p]) = {Head(queue[p])} \cup Of(queue'[p])
         /\ Once(queue'[p]) /\ Head(queue[p]) \notin Of(queue'[p])
         /\ Head(queue[p]) \notin Ended
         /\ \A q \in Procs : Head(queue[p]) \notin running[q]
<1>1. /\ queue[p] # <<>> /\ queue[p] \in Seq(Jobs)
      /\ queue'[p] = Tail(queue[p])
      /\ \A q \in Procs : q # p => queue'[q] = queue[q] /\ running'[q] = running[q]
      /\ running'[p] = running[p] \cup {Head(queue[p])}
  BY DEF StartJob, TypeOK
<1>2. /\ Of(queue[p]) = {Head(queue[p])} \cup Of(queue'[p])
      /\ Once(queue'[p]) /\ Head(queue[p]) \notin Of(queue'[p])
  BY <1>1, TailOf DEF JobsInv, JobInv
<1>3. Head(queue[p]) \in Of(queue[p]) /\ Head(queue[p]) \in InMemory(p)
  BY <1>2, MemoryIs DEF InPool
<1>4. Head(queue[p]) \notin Ended /\ Head(queue[p]) \notin running[p]
  BY <1>3 DEF JobsInv, JobInv
<1>5. \A q \in Procs : q # p => Head(queue[p]) \notin running[q]
  BY <1>3, MemoryIs DEF JobsInv, JobInv, InPool
<1> QED
  BY <1>1, <1>2, <1>4, <1>5

LEMMA StartKeepsJobs ==
  ASSUME TypeOK, JobsInv, NEW p \in Procs, StartJob(p)
  PROVE  JobsInv'
<1>1. UNCHANGED <<handler, processed, dispatched, sights, lost, failed>>
  BY DEF StartJob
<1>2. /\ \A q \in Procs : q # p => queue'[q] = queue[q] /\ running'[q] = running[q]
      /\ running'[p] = running[p] \cup {Head(queue[p])}
      /\ Of(queue[p]) = {Head(queue[p])} \cup Of(queue'[p])
      /\ Once(queue'[p]) /\ Head(queue[p]) \notin Of(queue'[p])
  BY JobTaken
<1>3. \A q \in Procs : InPool(q)' = InPool(q) /\ Held(q)' = Held(q)
  <2>1. \A q \in Procs : q # p => Of(queue'[q]) = Of(queue[q])
    BY <1>2
  <2> QED
    BY <1>1, <1>2, <2>1 DEF InPool, Held
<1>4. \A q \in Procs : InMemory(q)' = InMemory(q)
  BY <1>3, MemoryIs
<1>5. Ended' = Ended /\ Recorded' = Recorded /\ Owed' = Owed
  BY <1>1 DEF Ended, Recorded, Owed
<1>6. JobInv'
  <2>1. \A q \in Procs : Once(queue'[q]) /\ Of(queue'[q]) \cap running'[q] = {}
    BY <1>2 DEF JobsInv, JobInv
  <2> QED
    BY <1>3, <1>4, <1>5, <2>1 DEF JobsInv, JobInv
<1>7. SubmitInv'
  BY <1>1, <1>3 DEF JobsInv, SubmitInv
<1> QED
  BY <1>4, <1>5, <1>6, <1>7 DEF JobsInv, OwedInv

LEMMA FinishKeepsJobs ==
  ASSUME TypeOK, JobsInv, NEW p \in Procs, NEW j \in running[p], FinishJob(p, j)
  PROVE  JobsInv'
<1>1. /\ UNCHANGED <<handler, queue, dispatched, sights, lost, failed>>
      /\ processed' = processed \cup {j}
      /\ \A q \in Procs : running'[q] = IF q = p THEN running[p] \ {j} ELSE running[q]
  BY DEF FinishJob, TypeOK
<1>2. \A q \in Procs : Held(q)' = Held(q)
  BY <1>1 DEF Held
<1>3. j \in InMemory(p) /\ j \notin Of(queue[p]) /\ j \notin Held(p)
  BY MemoryIs DEF JobsInv, JobInv, InPool
<1>4. InMemory(p)' = InMemory(p) \ {j}
  BY <1>1, <1>2, <1>3, MemoryIs DEF InPool, Of
<1>5. Ended' = Ended \cup {j}
  BY <1>1 DEF Ended
<1>6. /\ Once(queue'[p]) /\ Of(queue'[p]) \subseteq Of(queue[p])
      /\ running'[p] \subseteq running[p]
      /\ \A q \in Procs : q # p => queue'[q] = queue[q] /\ running'[q] = running[q]
  BY <1>1 DEF JobsInv, JobInv
<1> HIDE DEF JobsInv
<1> QED
  BY <1>1, <1>2, <1>3, <1>4, <1>5, <1>6, JobsEnd

LEMMA RaiseKeepsJobs ==
  ASSUME TypeOK, JobsInv, NEW p \in Procs, RouteRaises(p)
  PROVE  JobsInv'
<1>1. /\ UNCHANGED <<queue, running, processed, dispatched, sights, lost>>
      /\ failed' = failed \cup Held(p)
      /\ \A q \in Procs : handler'[q] = IF q = p THEN Idle ELSE handler[q]
  BY DEF RouteRaises, poolVars, TypeOK
<1>2. Held(p)' = {} /\ \A q \in Procs : q # p => Held(q)' = Held(q)
  BY <1>1, DropsHeld
<1>3. InPool(p)' = InPool(p) /\ Held(p) \cap InPool(p) = {} /\ Held(p) \subseteq InMemory(p)
  BY <1>1, MemoryIs DEF InPool, Of, JobsInv, JobInv
<1>4. InMemory(p)' = InMemory(p) \ Held(p)
  BY <1>2, <1>3, MemoryIs
<1>5. Ended' = Ended \cup Held(p)
  BY <1>1 DEF Ended
<1>6. Once(queue'[p]) /\ Of(queue'[p]) \subseteq Of(queue[p])
  BY <1>1 DEF JobsInv, JobInv
<1> QED
  BY <1>1, <1>2, <1>3, <1>4, <1>5, <1>6, JobsEnd

LEMMA CrashKeepsJobs ==
  ASSUME TypeOK, JobsInv, NEW p \in Procs, Crash(p)
  PROVE  JobsInv'
<1>1. /\ UNCHANGED <<processed, dispatched, sights, failed>>
      /\ lost' = lost \cup InMemory(p)
      /\ \A q \in Procs : q # p => /\ queue'[q] = queue[q] /\ running'[q] = running[q]
                                   /\ handler'[q] = handler[q]
      /\ queue'[p] = <<>> /\ running'[p] = {} /\ handler'[p] = Idle
  BY DEF Crash, TypeOK
<1>2. Of(<<>>) = {} /\ Once(<<>>)
  BY EmptySeq DEF Of, Once
<1>3. Held(p)' = {} /\ \A q \in Procs : q # p => Held(q)' = Held(q)
  BY <1>1, DropsHeld
<1>4. InMemory(p)' = {}
  BY <1>1, <1>2, <1>3, MemoryIs DEF InPool
<1>5. Ended' = Ended \cup InMemory(p)
  BY <1>1 DEF Ended
<1>6. Once(queue'[p]) /\ Of(queue'[p]) \subseteq Of(queue[p]) /\ running'[p] \subseteq running[p]
  BY <1>1, <1>2
<1> QED
  BY <1>1, <1>3, <1>4, <1>5, <1>6, JobsEnd

LEMMA RestartKeepsJobs ==
  ASSUME TypeOK, JobsInv, NEW p \in Procs, Restart(p)
  PROVE  JobsInv'
<1>1. UNCHANGED <<handler, queue, running, processed, dispatched, sights, lost, failed>>
  BY DEF Restart, Drained, TypeOK
<1> QED
  BY <1>1, JobsKept DEF Held, Ended

LEMMA JobsStep == TypeOK /\ JobsInv /\ [Next]_vars => JobsInv'
<1> SUFFICES ASSUME TypeOK, JobsInv, [Next]_vars PROVE JobsInv'
  OBVIOUS
<1>1. ASSUME UNCHANGED <<handler, queue, running, processed, dispatched, sights, lost, failed>>
      PROVE  JobsInv'
  BY <1>1, JobsKept DEF Held, Ended
<1>2. CASE Tick \/ UNCHANGED vars
  BY <1>1, <1>2 DEF Tick, poolVars, vars
<1>3. ASSUME NEW e \in Events, FirstDelivery(e) \/ Retry(e) PROVE JobsInv'
  BY <1>1, <1>3 DEF FirstDelivery, Retry, poolVars
<1>4. ASSUME NEW p \in Procs, Accept(p) PROVE JobsInv'
  <2>1. PICK r \in sent :
          handler' = [handler EXCEPT ![p] =
            [phase |-> "verified", event |-> r.event, stamp |-> 0, sight |-> 0]]
    BY <1>4 DEF Accept
  <2> DEFINE h == [phase |-> "verified", event |-> r.event, stamp |-> 0, sight |-> 0]
  <2>2. h.phase # "recorded" /\ Held(p) = {}
    BY <1>4 DEF Accept, Idle, Held
  <2>3. UNCHANGED <<queue, running, sights, dispatched>> /\ Ended' = Ended
    BY <1>4 DEF Accept, poolVars, Ended
  <2> HIDE DEF h
  <2> QED
    BY <2>1, <2>2, <2>3, HandlerMoves DEF h
<1>5. ASSUME NEW p \in Procs, Stamp(p) PROVE JobsInv'
  <2> DEFINE h == [handler[p] EXCEPT !.phase = "stamped", !.stamp = clock]
  <2>1. handler[p].phase = "verified" /\ handler[p] \in Serving
    BY <1>5, ServingFields DEF Stamp
  <2>2. handler' = [handler EXCEPT ![p] = h] /\ h.phase # "recorded" /\ Held(p) = {}
    BY <1>5, <2>1 DEF Stamp, Serving, Held
  <2>3. UNCHANGED <<queue, running, sights, dispatched>> /\ Ended' = Ended
    BY <1>5 DEF Stamp, poolVars, Ended
  <2> HIDE DEF h
  <2> QED
    BY <2>2, <2>3, HandlerMoves
<1>6. ASSUME NEW p \in Procs, AckDuplicate(p) \/ TransactionFails(p) \/ AckIgnored(p) PROVE JobsInv'
  <2>1. handler' = [handler EXCEPT ![p] = Idle] /\ Held(p) = {}
    BY <1>6 DEF AckDuplicate, TransactionFails, AckIgnored, Held
  <2>2. Idle.phase # "recorded"
    BY DEF Idle
  <2>3. UNCHANGED <<queue, running, sights, dispatched>> /\ Ended' = Ended
    BY <1>6 DEF AckDuplicate, TransactionFails, AckIgnored, poolVars, Ended
  <2> QED
    BY <2>1, <2>2, <2>3, HandlerMoves
<1>7. ASSUME NEW p \in Procs, RecordFirstSight(p) \/ CommitUnacknowledged(p) PROVE JobsInv'
  BY <1>7, RecordKeepsJobs, UnacknowledgedKeepsJobs
<1>8. ASSUME NEW p \in Procs, RouteRaises(p) \/ Dispatch(p) \/ StartJob(p) PROVE JobsInv'
  BY <1>8, RaiseKeepsJobs, DispatchKeepsJobs, StartKeepsJobs
<1>9. ASSUME NEW p \in Procs, NEW j \in running[p], FinishJob(p, j) PROVE JobsInv'
  BY <1>9, FinishKeepsJobs
<1>10. ASSUME NEW p \in Procs, Shutdown(p) PROVE JobsInv'
  BY <1>1, <1>10 DEF Shutdown, poolVars
<1>11. ASSUME NEW p \in Procs, Restart(p) \/ Crash(p) PROVE JobsInv'
  BY <1>11, RestartKeepsJobs, CrashKeepsJobs
<1> QED
  BY <1>2, <1>3, <1>4, <1>5, <1>6, <1>7, <1>8, <1>9, <1>10, <1>11 DEF Next

----------------------------------------------------------------------------
(* The theorems.                                                             *)

THEOREM Invariance == Spec => []IInv
<1>1. Init => IInv
  BY InitType, InitTable, InitJobs DEF IInv, JobsInv
<1>2. IInv /\ [Next]_vars => IInv'
  BY TypeStep, TableStep, JobsStep DEF IInv, JobsInv
<1> QED
  BY <1>1, <1>2, PTL DEF Spec

\* Type correctness of the webhook, the table and the pools.
THEOREM TypeCorrect == Spec => []TypeOK
BY Invariance, PTL DEF IInv

\* For every number of events, worker processes, retries, replays and crashes and every
\* delay of a handler: two first sights of an event are more than a TTL apart, and each
\* is submitted to an agent pool at most once.
THEOREM DispatchedOncePerTtl == Spec => []OncePerTtl
<1>1. IInv => OncePerTtl
  <2> SUFFICES ASSUME IInv, NEW e \in Events
               PROVE  /\ \A i, j \in 1..Len(sights[e]) :
                           i < j => sights[e][j].at > sights[e][i].stamp + Ttl
                      /\ \A i, j \in 1..Len(dispatched[e]) :
                           dispatched[e][i] = dispatched[e][j] => i = j
                      /\ \A i \in 1..Len(dispatched[e]) : dispatched[e][i] \in 1..Len(sights[e])
    BY DEF OncePerTtl
  <2>1. \A i, j \in 1..Len(sights[e]) :
          i < j => sights[e][j].at > sights[e][i].stamp + Ttl
    BY DEF IInv, TableInv, SightInv
  <2>2. Once(dispatched[e]) /\ Of(dispatched[e]) \subseteq 1..Len(sights[e])
    BY DEF IInv, SubmitInv
  <2> QED
    BY <2>1, <2>2 DEF Once, Of
<1> QED
  BY <1>1, Invariance, PTL

\* The rows of slack_seen_events are never further apart than the TTL, but for rows that
\* a slow handler wrote with an old clock reading.
THEOREM TableStaysBounded == Spec => []TableBounded
BY Invariance, PTL DEF IInv, TableInv

\* Whatever is retried, refused, shut down, killed or left unacknowledged: the job of a
\* first sight that makes every redelivery a duplicate is in one place on its way to
\* process_event or has been there, unless a crash took it or the route answered 500.
THEOREM NothingIsDropped == Spec => []NothingDropped
<1>1. IInv => NothingDropped
  <2> SUFFICES ASSUME IInv PROVE NothingDropped
    OBVIOUS
  <2>1. Owed \subseteq processed \cup lost \cup failed \cup UNION {InMemory(p) : p \in Procs}
    BY DEF IInv, OwedInv, Ended
  <2>2. /\ \A p \in Procs : InMemory(p) \cap (processed \cup lost \cup failed) = {}
        /\ \A p, q \in Procs : p # q => InMemory(p) \cap InMemory(q) = {}
    BY DEF IInv, JobInv, Ended
  <2> QED
    BY <2>1, <2>2 DEF NothingDropped
<1> QED
  BY <1>1, Invariance, PTL

\* No pool thread of any process takes up a job that a thread has or has had: a first
\* sight is worth one run of the agent (api/routes/slack.py:57).
JobsRunOnce ==
  [][\A p, q \in Procs : (running'[p] \ running[p]) \cap (processed \cup running[q]) = {}]_vars

THEOREM SightsRunOnce == Spec => JobsRunOnce
<1> DEFINE A == \A p, q \in Procs : (running'[p] \ running[p]) \cap (processed \cup running[q]) = {}
<1>1. IInv /\ [Next]_vars => [A]_vars
  <2> SUFFICES ASSUME IInv, Next PROVE A
    OBVIOUS
  <2>1. TypeOK /\ JobsInv
    BY DEF IInv, JobsInv
  <2>2. ASSUME NEW p \in Procs, StartJob(p) PROVE A
    <3>1. /\ \A q \in Procs : q # p => running'[q] = running[q]
          /\ running'[p] = running[p] \cup {Head(queue[p])}
          /\ Head(queue[p]) \notin Ended
          /\ \A q \in Procs : Head(queue[p]) \notin running[q]
      BY <2>1, <2>2, JobTaken
    <3> QED
      BY <3>1 DEF Ended
  <2>3. ASSUME NEW p \in Procs, Restart(p) \/ Crash(p) \/ \E j \in running[p] : FinishJob(p, j) PROVE A
    <3>1. \A q \in Procs : running'[q] \subseteq running[q]
      BY <2>1, <2>3 DEF Restart, Crash, FinishJob, TypeOK
    <3> QED
      BY <3>1
  <2>4. ASSUME running' = running PROVE A
    BY <2>4
  <2> HIDE DEF A
  <2>5. CASE Tick
    BY <2>4, <2>5 DEF Tick, poolVars
  <2>6. ASSUME NEW e \in Events, FirstDelivery(e) \/ Retry(e) PROVE A
    BY <2>4, <2>6 DEF FirstDelivery, Retry, poolVars
  <2>7. ASSUME NEW p \in Procs,
               \/ Accept(p) \/ Stamp(p) \/ RecordFirstSight(p) \/ CommitUnacknowledged(p)
               \/ AckDuplicate(p) \/ TransactionFails(p) \/ AckIgnored(p) \/ RouteRaises(p)
               \/ Dispatch(p) \/ Shutdown(p)
        PROVE  A
    BY <2>4, <2>7 DEF Accept, Stamp, RecordFirstSight, CommitUnacknowledged, AckDuplicate,
                      TransactionFails, AckIgnored, RouteRaises, Dispatch, Shutdown, poolVars
  <2> QED
    BY <2>2, <2>3, <2>5, <2>6, <2>7 DEF Next
<1> QED
  BY <1>1, Invariance, PTL DEF Spec, JobsRunOnce

----------------------------------------------------------------------------
(* Histories.  Induction first, as the least element of a set.               *)

LEMMA LeastExists ==
  ASSUME NEW T \in SUBSET Nat, T # {}
  PROVE  \E n \in T : \A m \in T : n <= m
<1> DEFINE R == OpToRel(<, Nat)
<1>1. IsWellFoundedOn(R, Nat)
  BY NatLessThanWellFounded
<1>2. \A x, y \in Nat : x < y => <<x, y>> \in R
  BY DEF OpToRel
<1> HIDE DEF R
<1>3. PICK x \in T : \A y \in T : ~(<<y, x>> \in R)
  BY <1>1, WFMin
<1>4. ASSUME NEW y \in T PROVE x <= y
  <2>1. ~(y < x)
    BY <1>2, <1>3
  <2> QED
    BY <2>1
<1> QED
  BY <1>4

\* Upwards from zero.
LEMMA Upwards ==
  ASSUME NEW S, 0 \in S, \A n \in Nat : n \in S => n + 1 \in S
  PROVE  Nat \subseteq S
<1> SUFFICES ASSUME Nat \ S # {} PROVE FALSE
  OBVIOUS
<1>1. PICK n \in Nat \ S : \A m \in Nat \ S : n <= m
  BY LeastExists
<1>2. n - 1 \in Nat \ S
  BY <1>1
<1> QED
  BY <1>1, <1>2

----------------------------------------------------------------------------
(* The loop over the messages of a page is well defined, and what it yields. *)

\* F is the loop over the positions in S up to n.
Collects(F, S, n) ==
  F = [m \in 0..n |-> IF m = 0 THEN <<>>
                      ELSE IF m \in S THEN Append(F[m - 1], m) ELSE F[m - 1]]

LEMMA LoopExists ==
  ASSUME NEW S, NEW n \in Nat
  PROVE  \E F : Collects(F, S, n)
<1> DEFINE T == {k \in Nat : \E F : Collects(F, S, k)}
<1>1. 0 \in T
  <2> DEFINE F == [m \in 0..0 |-> <<>>]
  <2>1. Collects(F, S, 0)
    BY DEF Collects
  <2> HIDE DEF F
  <2> QED
    BY <2>1
<1>2. ASSUME NEW k \in Nat, k \in T PROVE k + 1 \in T
  <2>1. PICK G : Collects(G, S, k)
    BY <1>2
  <2> DEFINE last == IF k + 1 \in S THEN Append(G[k], k + 1) ELSE G[k]
             F == [m \in 0..(k + 1) |-> IF m = k + 1 THEN last ELSE G[m]]
  <2>2. \A m \in 0..k : G[m] = IF m = 0 THEN <<>>
                             ELSE IF m \in S THEN Append(G[m - 1], m) ELSE G[m - 1]
    BY <2>1 DEF Collects
  <2>3. F[k + 1] = last /\ \A m \in 0..k : F[m] = G[m]
    OBVIOUS
  <2>4. F = [m \in 0..(k + 1) |-> F[m]]
    OBVIOUS
  <2> HIDE DEF F
  <2>5. ASSUME NEW m \in 0..(k + 1)
        PROVE  F[m] = IF m = 0 THEN <<>>
                      ELSE IF m \in S THEN Append(F[m - 1], m) ELSE F[m - 1]
    <3>1. CASE m = k + 1
      <4>1. F[m - 1] = G[k] /\ m # 0
        BY <2>3, <3>1
      <4> QED
        BY <2>3, <3>1, <4>1
    <3>2. CASE m \in 0..k
      <4>1. m # 0 => F[m - 1] = G[m - 1]
        BY <2>3, <3>2
      <4> QED
        BY <2>2, <2>3, <3>2, <4>1
    <3> QED
      BY <3>1, <3>2
  <2>6. Collects(F, S, k + 1)
    BY <2>4, <2>5 DEF Collects
  <2> QED
    BY <2>6
<1> HIDE DEF T
<1>3. Nat \subseteq T
  BY <1>1, <1>2, Upwards
<1> QED
  BY <1>3 DEF T

LEMMA LoopOf ==
  ASSUME NEW S, NEW n \in Nat
  PROVE  \E F : /\ InOrder(S, n) = F[n] /\ F[0] = <<>>
                /\ \A m \in 1..n : F[m] = IF m \in S THEN Append(F[m - 1], m) ELSE F[m - 1]
<1> DEFINE F == CHOOSE G : Collects(G, S, n)
<1>1. InOrder(S, n) = F[n]
  BY DEF InOrder, Collects
<1>2. Collects(F, S, n)
  BY LoopExists
<1> HIDE DEF F
<1>3. F[0] = <<>> /\ \A m \in 1..n : F[m] = IF m \in S THEN Append(F[m - 1], m) ELSE F[m - 1]
  <2>1. \A m \in 0..n : F[m] = IF m = 0 THEN <<>>
                            ELSE IF m \in S THEN Append(F[m - 1], m) ELSE F[m - 1]
    BY <1>2 DEF Collects
  <2> QED
    BY <2>1
<1> QED
  BY <1>1, <1>3

\* It yields positions in S up to n, and on the positions after l the end of what
\* it yields on all.
LEMMA LoopEnds ==
  ASSUME NEW S, NEW n \in Nat, NEW l \in Nat
  PROVE  /\ InOrder(S, n) \in Seq(S \cap (1..n))
         /\ \E p \in Seq(1..n) : InOrder(S, n) = p \o InOrder({i \in S : i > l}, n)
<1> DEFINE U == {i \in S : i > l}
           P == 1..n
<1> HIDE DEF U, P
<1>1. PICK F : /\ InOrder(S, n) = F[n] /\ F[0] = <<>>
               /\ \A m \in 1..n : F[m] = IF m \in S THEN Append(F[m - 1], m) ELSE F[m - 1]
  BY LoopOf
<1>2. PICK G : /\ InOrder(U, n) = G[n] /\ G[0] = <<>>
               /\ \A m \in 1..n : G[m] = IF m \in U THEN Append(G[m - 1], m) ELSE G[m - 1]
  BY LoopOf
<1> DEFINE Good(m) == /\ F[m] \in Seq(S \cap P) /\ G[m] \in Seq(P)
                      /\ m <= l => G[m] = <<>>
                      /\ \E p \in Seq(P) : F[m] = p \o G[m]
           T == {m \in Nat : m <= n => Good(m)}
<1>3. Good(0)
  <2>1. <<>> \in Seq(P) /\ <<>> \in Seq(S \cap P) /\ <<>> = <<>> \o <<>>
    BY EmptySeq, ConcatEmptySeq
  <2> QED
    BY <1>1, <1>2, <2>1
<1>4. ASSUME NEW m \in Nat, Good(m), m + 1 <= n PROVE Good(m + 1)
  <2>1. /\ F[m] \in Seq(S \cap P) /\ G[m] \in Seq(P)
        /\ m <= l => G[m] = <<>>
    BY <1>4
  <2>2. m + 1 \in P /\ (m + 1) - 1 = m
    <3>1. m + 1 <= n
      BY <1>4
    <3> QED
      BY <3>1 DEF P
  <2>3. /\ F[m + 1] = IF m + 1 \in S THEN Append(F[m], m + 1) ELSE F[m]
        /\ G[m + 1] = IF m + 1 \in U THEN Append(G[m], m + 1) ELSE G[m]
    <3>1. m + 1 \in 1..n
      BY <1>4
    <3> QED
      BY <1>1, <1>2, <2>2, <3>1
  <2>4. m + 1 \in U <=> m + 1 \in S /\ m + 1 > l
    BY DEF U
  <2>5. F[m] \in Seq(P)
    BY <2>1, SeqMonotonic
  <2>6. PICK p \in Seq(P) : F[m] = p \o G[m]
    BY <1>4
  <2>7. CASE m + 1 \notin S
    <3>1. F[m + 1] = F[m] /\ G[m + 1] = G[m] /\ (m + 1 <= l => m <= l)
      BY <2>3, <2>4, <2>7
    <3> QED
      BY <2>1, <2>6, <3>1
  <2>8. CASE m + 1 \in U
    <3>1. F[m + 1] = Append(F[m], m + 1) /\ G[m + 1] = Append(G[m], m + 1) /\ ~(m + 1 <= l)
      BY <2>3, <2>4, <2>8
    <3>2. Append(F[m], m + 1) = p \o Append(G[m], m + 1)
      <4> DEFINE one == <<m + 1>>
      <4>1. one \in Seq(P)
        BY <2>2
      <4> HIDE DEF one
      <4>2. Append(F[m], m + 1) = F[m] \o one /\ Append(G[m], m + 1) = G[m] \o one
        BY <2>1, <2>2, <2>5, AppendIsConcat DEF one
      <4>3. (p \o G[m]) \o one = p \o (G[m] \o one)
        <5>1. ASSUME NEW x \in Seq(P), NEW y \in Seq(P), NEW z \in Seq(P)
              PROVE  (x \o y) \o z = x \o (y \o z)
          BY ConcatAssociative
        <5> QED
          BY <2>1, <4>1, <5>1
      <4> QED
        BY <2>6, <4>2, <4>3
    <3>3. Append(F[m], m + 1) \in Seq(S \cap P) /\ Append(G[m], m + 1) \in Seq(P)
      BY <2>1, <2>2, <2>4, <2>8, AppendProperties
    <3> QED
      BY <3>1, <3>2, <3>3
  <2>9. CASE m + 1 \in S /\ m + 1 \notin U
    <3>1. G[m + 1] = <<>> /\ F[m + 1] = Append(F[m], m + 1)
      BY <2>1, <2>3, <2>4, <2>9
    <3>2. Append(F[m], m + 1) \in Seq(S \cap P) /\ Append(F[m], m + 1) \in Seq(P)
      BY <2>1, <2>2, <2>5, <2>9, AppendProperties
    <3>3. Append(F[m], m + 1) = Append(F[m], m + 1) \o <<>> /\ <<>> \in Seq(P)
      BY <3>2, ConcatEmptySeq, EmptySeq
    <3> QED
      BY <3>1, <3>2, <3>3
  <2> QED
    BY <2>7, <2>8, <2>9, <2>4
<1> HIDE DEF Good
<1>5. 0 \in T /\ \A m \in Nat : m \in T => m + 1 \in T
  <2>1. \A m \in Nat : m + 1 <= n => m <= n
    OBVIOUS
  <2> QED
    BY <1>3, <1>4, <2>1
<1> HIDE DEF T
<1>6. Nat \subseteq T
  BY <1>5, Upwards
<1>7. Good(n)
  BY <1>6 DEF T
<1> QED
  BY <1>1, <1>2, <1>7 DEF Good, U, P

\* With the first position besides it yields that one first.
LEMMA LoopOpens ==
  ASSUME NEW S, NEW n \in Nat, n >= 1, 1 \notin S
  PROVE  InOrder(S \cup {1}, n) = <<1>> \o InOrder(S, n)
<1> DEFINE U == S \cup {1}
           one == <<1>>
<1>0. one \in Seq(Nat) /\ one = Append(<<>>, 1)
  OBVIOUS
<1>1. PICK F : /\ InOrder(U, n) = F[n] /\ F[0] = <<>>
               /\ \A m \in 1..n : F[m] = IF m \in U THEN Append(F[m - 1], m) ELSE F[m - 1]
  BY LoopOf
<1>2. PICK G : /\ InOrder(S, n) = G[n] /\ G[0] = <<>>
               /\ \A m \in 1..n : G[m] = IF m \in S THEN Append(G[m - 1], m) ELSE G[m - 1]
  BY LoopOf
<1> HIDE DEF one
<1> DEFINE Good(m) == G[m] \in Seq(Nat) /\ F[m] = one \o G[m]
           T == {m \in Nat : m + 1 <= n => Good(m + 1)}
<1>3. 0 \in T
  <2>1. 1 \in 1..n /\ 1 \in U
    OBVIOUS
  <2>2. F[1] = Append(F[1 - 1], 1) /\ G[1] = G[1 - 1]
    BY <1>1, <1>2, <2>1
  <2>3. F[1] = one /\ G[1] = <<>>
    BY <1>0, <1>1, <1>2, <2>2
  <2>4. <<>> \in Seq(Nat) /\ one = one \o <<>>
    BY <1>0, EmptySeq, ConcatEmptySeq
  <2>5. Good(1)
    BY <2>3, <2>4
  <2> HIDE DEF Good
  <2> QED
    BY <2>5
<1>4. ASSUME NEW m \in Nat, m \in T PROVE m + 1 \in T
  <2> SUFFICES ASSUME (m + 1) + 1 <= n PROVE Good((m + 1) + 1)
    OBVIOUS
  <2> DEFINE k == m + 1
  <2>1. k + 1 \in 1..n /\ k + 1 # 1 /\ (k + 1) - 1 = k /\ k <= n /\ k + 1 \in Nat
    OBVIOUS
  <2>2. Good(k)
    BY <1>4, <2>1
  <2> HIDE DEF k
  <2>3. k + 1 \in U <=> k + 1 \in S
    BY <2>1
  <2>4. /\ F[k + 1] = IF k + 1 \in U THEN Append(F[k], k + 1) ELSE F[k]
        /\ G[k + 1] = IF k + 1 \in S THEN Append(G[k], k + 1) ELSE G[k]
    BY <1>1, <1>2, <2>1
  <2>5. CASE k + 1 \notin S
    BY <2>2, <2>3, <2>4, <2>5 DEF k
  <2>6. CASE k + 1 \in S
    <3> DEFINE next == <<k + 1>>
    <3>1. next \in Seq(Nat) /\ F[k] \in Seq(Nat) /\ F[k] = one \o G[k] /\ G[k] \in Seq(Nat)
      BY <1>0, <2>1, <2>2, ConcatProperties
    <3>2. Append(F[k], k + 1) = F[k] \o next /\ Append(G[k], k + 1) = G[k] \o next
      BY <2>1, <3>1, AppendIsConcat
    <3> HIDE DEF next
    <3>3. (one \o G[k]) \o next = one \o (G[k] \o next)
      <4>1. ASSUME NEW x \in Seq(Nat), NEW y \in Seq(Nat), NEW z \in Seq(Nat)
            PROVE  (x \o y) \o z = x \o (y \o z)
        BY ConcatAssociative
      <4> QED
        BY <1>0, <3>1, <4>1
    <3>4. Append(G[k], k + 1) \in Seq(Nat)
      BY <2>1, <3>1, AppendProperties
    <3> QED
      BY <2>3, <2>4, <2>6, <3>1, <3>2, <3>3, <3>4 DEF k
  <2> QED
    BY <2>5, <2>6
<1> HIDE DEF T, Good
<1>5. Nat \subseteq T
  BY <1>3, <1>4, Upwards
<1>6. Good(n)
  <2>1. n - 1 \in Nat /\ (n - 1) + 1 = n
    OBVIOUS
  <2>2. n - 1 \in T
    BY <1>5, <2>1
  <2> QED
    BY <2>1, <2>2 DEF T
<1> QED
  BY <1>1, <1>2, <1>6 DEF Good, one, U

\* The most recent turns are the end of the turns.
LEMMA RecentEnds ==
  ASSUME NEW S, NEW turns \in Seq(S)
  PROVE  /\ Recent(turns) \in Seq(S) /\ Len(Recent(turns)) <= MaxTurns
         /\ \E p \in Seq(S) : turns = p \o Recent(turns)
<1> DEFINE k == IF Len(turns) > MaxTurns THEN Len(turns) - MaxTurns ELSE 0
<1>1. Len(turns) \in Nat /\ MaxTurns \in Nat /\ MaxTurns > 0
  BY TurnsAssumption, LenProperties
<1>2. k \in 0..Len(turns) /\ Len(turns) - k <= MaxTurns
  BY <1>1
<1>3. Recent(turns) = SubSeq(turns, k + 1, Len(turns))
  BY <1>1 DEF Recent
<1> HIDE DEF k
<1>4. /\ SubSeq(turns, k + 1, Len(turns)) \in Seq(S)
      /\ Len(SubSeq(turns, k + 1, Len(turns))) <= MaxTurns
      /\ SubSeq(turns, 1, k) \in Seq(S)
  <2>1. \A i \in 1..Len(turns) : turns[i] \in S
    BY ElementOfSeq
  <2>2. /\ \A i \in (k + 1)..Len(turns) : turns[i] \in S
        /\ \A i \in 1..k : turns[i] \in S
        /\ k + 1 \in Int /\ k \in Int /\ Len(turns) \in Int
    BY <1>1, <1>2, <2>1
  <2>3. /\ SubSeq(turns, k + 1, Len(turns)) \in Seq(S)
        /\ Len(SubSeq(turns, k + 1, Len(turns))) =
             IF k + 1 <= Len(turns) THEN Len(turns) - (k + 1) + 1 ELSE 0
    BY <2>2, SubSeqProperties
  <2>4. SubSeq(turns, 1, k) \in Seq(S)
    BY <2>2, SubSeqProperties
  <2> QED
    BY <1>1, <1>2, <2>3, <2>4
<1>5. SubSeq(turns, 1, k) \o SubSeq(turns, k + 1, Len(turns)) = turns
  <2>1. /\ 1 \in 1..Len(turns) + 1 /\ k \in 1 - 1..Len(turns) /\ Len(turns) \in k..Len(turns)
    BY <1>1, <1>2
  <2>2. SubSeq(turns, 1, k) \o SubSeq(turns, k + 1, Len(turns)) = SubSeq(turns, 1, Len(turns))
    BY <2>1, ConcatAdjacentSubSeq
  <2>3. SubSeq(turns, 1, Len(turns)) = turns
    BY SubSeqFull
  <2> QED
    BY <2>2, <2>3
<1> QED
  BY <1>3, <1>4, <1>5

LEMMA FunctionIsSequence ==
  ASSUME NEW S, NEW n \in Nat, NEW f \in [1..n -> S]
  PROVE  f \in Seq(S) /\ Len(f) = n
<1>1. f \in Seq(S)
  BY SeqDef
<1>2. Len(f) \in Nat /\ DOMAIN f = 1..Len(f)
  BY <1>1, LenProperties
<1>3. DOMAIN f = 1..n
  OBVIOUS
<1> QED
  BY <1>1, <1>2, <1>3

LEMMA ConcatSuffix ==
  ASSUME NEW S, NEW p \in Seq(S), NEW s \in Seq(S)
  PROVE  IsSuffix(s, p \o s)
<1> DEFINE t == p \o s
           a == Reverse(s)
           b == Reverse(t)
<1>1. /\ Len(p) \in Nat /\ Len(s) \in Nat /\ t \in Seq(S) /\ Len(t) = Len(p) + Len(s)
      /\ \A i \in 1..Len(t) : t[i] = IF i <= Len(p) THEN p[i] ELSE s[i - Len(p)]
  BY ConcatProperties, LenProperties
<1>2. /\ \A i \in 1..Len(s) : s[i] \in S
      /\ \A i \in 1..Len(t) : t[i] \in S
  BY <1>1, ElementOfSeq
<1> HIDE DEF t
<1>3. /\ \A i \in 1..Len(s) : a[i] = s[(Len(s) - i) + 1]
      /\ \A i \in 1..Len(t) : b[i] = t[(Len(t) - i) + 1]
      /\ DOMAIN a = 1..Len(s) /\ DOMAIN b = 1..Len(t)
  BY DEF Reverse
<1>4. a = [i \in 1..Len(s) |-> a[i]] /\ b = [i \in 1..Len(t) |-> b[i]]
  BY DEF Reverse
<1> HIDE DEF a, b
<1>5. /\ \A i \in 1..Len(s) : a[i] \in S /\ b[i] = a[i]
      /\ \A i \in 1..Len(t) : b[i] \in S
  <2>1. ASSUME NEW i \in 1..Len(s) PROVE a[i] \in S /\ b[i] = a[i]
    <3>1. /\ (Len(s) - i) + 1 \in 1..Len(s)
          /\ i \in 1..Len(t) /\ (Len(t) - i) + 1 \in 1..Len(t) /\ ~((Len(t) - i) + 1 <= Len(p))
          /\ ((Len(t) - i) + 1) - Len(p) = (Len(s) - i) + 1
      BY <1>1
    <3> QED
      BY <1>1, <1>2, <1>3, <3>1
  <2>2. ASSUME NEW i \in 1..Len(t) PROVE b[i] \in S
    <3>1. (Len(t) - i) + 1 \in 1..Len(t)
      BY <1>1
    <3> QED
      BY <1>2, <1>3, <3>1
  <2> QED
    BY <2>1, <2>2
<1>6. a \in Seq(S) /\ Len(a) = Len(s) /\ b \in Seq(S) /\ Len(b) = Len(t)
  <2>1. a \in [1..Len(s) -> S] /\ b \in [1..Len(t) -> S]
    BY <1>4, <1>5
  <2>2. a \in Seq(S) /\ Len(a) = Len(s)
    BY <1>1, <2>1, FunctionIsSequence
  <2>3. b \in Seq(S) /\ Len(b) = Len(t)
    <3>1. Len(t) \in Nat
      BY <1>1
    <3> QED
      BY <2>1, <3>1, FunctionIsSequence
  <2> QED
    BY <2>2, <2>3
<1>7. SubSeq(a, 1, Len(a)) = SubSeq(b, 1, Len(a))
  <2> DEFINE n == Len(s)
             x == SubSeq(a, 1, n)
             y == SubSeq(b, 1, n)
  <2>1. /\ x \in Seq(S) /\ Len(x) = IF 1 <= n THEN n - 1 + 1 ELSE 0
        /\ \A i \in 1..(n - 1 + 1) : x[i] = a[1 + i - 1]
    BY <1>1, <1>5, SubSeqProperties
  <2>2. /\ y \in Seq(S) /\ Len(y) = IF 1 <= n THEN n - 1 + 1 ELSE 0
        /\ \A i \in 1..(n - 1 + 1) : y[i] = b[1 + i - 1]
    BY <1>1, <1>5, SubSeqProperties
  <2> HIDE DEF x, y
  <2>3. Len(x) = Len(y) /\ \A i \in 1..Len(x) : x[i] = y[i]
    BY <1>1, <1>5, <2>1, <2>2
  <2>4. x = y
    BY <2>1, <2>2, <2>3, SeqEqual
  <2> QED
    BY <1>6, <2>4 DEF x, y
<1> QED
  BY <1>1, <1>6, <1>7 DEF IsSuffix, IsPrefix, a, b, t

LEMMA ConcatSuffixes ==
  ASSUME NEW S, NEW p \in Seq(S), NEW r \in Seq(S), NEW s \in Seq(S)
  PROVE  IsSuffix(s, p \o (r \o s))
<1>1. (p \o r) \o s = p \o (r \o s)
  BY ConcatAssociative
<1>2. p \o r \in Seq(S)
  BY ConcatProperties
<1>3. IsSuffix(s, (p \o r) \o s)
  BY <1>2, ConcatSuffix
<1> QED
  BY <1>1, <1>3

\* Of x and more, an end h is the whole or an end of what comes after it.
OpenOrEnd(h, x, a, S) ==
  \/ h # <<>> /\ Head(h) = x /\ Tail(h) = a
  \/ \E q \in Seq(S) : a = q \o h
LEMMA OpenedEnds ==
  ASSUME NEW S, NEW one \in Seq(S), NEW a \in Seq(S), NEW r \in Seq(S), NEW h \in Seq(S),
         Len(one) = 1, one \o a = r \o h
  PROVE  OpenOrEnd(h, one[1], a, S)
<1> DEFINE x == one[1]
<1>1. one \in Seq(S) /\ Len(one) = 1 /\ one[1] = x
  OBVIOUS
<1> HIDE DEF x
<1>2. one \o a = r \o h
  OBVIOUS
<1> DEFINE t == one \o a
<1>3. /\ Len(a) \in Nat /\ Len(r) \in Nat /\ Len(h) \in Nat
      /\ t \in Seq(S) /\ Len(t) = 1 + Len(a) /\ Len(t) = Len(r) + Len(h)
      /\ t[1] = x /\ \A i \in 1..Len(a) : t[i + 1] = a[i]
  <2>1. /\ t \in Seq(S) /\ Len(t) = 1 + Len(a)
        /\ \A i \in 1..(1 + Len(a)) : t[i] = IF i <= 1 THEN one[i] ELSE a[i - 1]
    <3>1. /\ t \in Seq(S) /\ Len(t) = Len(one) + Len(a)
          /\ \A i \in 1..(Len(one) + Len(a)) : t[i] = IF i <= Len(one) THEN one[i] ELSE a[i - Len(one)]
      BY <1>1, ConcatProperties
    <3> HIDE DEF t
    <3> QED
      BY <1>1, <3>1
  <2>2. Len(r \o h) = Len(r) + Len(h) /\ Len(a) \in Nat /\ Len(r) \in Nat /\ Len(h) \in Nat
    BY ConcatProperties, LenProperties
  <2> HIDE DEF t
  <2>3. t = r \o h
    BY <1>2 DEF t
  <2> QED
    BY <1>1, <2>1, <2>2, <2>3
<1>4. CASE r = <<>>
  <2>1. h = t
    BY <1>2, <1>4, ConcatEmptySeq
  <2> HIDE DEF t
  <2>2. h # <<>> /\ Head(h) = x
    BY <1>3, <2>1, EmptySeq
  <2>3. /\ Tail(h) \in Seq(S) /\ Len(Tail(h)) = Len(h) - 1
        /\ \A i \in 1..Len(Tail(h)) : Tail(h)[i] = h[i + 1]
    BY <2>2, HeadTailProperties
  <2>4. Tail(h) = a
    BY <1>3, <2>1, <2>3, SeqEqual
  <2> QED
    BY <2>2, <2>4 DEF x, OpenOrEnd
<1>5. CASE r # <<>>
  <2> DEFINE q == Tail(r)
             u == q \o h
  <2>1. /\ q \in Seq(S) /\ Len(q) = Len(r) - 1 /\ Len(r) >= 1
        /\ \A i \in 1..Len(q) : q[i] = r[i + 1]
    BY <1>5, HeadTailProperties, EmptySeq
  <2> HIDE DEF q
  <2>2. /\ u \in Seq(S) /\ Len(u) = Len(q) + Len(h)
        /\ \A i \in 1..(Len(q) + Len(h)) : u[i] = IF i <= Len(q) THEN q[i] ELSE h[i - Len(q)]
    BY <2>1, ConcatProperties
  <2>3. \A i \in 1..(Len(r) + Len(h)) : t[i] = IF i <= Len(r) THEN r[i] ELSE h[i - Len(r)]
    BY <1>2, ConcatProperties
  <2> HIDE DEF t, u
  <2>4. ASSUME NEW i \in 1..Len(a) PROVE a[i] = u[i]
    <3>1. /\ a[i] = t[i + 1] /\ i + 1 \in 1..(Len(r) + Len(h))
          /\ i \in 1..(Len(q) + Len(h)) /\ (i <= Len(q) <=> i + 1 <= Len(r))
          /\ i - Len(q) = (i + 1) - Len(r)
      BY <1>3, <2>1
    <3>2. i <= Len(q) => q[i] = r[i + 1]
      <4>1. i <= Len(q) => i \in 1..Len(q)
        BY <1>3, <2>1
      <4> QED
        BY <2>1, <4>1
    <3> QED
      BY <2>2, <2>3, <3>1, <3>2
  <2>5. a = u
    BY <1>3, <2>1, <2>2, <2>4, SeqEqual
  <2> QED
    BY <2>1, <2>5 DEF u, OpenOrEnd
<1> QED
  BY <1>4, <1>5

\* What is kept per message grows with the thread.
Grows(f, g, n, S, e) ==
  /\ g \in [1..(n + 1) -> S]
  /\ \A i \in 1..n : g[i] = f[i]
  /\ g[n + 1] = e

LEMMA AppendGrows ==
  ASSUME NEW S, NEW n \in Nat, NEW f \in [1..n -> S], NEW e \in S
  PROVE  Grows(f, Append(f, e), n, S, e)
<1>1. f \in Seq(S) /\ Len(f) = n
  BY FunctionIsSequence
<1>2. /\ Append(f, e) \in Seq(S) /\ Len(Append(f, e)) = n + 1
      /\ \A i \in 1..n : Append(f, e)[i] = f[i]
      /\ Append(f, e)[n + 1] = e
  BY <1>1, AppendProperties
<1>3. Append(f, e) \in [1..(n + 1) -> S]
  BY <1>2, LenProperties
<1> QED
  BY <1>2, <1>3 DEF Grows

----------------------------------------------------------------------------
(* The invariant of a thread: who can write what, who has a job, and what    *)
(* that makes of the histories.                                              *)

BeforeFetch == {"none", "queued", "naming", "named"}

Author(i) ==
  LET m == thread[i]
  IN /\ m.from \in Users => ~m.app /\ (IsDm => m.from = owner)
     /\ m.from = OtherApp => ~IsDm
     /\ m.from = Bot /\ IsDm => m.to = owner
     /\ stage[i] # "none" => m.from \in Users
     /\ stage[i] \in BeforeFetch => history[i] = <<>>

\* NoForeignAnswer and AsItStood for one message.
Unmixed(j) ==
  \A k \in DOMAIN history[j] :
    LET m == thread[history[j][k]]
    IN m.from = thread[j].from \/ (m.from = Bot /\ m.to = thread[j].from)
Stood(j) == EndOf(history[j], Conversation(j))

ThreadInv == ThreadTypeOK /\ \A j \in Messages : Author(j) /\ Unmixed(j) /\ Stood(j)

LEMMA ThreadInitInv == ThreadInit => ThreadInv
<1> SUFFICES ASSUME ThreadInit PROVE ThreadInv
  OBVIOUS
<1>1. thread = <<>> /\ stage = <<>> /\ known = <<>> /\ history = <<>>
  BY DEF ThreadInit
<1>2. Messages = {}
  BY <1>1 DEF Messages
<1>3. \A S : <<>> \in [{} -> S]
  OBVIOUS
<1>4. ThreadTypeOK
  BY <1>1, <1>2, <1>3 DEF ThreadInit, ThreadTypeOK
<1> QED
  BY <1>2, <1>4 DEF ThreadInv

\* A job without turns has the end of any conversation.
LEMMA NoTurns ==
  ASSUME NEW S, NEW j \in Nat
  PROVE  IsSuffix(<<>>, InOrder(S, j))
<1> DEFINE t == InOrder(S, j)
<1>1. t \in Seq(S \cap (1..j))
  BY LoopEnds
<1> HIDE DEF t
<1>2. t = t \o <<>> /\ <<>> \in Seq(S \cap (1..j))
  BY <1>1, ConcatEmptySeq, EmptySeq
<1>3. IsSuffix(<<>>, t \o <<>>)
  BY <1>1, <1>2, ConcatSuffix
<1> QED
  BY <1>2, <1>3 DEF t

\* A message arrives: what is known of the others stays as it is.
LEMMA ReceiveKeeps ==
  ASSUME ThreadInv, UNCHANGED owner, botId' \in {NoOne, Bot},
         NEW m \in Message, NEW stages \in [Messages -> Stages], NEW s \in BeforeFetch,
         Receive(m, stages, s),
         m.from \in Users => ~m.app /\ (IsDm => m.from = owner),
         m.from = OtherApp => ~IsDm,
         m.from = Bot /\ IsDm => m.to = owner,
         s # "none" => m.from \in Users,
         \A i \in Messages : /\ stages[i] # "none" => stage[i] # "none"
                             /\ stages[i] \in BeforeFetch => stage[i] \in BeforeFetch
  PROVE  ThreadInv'
<1> DEFINE n == Len(thread)
           new == n + 1
<1>1. /\ n \in Nat /\ Messages = 1..n /\ Len(thread') = new /\ Messages' = 1..new
      /\ thread' \in Seq(Message)
      /\ \A i \in Messages : thread'[i] = thread[i]
      /\ thread'[new] = m
  <2>1. thread \in Seq(Message) /\ thread' = Append(thread, m)
    BY DEF ThreadInv, ThreadTypeOK, Receive
  <2> QED
    BY <2>1, AppendProperties, LenProperties DEF Messages
<1> HIDE DEF n
<1>2. /\ stage' \in [Messages' -> Stages] /\ \A i \in Messages : stage'[i] = stages[i]
      /\ stage'[new] = s
  <2>1. stage' = Append(stages, s) /\ s \in Stages /\ stages \in [1..n -> Stages]
    BY <1>1 DEF Receive, BeforeFetch, Stages
  <2>2. Grows(stages, stage', n, Stages, s)
    BY <1>1, <2>1, AppendGrows
  <2> QED
    BY <1>1, <2>2 DEF Grows
<1>3. /\ known' \in [Messages' -> {NoOne, Bot}] /\ \A i \in Messages : known'[i] = known[i]
      /\ known'[new] = NoOne
  <2>1. known' = Append(known, NoOne) /\ known \in [1..n -> {NoOne, Bot}]
    BY <1>1 DEF Receive, ThreadInv, ThreadTypeOK
  <2>2. Grows(known, known', n, {NoOne, Bot}, NoOne)
    BY <1>1, <2>1, AppendGrows
  <2> QED
    BY <1>1, <2>2 DEF Grows
<1>4. /\ history' \in [Messages' -> Seq(Messages')] /\ \A i \in Messages : history'[i] = history[i]
      /\ history'[new] = <<>>
  <2>1. history' = Append(history, <<>>) /\ history \in [1..n -> Seq(Messages)]
    BY <1>1 DEF Receive, ThreadInv, ThreadTypeOK
  <2>2. Messages \subseteq Messages' /\ <<>> \in Seq(Messages')
    BY <1>1, EmptySeq
  <2>3. \A i \in 1..n : history[i] \in Seq(Messages')
    BY <2>1, <2>2, SeqMonotonic
  <2>4. history \in [1..n -> Seq(Messages')]
    BY <2>1, <2>3
  <2>5. Grows(history, history', n, Seq(Messages'), <<>>)
    BY <1>1, <2>1, <2>2, <2>4, AppendGrows
  <2> QED
    BY <1>1, <2>5 DEF Grows
<1>5. \A i \in Messages' : i \in Messages \/ i = new
  BY <1>1
<1>6. ThreadTypeOK'
  <2>1. ASSUME NEW j \in Messages' PROVE Len(history'[j]) <= MaxTurns
    <3>1. CASE j \in Messages
      BY <1>4, <3>1 DEF ThreadInv, ThreadTypeOK
    <3>2. CASE j = new
      BY <1>4, <3>2, TurnsAssumption, EmptySeq
    <3> QED
      BY <1>5, <3>1, <3>2
  <2> QED
    BY <1>1, <1>2, <1>3, <1>4, <2>1 DEF ThreadInv, ThreadTypeOK
<1>7. ASSUME NEW j \in Messages' PROVE Author(j)'
  <2>1. CASE j \in Messages
    <3>1. Author(j)
      BY <2>1 DEF ThreadInv
    <3> QED
      BY <1>1, <1>2, <1>4, <2>1, <3>1 DEF Author, IsDm
  <2>2. CASE j = new
    BY <1>1, <1>2, <1>4, <2>2 DEF Author, IsDm
  <2> QED
    BY <1>5, <2>1, <2>2
<1>8. ASSUME NEW j \in Messages' PROVE Unmixed(j)' /\ Stood(j)'
  <2>1. CASE j \in Messages
    <3>1. Unmixed(j) /\ Stood(j)
      BY <2>1 DEF ThreadInv
    <3>2. \A k \in DOMAIN history[j] : history[j][k] \in Messages
      BY <2>1 DEF ThreadInv, ThreadTypeOK
    <3>3. Unmixed(j)'
      BY <1>1, <1>4, <2>1, <3>1, <3>2 DEF Unmixed
    <3>4. \A i \in 1..(j - 1) : i \in Messages
      BY <1>1, <2>1
    <3>5. Conversation(j)' = Conversation(j)
      BY <1>1, <1>3, <2>1, <3>4 DEF Conversation, IsDm
    <3> QED
      BY <1>4, <2>1, <3>1, <3>3, <3>5 DEF Stood
  <2>2. CASE j = new
    <3>1. history'[j] = <<>> /\ j \in Nat
      BY <1>1, <1>4, <2>2
    <3>2. IsSuffix(<<>>, Conversation(j)')
      BY <3>1, NoTurns DEF Conversation
    <3> QED
      BY <3>1, <3>2 DEF Unmixed, Stood, EndOf
  <2> QED
    BY <1>5, <2>1, <2>2
<1> QED
  BY <1>6, <1>7, <1>8 DEF ThreadInv

\* A job goes on: what is known of the other messages stays as it is.
LEMMA JobKeeps ==
  ASSUME ThreadInv, UNCHANGED <<owner, thread>>, botId' \in {NoOne, Bot},
         NEW j \in Messages, stage[j] # "none", NEW s \in Stages, Enter(j, s),
         known' \in [Messages -> {NoOne, Bot}], history' \in [Messages -> Seq(Messages)],
         \A i \in Messages : i # j => known'[i] = known[i] /\ history'[i] = history[i],
         Len(history'[j]) <= MaxTurns, s \in BeforeFetch => history'[j] = <<>>,
         Unmixed(j)', Stood(j)'
  PROVE  ThreadInv'
<1>1. Messages' = Messages
  BY DEF Messages
<1>2. stage' \in [Messages -> Stages] /\ \A i \in Messages : stage'[i] = IF i = j THEN s ELSE stage[i]
  BY DEF Enter, ThreadInv, ThreadTypeOK
<1>3. ThreadTypeOK'
  <2>1. \A i \in Messages : Len(history'[i]) <= MaxTurns
    BY DEF ThreadInv, ThreadTypeOK
  <2> QED
    BY <1>1, <1>2, <2>1 DEF ThreadInv, ThreadTypeOK
<1>4. ASSUME NEW i \in Messages PROVE Author(i)'
  <2>1. Author(i) /\ Author(j)
    BY DEF ThreadInv
  <2> QED
    BY <1>2, <2>1 DEF Author, IsDm
<1>5. ASSUME NEW i \in Messages, i # j PROVE Unmixed(i)' /\ Stood(i)'
  <2>1. Unmixed(i) /\ Stood(i)
    BY DEF ThreadInv
  <2>2. Conversation(i)' = Conversation(i)
    BY <1>5 DEF Conversation, IsDm
  <2> QED
    BY <1>5, <2>1, <2>2 DEF Unmixed, Stood
<1> QED
  BY <1>1, <1>3, <1>4, <1>5 DEF ThreadInv

\* Before the fetch there are no turns.
LEMMA EarlyKeeps ==
  ASSUME ThreadInv, UNCHANGED <<owner, thread, history>>, botId' \in {NoOne, Bot},
         NEW j \in Messages, stage[j] \in BeforeFetch \ {"none"}, NEW s \in Stages, Enter(j, s),
         known' \in [Messages -> {NoOne, Bot}],
         \A i \in Messages : i # j => known'[i] = known[i]
  PROVE  ThreadInv'
<1>1. history[j] = <<>> /\ history \in [Messages -> Seq(Messages)] /\ Len(history[j]) <= MaxTurns /\ j \in Nat
  BY DEF ThreadInv, ThreadTypeOK, Author, Messages
<1>2. IsSuffix(<<>>, Conversation(j)')
  BY <1>1, NoTurns DEF Conversation
<1>3. Unmixed(j)' /\ Stood(j)'
  BY <1>1, <1>2 DEF Unmixed, Stood, EndOf
<1> QED
  BY <1>1, <1>3, JobKeeps

\* Who a message is kept for.
LEMMA KeptMeans ==
  ASSUME ThreadInv, NEW j \in Messages, stage[j] # "none", NEW i \in Messages
  PROVE  Kept(i, j) <=> \/ thread[i].from = thread[j].from
                        \/ IsDm /\ thread[i].from = Bot /\ (thread[i].app \/ known[j] = Bot)
<1>1. /\ Author(i) /\ Author(j) /\ known[j] \in {NoOne, Bot}
      /\ thread[i].from \in Users \cup {Bot, OtherApp}
  <2>1. thread[i] \in Message /\ known[j] \in {NoOne, Bot}
    BY ElementOfSeq DEF ThreadInv, ThreadTypeOK, Messages
  <2> QED
    BY <2>1 DEF ThreadInv, Message
<1>2. thread[j].from \in Users
  BY <1>1 DEF Author
<1>3. CASE thread[i].from \in Users
  <2>1. ~IsBot(thread[i], j) /\ thread[i].from # Bot
    BY <1>1, <1>3, UsersAssumption DEF IsBot, Author
  <2> QED
    BY <2>1 DEF Kept
<1>4. CASE thread[i].from = Bot
  <2>1. thread[i].from # thread[j].from /\ Bot # NoOne
    BY <1>2, <1>4, UsersAssumption
  <2>2. IsBot(thread[i], j) <=> thread[i].app \/ known[j] = Bot
    BY <1>1, <1>4, <2>1 DEF IsBot
  <2> QED
    BY <1>4, <2>1, <2>2 DEF Kept
<1>5. CASE thread[i].from = OtherApp
  <2>1. thread[i].from # thread[j].from /\ OtherApp # Bot /\ ~IsDm
    BY <1>1, <1>2, <1>5, UsersAssumption DEF Author
  <2> QED
    BY <1>5, <2>1 DEF Kept
<1> QED
  BY <1>1, <1>3, <1>4, <1>5

\* The turns of a page are the end of the conversation, after its first message if
\* the page has that.
LEMMA TurnsStand ==
  ASSUME ThreadInv, NEW j \in Messages, stage[j] # "none", NEW n \in 1..PageSize,
         NEW parent \in SUBSET {1}
  PROVE  LET h == Turns(j, Page(j, n, parent))
         IN /\ h \in Seq(Messages) /\ Len(h) <= MaxTurns
            /\ \A k \in DOMAIN h :
                 LET m == thread[h[k]]
                 IN m.from = thread[j].from \/ (m.from = Bot /\ m.to = thread[j].from)
            /\ EndOf(h, Conversation(j))
<1> DEFINE Spoken(i) == HasText(thread[i]) /\
                          \/ thread[i].from = thread[j].from
                          \/ IsDm /\ thread[i].from = Bot /\ (thread[i].app \/ known[j] = Bot)
           C == {i \in 1..(j - 1) : Spoken(i)}
           l == IF n <= j THEN j - n ELSE 0
           K == {i \in C : i > l}
           B == {i \in C : i > l \/ i \in parent}
           a == InOrder(K, j)
           b == InOrder(B, j)
           h == Recent(b)
<1>1. /\ Messages = 1..Len(thread) /\ Len(thread) \in Nat /\ n \in Nat /\ l \in Nat
      /\ j \in Nat /\ j >= 1
  BY LenProperties, TurnsAssumption DEF ThreadInv, ThreadTypeOK, Messages
<1>2. Turns(j, Page(j, n, parent)) = h
  <2> DEFINE page == Page(j, n, parent)
  <2>1. ASSUME NEW i
        PROVE  i \in page /\ i # j /\ HasText(thread[i]) /\ Kept(i, j) <=> i \in B
    <3>1. i \in page /\ i # j <=> i \in 1..(j - 1) /\ (i > l \/ i \in parent)
      BY <1>1 DEF Page
    <3>2. i \in 1..(j - 1) => i \in Messages
      BY <1>1
    <3>3. i \in 1..(j - 1) => (HasText(thread[i]) /\ Kept(i, j) <=> Spoken(i))
      BY <3>2, KeptMeans
    <3> HIDE DEF Spoken, l, page
    <3> QED
      BY <3>1, <3>3
  <2> HIDE DEF B, page
  <2>2. {i \in page : ~IsCurrent(i, j) /\ HasText(thread[i]) /\ Kept(i, j)} = B
    <3>1. B \subseteq page
      BY <2>1
    <3> QED
      BY <2>1, <3>1 DEF IsCurrent
  <2> QED
    BY <2>2 DEF Turns, page
<1>3. Conversation(j) = InOrder(C, j)
  BY DEF Conversation
<1>4. \A i \in B : i \in Messages /\ Spoken(i)
  BY <1>1
<1>k. B = K \/ (B = K \cup {1} /\ 1 \notin K)
  BY <1>1
<1> HIDE DEF Spoken, C, l
<1>5. a \in Seq(K \cap (1..j)) /\ \E p \in Seq(1..j) : InOrder(C, j) = p \o a
  <2>1. \E p \in Seq(1..j) : InOrder(C, j) = p \o InOrder({i \in C : i > l}, j)
    <3>1. j \in Nat /\ l \in Nat
      BY <1>1
    <3> QED
      BY <3>1, LoopEnds, Zenon
  <2> HIDE DEF K
  <2>2. a \in Seq(K \cap (1..j))
    BY <1>1, LoopEnds
  <2> QED
    BY <2>1, <2>2 DEF K
<1> HIDE DEF K
<1>o. b = a \/ b = <<1>> \o a
  BY <1>1, <1>k, LoopOpens
<1>b. b \in Seq(B \cap (1..j))
  BY <1>1, LoopEnds
<1> HIDE DEF B, a, b
<1>6. /\ h \in Seq(B \cap (1..j)) /\ Len(h) <= MaxTurns
      /\ \E p \in Seq(B \cap (1..j)) : b = p \o h
  BY <1>b, RecentEnds
<1> HIDE DEF h
<1>7. EndOf(h, Conversation(j))
  <2>1. PICK p \in Seq(1..j) : InOrder(C, j) = p \o a
    BY <1>5
  <2>2. PICK r \in Seq(B \cap (1..j)) : b = r \o h
    BY <1>6
  <2>3. r \in Seq(1..j) /\ h \in Seq(1..j) /\ a \in Seq(1..j) /\ 1 \in 1..j
    BY <1>1, <1>5, <1>6, SeqMonotonic
  <2>4. ASSUME NEW q \in Seq(1..j), a = q \o h PROVE IsSuffix(h, Conversation(j))
    <3>1. IsSuffix(h, p \o (q \o h))
      BY <2>3, ConcatSuffixes
    <3> QED
      BY <1>3, <2>1, <2>4, <3>1
  <2>5. CASE b = a
    BY <2>2, <2>3, <2>4, <2>5 DEF EndOf
  <2>6. CASE b = <<1>> \o a
    <3>1. OpenOrEnd(h, 1, a, 1..j)
      <4> DEFINE one == <<1>>
      <4>1. one \in Seq(1..j) /\ Len(one) = 1 /\ one[1] = 1
        BY <2>3
      <4>2. one \o a = r \o h
        BY <2>2, <2>6
      <4> HIDE DEF one
      <4>3. OpenOrEnd(h, one[1], a, 1..j)
        BY <2>3, <4>1, <4>2, OpenedEnds
      <4> QED
        BY <4>1, <4>3
    <3>2. IsSuffix(a, Conversation(j))
      BY <1>3, <2>1, <2>3, ConcatSuffix
    <3> QED
      BY <2>4, <3>1, <3>2 DEF EndOf, OpenOrEnd
  <2> QED
    BY <1>o, <2>5, <2>6
<1>8. h \in Seq(Messages)
  BY <1>4, <1>6, SeqMonotonic
<1>9. ASSUME NEW k \in DOMAIN h
      PROVE  \/ thread[h[k]].from = thread[j].from
             \/ thread[h[k]].from = Bot /\ thread[h[k]].to = thread[j].from
  <2>1. h[k] \in B
    BY <1>6, ElementOfSeq, LenProperties
  <2>2. Author(h[k]) /\ Author(j) /\ Spoken(h[k])
    BY <1>4, <2>1 DEF ThreadInv
  <2> QED
    BY <2>2 DEF Author, Spoken
<1> QED
  BY <1>2, <1>6, <1>7, <1>8, <1>9

----------------------------------------------------------------------------
(* The steps.                                                                *)

LEMMA WriteKeeps ==
  ASSUME ThreadInv, NEW u \in Users, NEW w \in Words \cup {Silence}, NEW mention \in BOOLEAN,
         Write(u, w, mention)
  PROVE  ThreadInv'
<1> DEFINE m == [from |-> u, words |-> w, mention |-> mention, app |-> FALSE, to |-> NoOne]
           s == IF (IsDm \/ mention) /\ w # Silence THEN "queued" ELSE "none"
<1>1. /\ m \in Message /\ m.from = u /\ m.app = FALSE
      /\ u # OtherApp /\ u # Bot
  BY UsersAssumption DEF Message
<1>2. s \in BeforeFetch
  BY DEF BeforeFetch
<1>3. /\ stage \in [Messages -> Stages] /\ botId' \in {NoOne, Bot} /\ UNCHANGED owner
      /\ Receive(m, stage, s) /\ (IsDm => m.from = owner)
  BY <1>1 DEF Write, ThreadInv, ThreadTypeOK
<1> HIDE DEF m, s
<1> QED
  BY <1>1, <1>2, <1>3, ReceiveKeeps

LEMMA OtherAppKeeps ==
  ASSUME ThreadInv, OtherAppWrites
  PROVE  ThreadInv'
<1>1. /\ ~IsDm /\ UNCHANGED owner /\ botId' \in {NoOne, Bot}
      /\ stage \in [Messages -> Stages]
  BY DEF OtherAppWrites, ThreadInv, ThreadTypeOK
<1>2. PICK w \in Words :
        Receive([from |-> OtherApp, words |-> w, mention |-> FALSE, app |-> TRUE, to |-> NoOne],
                stage, "none")
  BY DEF OtherAppWrites
<1> DEFINE m == [from |-> OtherApp, words |-> w, mention |-> FALSE, app |-> TRUE, to |-> NoOne]
<1>3. m \in Message /\ m.from = OtherApp /\ OtherApp \notin Users
  BY UsersAssumption DEF Message
<1>4. Receive(m, stage, "none") /\ "none" \in BeforeFetch
  BY <1>2 DEF BeforeFetch
<1> HIDE DEF m
<1> QED
  BY <1>1, <1>3, <1>4, ReceiveKeeps

\* Who asked: a job's message is a person's, in a DM its owner's.
LEMMA Asker ==
  ASSUME ThreadInv, NEW j \in Messages, stage[j] # "none"
  PROVE  /\ thread[j].from \in Users /\ thread[j].words \in Words \cup {Silence}
         /\ IsDm => thread[j].from = owner
<1>1. thread[j] \in Message
  BY ElementOfSeq DEF ThreadInv, ThreadTypeOK, Messages
<1>2. Author(j)
  BY DEF ThreadInv
<1> QED
  BY <1>1, <1>2 DEF Author, Message

LEMMA ReplyKeeps ==
  ASSUME ThreadInv, NEW j \in Messages, Reply(j)
  PROVE  ThreadInv'
<1> DEFINE stages == [stage EXCEPT ![j] = "done"]
<1>1. /\ UNCHANGED owner /\ botId' \in {NoOne, Bot} /\ stage \in [Messages -> Stages]
      /\ stage[j] \in {"queued", "asking"}
  BY DEF Reply, ThreadInv, ThreadTypeOK
<1>2. /\ thread[j].from \in Users /\ thread[j].words \in Words \cup {Silence}
      /\ IsDm => thread[j].from = owner
  BY <1>1, Asker
<1>3. PICK app \in BOOLEAN :
        Receive([from |-> Bot, words |-> thread[j].words, mention |-> FALSE, app |-> app,
                 to |-> thread[j].from], stages, "none")
  BY DEF Reply
<1> DEFINE m == [from |-> Bot, words |-> thread[j].words, mention |-> FALSE, app |-> app,
                 to |-> thread[j].from]
<1>4. /\ m \in Message /\ m.from = Bot /\ m.to = thread[j].from
      /\ Bot \notin Users /\ Bot # OtherApp
  BY <1>2, UsersAssumption DEF Message
<1>5. Receive(m, stages, "none") /\ "none" \in BeforeFetch
  BY <1>3 DEF BeforeFetch
<1>6. /\ stages \in [Messages -> Stages]
      /\ \A i \in Messages : /\ stages[i] # "none" => stage[i] # "none"
                             /\ stages[i] \in BeforeFetch => stage[i] \in BeforeFetch
  BY <1>1 DEF Stages, BeforeFetch
<1> HIDE DEF m, stages
<1> QED
  BY <1>1, <1>2, <1>4, <1>5, <1>6, ReceiveKeeps

LEMMA NamingKeeps ==
  ASSUME ThreadInv, NEW j \in Messages, CachedBotId(j) \/ AskBotId(j) \/ AuthTest(j)
  PROVE  ThreadInv'
<1>1. /\ botId \in {NoOne, Bot} /\ known \in [Messages -> {NoOne, Bot}]
  BY DEF ThreadInv, ThreadTypeOK
<1>2. /\ UNCHANGED <<owner, thread, history>> /\ botId' \in {NoOne, Bot}
      /\ stage[j] \in BeforeFetch \ {"none"}
      /\ \E s \in Stages : Enter(j, s)
      /\ known' \in [Messages -> {NoOne, Bot}]
      /\ \A i \in Messages : i # j => known'[i] = known[i]
  BY <1>1 DEF CachedBotId, AskBotId, AuthTest, BeforeFetch, Stages
<1> QED
  BY <1>2, EarlyKeeps

LEMMA FetchKeeps ==
  ASSUME ThreadInv, NEW j \in Messages, FetchThreadHistory(j)
  PROVE  ThreadInv'
<1>1. /\ history \in [Messages -> Seq(Messages)] /\ known \in [Messages -> {NoOne, Bot}]
      /\ UNCHANGED <<owner, thread, known>> /\ botId' \in {NoOne, Bot}
      /\ stage[j] = "named" /\ Enter(j, "asking")
      /\ "asking" \in Stages /\ "asking" \notin BeforeFetch
      /\ Len(history[j]) <= MaxTurns /\ Unmixed(j) /\ Stood(j)
  BY DEF FetchThreadHistory, ThreadInv, ThreadTypeOK, Stages, BeforeFetch
<1>2. Conversation(j)' = Conversation(j)
  BY <1>1 DEF Conversation, IsDm
<1>3. ASSUME NEW n \in 1..PageSize, NEW parent \in SUBSET {1},
             history' = [history EXCEPT ![j] = Turns(j, Page(j, n, parent))]
      PROVE  ThreadInv'
  <2> DEFINE h == Turns(j, Page(j, n, parent))
  <2>1. /\ h \in Seq(Messages) /\ Len(h) <= MaxTurns
        /\ \A k \in DOMAIN h :
             LET m == thread[h[k]]
             IN m.from = thread[j].from \/ (m.from = Bot /\ m.to = thread[j].from)
        /\ EndOf(h, Conversation(j))
    BY <1>1, TurnsStand
  <2>2. history' = [history EXCEPT ![j] = h]
    BY <1>3
  <2> HIDE DEF h
  <2>3. /\ history' \in [Messages -> Seq(Messages)] /\ history'[j] = h
        /\ \A i \in Messages : i # j => history'[i] = history[i]
    BY <1>1, <2>1, <2>2
  <2>4. Unmixed(j)' /\ Stood(j)'
    BY <1>1, <1>2, <2>1, <2>3 DEF Unmixed, Stood
  <2> QED
    BY <1>1, <2>1, <2>3, <2>4, JobKeeps
<1>4. CASE UNCHANGED history
  <2>1. Unmixed(j)' /\ Stood(j)'
    BY <1>1, <1>2, <1>4 DEF Unmixed, Stood
  <2> QED
    BY <1>1, <1>4, <2>1, JobKeeps
<1> QED
  BY <1>3, <1>4 DEF FetchThreadHistory

LEMMA LostKeeps ==
  ASSUME ThreadInv, NEW j \in Messages, ReplyIsLost(j)
  PROVE  ThreadInv'
<1>1. /\ history \in [Messages -> Seq(Messages)] /\ known \in [Messages -> {NoOne, Bot}]
      /\ UNCHANGED <<owner, thread, known, history>> /\ botId' \in {NoOne, Bot}
      /\ stage[j] # "none" /\ Enter(j, "done")
      /\ "done" \in Stages /\ "done" \notin BeforeFetch
      /\ Len(history[j]) <= MaxTurns /\ Unmixed(j) /\ Stood(j)
  BY DEF ReplyIsLost, ThreadInv, ThreadTypeOK, Stages, BeforeFetch
<1>2. Conversation(j)' = Conversation(j)
  BY <1>1 DEF Conversation, IsDm
<1>3. Unmixed(j)' /\ Stood(j)'
  BY <1>1, <1>2 DEF Unmixed, Stood
<1> QED
  BY <1>1, <1>3, JobKeeps

LEMMA ThreadStutters ==
  ASSUME ThreadInv, UNCHANGED threadVars
  PROVE  ThreadInv'
<1>1. UNCHANGED <<owner, thread, botId, stage, known, history, Messages>>
  BY DEF threadVars, Messages
<1>2. ThreadTypeOK'
  BY <1>1 DEF ThreadInv, ThreadTypeOK
<1>3. ASSUME NEW j \in Messages PROVE (Author(j) /\ Unmixed(j) /\ Stood(j))'
  <2>1. Author(j) /\ Unmixed(j) /\ Stood(j)
    BY DEF ThreadInv
  <2>2. Author(j)' /\ Unmixed(j)'
    BY <1>1, <2>1 DEF Author, Unmixed, IsDm
  <2>3. Conversation(j)' = Conversation(j)
    BY <1>1 DEF Conversation, IsDm
  <2> QED
    BY <1>1, <2>1, <2>2, <2>3 DEF Stood
<1> QED
  BY <1>1, <1>2, <1>3 DEF ThreadInv

LEMMA ThreadStep == ThreadInv /\ [ThreadNext]_threadVars => ThreadInv'
<1> SUFFICES ASSUME ThreadInv, [ThreadNext]_threadVars PROVE ThreadInv'
  OBVIOUS
<1>1. ASSUME NEW u \in Users, NEW w \in Words \cup {Silence}, NEW m \in BOOLEAN, Write(u, w, m)
      PROVE  ThreadInv'
  BY <1>1, WriteKeeps
<1>2. CASE OtherAppWrites
  BY <1>2, OtherAppKeeps
<1>3. ASSUME NEW j \in Messages, Job(j) PROVE ThreadInv'
  BY <1>3, NamingKeeps, FetchKeeps, ReplyKeeps, LostKeeps DEF Job
<1>4. CASE UNCHANGED threadVars
  BY <1>4, ThreadStutters
<1> QED
  BY <1>1, <1>2, <1>3, <1>4 DEF ThreadNext

----------------------------------------------------------------------------
(* The theorems.                                                             *)

\* Who writes what into a thread, who has a job there, and what its history holds.
THEOREM ThreadInvariant == ThreadSpec => []ThreadInv
<1>1. ThreadInit => ThreadInv
  BY ThreadInitInv
<1>2. ThreadInv /\ [ThreadNext]_threadVars => ThreadInv'
  BY ThreadStep
<1> QED
  BY <1>1, <1>2, PTL DEF ThreadSpec

\* Type correctness of a thread, its jobs and their histories, which never have more
\* than _HISTORY_MAX_TURNS turns.
THEOREM ThreadTypeCorrect == ThreadSpec => []ThreadTypeOK
BY ThreadInvariant, PTL DEF ThreadInv

\* However the jobs of a thread and the people in it interleave, _fetch_thread_history
\* never hands a requester a turn of somebody else or an answer given to somebody else.
THEOREM NobodyElsesTurns == ThreadSpec => []NoForeignAnswer
<1>1. ThreadInv => NoForeignAnswer
  BY DEF ThreadInv, Unmixed, NoForeignAnswer
<1> QED
  BY <1>1, ThreadInvariant, PTL

\* What _fetch_thread_history returns is the end of the requester's conversation as it
\* stood at the message it belongs to, after the thread's first message at the most, however
\* long the job waited in the queue.
THEOREM HistoriesStand == ThreadSpec => []AsItStood
<1>1. ThreadInv => AsItStood
  BY DEF ThreadInv, Stood, AsItStood
<1> QED
  BY <1>1, ThreadInvariant, PTL
=============================================================================
