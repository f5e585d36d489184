------------------------- MODULE RequestPathProofs -------------------------
(***************************************************************************)
(* Theorems about RequestPath, for any number of requests and pool threads *)
(* and without its bounds.  The invariant follows a request along its      *)
(* stages: what the request was told, what it has posted and what its      *)
(* stream has carried are each tied to where it is.                        *)
(***************************************************************************)
EXTENDS RequestPath, FiniteSetTheorems, TLAPS

\* The pool's queue holds every job once, and its requests are at "queued".
QueueInOrder ==
  /\ \A i \in 1..Len(queue) : stage[queue[i]] = "queued"
  /\ \A i, j \in 1..Len(queue) : queue[i] = queue[j] => i = j

\* Which stages are whose, and who is known by when.
StageFits(r) ==
  /\ stage[r] \in {"opening", "opened"} => r \in Queries
  /\ stage[r] = "posting" => r \in Slack /\ reply[r] # "none"
  /\ r \in Slack => user[r] # Nobody
  /\ stage[r] \in {"lookup", "found", "resolving"} => user[r] \in Persons
  /\ stage[r] = "resolving" => who[r] = user[r]

\* May run statements: for nobody, or in a level it was told about its own user.
Cleared(r) ==
  IF user[r] = Nobody THEN r \in Queries ELSE told[r] \in Levels /\ who[r] = user[r]
ClearedInTime(r) ==
  stage[r] \in {"opening", "opened", "agent"} \/ (stage[r] = "queued" /\ r \in Queries) => Cleared(r)
RunFits(s) ==
  stage[s.by] \in {"agent", "posting", "done"} /\ Cleared(s.by) /\ s.scope = Scope(s.by)

\* The copies of an answer, and then those of a message that may follow it.
AnswerCopies(ps) == Len(ps) \in 0..Attempts /\ \A i \in 1..Len(ps) : ps[i] = "answer"
SaidOnce(ps) ==
  \A i, j \in 1..Len(ps) :
    /\ i < j /\ ps[i] # ps[j] => ps[i] = "answer" /\ ps[j] = "sorry"
    /\ i + Attempts <= j => ps[i] # ps[j]

\* What stands in a Slack thread by the time its event is at each stage.
ThreadFits(r) ==
  r \in Slack =>
    /\ stage[r] \notin {"posting", "done"} => posts[r] = <<>>
    /\ stage[r] = "posting" =>
         posts[r] = <<>> \/ (AnswerCopies(posts[r]) /\ reply[r] = "sorry")
    /\ stage[r] = "done" => SaidOnce(posts[r])

\* What a stream has carried, and that its end is still to come if its job ended.
Open(r) == events[r] # <<>> /\ ~Contract!Ended(events[r])
StreamFits(r) ==
  /\ r \in Slack => outcome[r] = "none"
  /\ r \in Queries =>
       /\ stage[r] \notin {"opened", "queued", "agent", "done"} => events[r] = <<>>
       /\ stage[r] \in {"opened", "queued", "agent"} \/ outcome[r] # "none" => Open(r)
       /\ r \in timedOut => Open(r) /\ stage[r] \in {"queued", "agent", "done"}
       /\ stage[r] # "done" => outcome[r] = "none"

Fits(r) == StageFits(r) /\ ClearedInTime(r) /\ ThreadFits(r) /\ StreamFits(r)

PathInv ==
  TypeOK /\ QueueInOrder /\ (\A r \in Requests : Fits(r)) /\ (\A s \in ran : RunFits(s))

----------------------------------------------------------------------------
(* The initial states, and the types.                                      *)

LEMMA InitInv == Init => PathInv
<1> SUFFICES ASSUME Init PROVE PathInv
  OBVIOUS
<1> USE DEF Init
<1>1. PromiseTypeOK
  BY TtlAssumption DEF PromiseInit, PromiseTypeOK, Answers
<1>2. TypeOK
  BY <1>1 DEF TypeOK, Stages, Replies
<1>3. QueueInOrder /\ (\A s \in ran : RunFits(s))
  BY DEF QueueInOrder
<1>4. ASSUME NEW r \in Requests PROVE Fits(r)
  BY RequestsAssumption DEF Fits, StageFits, ClearedInTime, ThreadFits, StreamFits, Queries
<1> QED
  BY <1>2, <1>3, <1>4 DEF PathInv

LEMMA PromiseUntouched ==
  ASSUME PromiseTypeOK, UNCHANGED promiseVars PROVE PromiseTypeOK'
BY DEF PromiseTypeOK, promiseVars, erp, asking

\* Time, the ERP, and what a request does with the resolver.
LEMMA WorldTyped ==
  ASSUME PromiseTypeOK, Pass \/ ErpStep PROVE PromiseTypeOK'
<1>1. CASE Pass
  BY <1>1 DEF Pass, PromiseTypeOK, erp, asking
<1>2. CASE ErpStep
  <2>1. PICK p \in Persons, b \in BOOLEAN : SetActive(p, b) \/ SetPrivileged(p, b)
    BY <1>2 DEF ErpStep
  <2>2. CASE SetActive(p, b)
    BY <2>2 DEF SetActive, PromiseTypeOK, asking
  <2>3. CASE SetPrivileged(p, b)
    BY <2>3 DEF SetPrivileged, PromiseTypeOK, asking
  <2> QED
    BY <2>1, <2>2, <2>3
<1> QED
  BY <1>1, <1>2

LEMMA AskingTyped ==
  ASSUME PromiseTypeOK, NEW r \in Requests,
         \/ user[r] \in Persons /\ Ask(r, user[r])
         \/ \E answer \in Answers \ {"none"} : Tell(r, answer)
  PROVE  PromiseTypeOK'
<1>1. CASE user[r] \in Persons /\ Ask(r, user[r])
  BY <1>1 DEF Ask, PromiseTypeOK, erp, Answers
<1>2. CASE \E answer \in Answers \ {"none"} : Tell(r, answer)
  BY <1>2 DEF Tell, PromiseTypeOK, erp
<1> QED
  BY <1>1, <1>2

World == Tick \/ ErpChanges \/ \E p \in Persons : Register(p) \/ Deregister(p)

LEMMA TypeStep == PathInv /\ [Next]_vars => TypeOK'
<1> SUFFICES ASSUME PathInv, [Next]_vars PROVE TypeOK'
  OBVIOUS
<1> USE DEF PathInv, registry, pool, client, rest
<1>0. UNCHANGED promiseVars => PromiseTypeOK'
  BY PromiseUntouched DEF TypeOK
<1>1. CASE World
  <2>1. PromiseTypeOK'
    BY <1>0, <1>1, WorldTyped DEF World, Tick, ErpChanges, Register, Deregister, TypeOK
  <2> QED
    BY <1>1, <2>1 DEF World, Tick, ErpChanges, Register, Deregister, Change, TypeOK
<1>2. CASE StartJob
  <2>1. Head(queue) \in Requests /\ Tail(queue) \in Seq(Requests)
    BY <1>2 DEF StartJob, TypeOK
  <2> QED
    BY <1>0, <1>2, <2>1 DEF StartJob, Enter, TypeOK, Stages
<1>3. ASSUME NEW r \in Requests, ReceiveQuery(r) \/ LookUp(r) \/ LookUpFails(r)
      PROVE  TypeOK'
  <2>1. PICK s \in Stages : stage' = [stage EXCEPT ![r] = s]
    BY <1>3 DEF ReceiveQuery, LookUp, LookUpFails, Enter, Post, Stages
  <2>2. reply' \in [Requests -> Replies] /\ running' \subseteq Requests
    BY <1>3 DEF ReceiveQuery, LookUp, LookUpFails, Post, TypeOK, Replies
  <2> QED
    BY <1>0, <1>3, <2>1, <2>2 DEF ReceiveQuery, LookUp, LookUpFails, TypeOK
<1>4. ASSUME NEW r \in Requests, AskScope(r) \/ TellScope(r) PROVE TypeOK'
  <2>1. PromiseTypeOK'
    BY <1>4, AskingTyped DEF AskScope, TellScope, Fits, StageFits, TypeOK
  <2>2. PICK s \in Stages : stage' = [stage EXCEPT ![r] = s]
    BY <1>4 DEF AskScope, TellScope, Enter, Post, Stages
  <2>3. reply' \in [Requests -> Replies]
    BY <1>4 DEF AskScope, TellScope, Post, TypeOK, Replies
  <2> QED
    BY <1>4, <2>1, <2>2, <2>3 DEF AskScope, TellScope, TypeOK
<1>5. ASSUME NEW r \in Requests, ReceiveEvent(r) \/ Submit(r) PROVE TypeOK'
  <2>1. stage' = [stage EXCEPT ![r] = "queued"] /\ queue' = Append(queue, r)
    BY <1>5 DEF ReceiveEvent, Submit, Enter
  <2>2. queue' \in Seq(Requests)
    BY <2>1 DEF TypeOK
  <2>3. stage' \in [Requests -> Stages]
    BY <2>1 DEF TypeOK, Stages
  <2> QED
    BY <1>0, <1>5, <2>2, <2>3 DEF ReceiveEvent, Submit, TypeOK
<1>60. ASSUME NEW r \in Requests, TimeOut(r) PROVE TypeOK'
  BY <1>0, <1>60 DEF TimeOut, TypeOK
<1>6. ASSUME NEW r \in Requests, SendStatus(r) \/ Heartbeat(r) \/ FinishStream(r)
      PROVE  TypeOK'
  <2>1. PICK e \in {"status", "heartbeat", "answer", "error"} : Send(r, e)
    BY <1>6 DEF SendStatus, Heartbeat, FinishStream, Finishing, TypeOK
  <2>2. events' \in [Queries -> Seq({"status", "heartbeat", "answer", "error"})]
    <3>1. r \in Queries
      BY <1>6 DEF SendStatus, Heartbeat, FinishStream, Finishing, Fits, StageFits, StreamFits, Queries,
                  TypeOK
    <3>2. PICK es \in Seq({"status", "heartbeat", "answer", "error"}) : es = events[r]
      BY <3>1 DEF TypeOK
    <3>3. Append(es, e) \in Seq({"status", "heartbeat", "answer", "error"})
      OBVIOUS
    <3>4. events' = [events EXCEPT ![r] = Append(es, e)]
      BY <2>1, <3>2 DEF Send
    <3> QED
      BY <3>1, <3>3, <3>4 DEF TypeOK
  <2>3. stage' \in [Requests -> Stages] /\ outcome' \in [Requests -> {"none", "answer", "error"}]
    BY <1>6 DEF SendStatus, Heartbeat, FinishStream, Enter, TypeOK, Stages
  <2> QED
    BY <1>0, <1>6, <2>2, <2>3 DEF SendStatus, Heartbeat, FinishStream, TypeOK
<1>7. ASSUME NEW r \in Requests, Disconnect(r) PROVE TypeOK'
  BY <1>0, <1>7 DEF Disconnect, TypeOK
<1>8. ASSUME NEW r \in Requests, RunStatement(r) PROVE TypeOK'
  <2>1. Scope(r) \in Scopes
    BY DEF Scope, Scopes
  <2> QED
    BY <1>0, <1>8, <2>1 DEF RunStatement, TypeOK
<1>9. ASSUME NEW r \in Requests, AgentAnswers(r) \/ AgentRaises(r) PROVE TypeOK'
  <2>1. PICK s \in Stages : stage' = [stage EXCEPT ![r] = s]
    BY <1>9 DEF AgentAnswers, AgentRaises, Enter, Post, Stages
  <2>2. reply' \in [Requests -> Replies] /\ running' \subseteq Requests
        /\ outcome' \in [Requests -> {"none", "answer", "error"}]
    BY <1>9 DEF AgentAnswers, AgentRaises, Post, TypeOK, Replies
  <2> QED
    BY <1>0, <1>9, <2>1, <2>2 DEF AgentAnswers, AgentRaises, TypeOK
<1>10. ASSUME NEW r \in Requests, PostReply(r) \/ SlackRefuses(r) \/ PostRaises(r)
       PROVE  TypeOK'
  <2>1. r \in Slack /\ reply[r] \in Replies \ {"none"}
    BY <1>10 DEF PostReply, SlackRefuses, PostRaises, Fits, StageFits, TypeOK
  <2>2. posts' \in [Slack -> Seq(Replies \ {"none"})]
    <3>1. PICK n \in Nat : Deliver(r, n)
      BY <1>10 DEF PostReply, SlackRefuses, PostRaises, Attempts
    <3>2. PICK ps \in Seq(Replies \ {"none"}), m \in Replies \ {"none"} :
            ps = posts[r] /\ m = reply[r]
      BY <2>1 DEF TypeOK
    <3>3. [i \in 1..n |-> m] \in Seq(Replies \ {"none"})
      OBVIOUS
    <3>4. ps \o [i \in 1..n |-> m] \in Seq(Replies \ {"none"})
      BY <3>3
    <3>5. posts' = [posts EXCEPT ![r] = ps \o [i \in 1..n |-> m]]
      BY <3>1, <3>2 DEF Deliver
    <3> QED
      BY <2>1, <3>4, <3>5 DEF TypeOK
  <2>3. PICK s \in Stages : stage' = [stage EXCEPT ![r] = s]
    BY <1>10 DEF PostReply, SlackRefuses, PostRaises, AfterLostPost, EndEvent, Enter, Post, Stages
  <2>4. reply' \in [Requests -> Replies] /\ running' \subseteq Requests
    BY <1>10 DEF PostReply, SlackRefuses, PostRaises, AfterLostPost, EndEvent, Post, TypeOK, Replies
  <2> QED
    BY <1>0, <1>10, <2>2, <2>3, <2>4 DEF PostReply, SlackRefuses, PostRaises, TypeOK
<1>11. CASE UNCHANGED vars
  BY <1>0, <1>11 DEF vars, TypeOK
<1> QED
  BY <1>1, <1>2, <1>3, <1>4, <1>5, <1>60, <1>6, <1>7, <1>8, <1>9, <1>10, <1>11 DEF Next, World

----------------------------------------------------------------------------
(* A step of a request leaves the others where they are.                   *)

RequestNext(r) ==
  \/ ReceiveQuery(r) \/ ReceiveEvent(r)
  \/ LookUp(r) \/ LookUpFails(r) \/ AskScope(r) \/ TellScope(r)
  \/ SendStatus(r) \/ Submit(r) \/ TimeOut(r) \/ Heartbeat(r)
  \/ FinishStream(r) \/ Disconnect(r)
  \/ RunStatement(r) \/ AgentAnswers(r) \/ AgentRaises(r)
  \/ PostReply(r) \/ SlackRefuses(r) \/ PostRaises(r)

Same(q) ==
  /\ stage'[q] = stage[q] /\ told'[q] = told[q] /\ who'[q] = who[q] /\ user'[q] = user[q]
  /\ reply'[q] = reply[q] /\ outcome'[q] = outcome[q]
  /\ q \in Queries => events'[q] = events[q] /\ (q \in timedOut' <=> q \in timedOut)
  /\ q \in Slack => posts'[q] = posts[q]

LEMMA SameFits ==
  ASSUME NEW q, Same(q), Fits(q) PROVE Fits(q)'
<1>1. StageFits(q)' /\ ClearedInTime(q)' /\ ThreadFits(q)'
  BY DEF Same, Fits, StageFits, ClearedInTime, Cleared, ThreadFits
<1>2. StreamFits(q)'
  BY DEF Same, Fits, StreamFits, Open, Contract!Ended, Contract!Ends
<1> QED
  BY <1>1, <1>2 DEF Fits

LEMMA OthersSame ==
  ASSUME TypeOK, NEW r \in Requests, RequestNext(r), NEW q \in Requests \ {r} PROVE Same(q)
<1> USE DEF pool, client, promiseVars, asking, Enter, Post, EndEvent, Send
<1>1. CASE \/ ReceiveQuery(r) \/ ReceiveEvent(r) \/ LookUp(r) \/ LookUpFails(r)
           \/ Submit(r) \/ Disconnect(r) \/ RunStatement(r)
  BY <1>1 DEF ReceiveQuery, ReceiveEvent, LookUp, LookUpFails, Submit, Disconnect, RunStatement,
              TypeOK, Same
<1>2. CASE AskScope(r) \/ TellScope(r)
  BY <1>2 DEF AskScope, TellScope, Ask, Tell, TypeOK, PromiseTypeOK, Same
<1>3. CASE SendStatus(r) \/ TimeOut(r) \/ Heartbeat(r) \/ FinishStream(r)
  BY <1>3 DEF SendStatus, TimeOut, Heartbeat, FinishStream, TypeOK, Same
<1>4. CASE AgentAnswers(r) \/ AgentRaises(r)
  BY <1>4 DEF AgentAnswers, AgentRaises, TypeOK, Same
<1>5. CASE PostReply(r) \/ SlackRefuses(r) \/ PostRaises(r)
  BY <1>5 DEF PostReply, SlackRefuses, PostRaises, AfterLostPost, Deliver, TypeOK, Same
<1> QED
  BY <1>1, <1>2, <1>3, <1>4, <1>5 DEF RequestNext

\* Once a request has run statements, what it was told does not change any more.
LEMMA RunsStay ==
  ASSUME TypeOK, NEW r \in Requests, RequestNext(r), NEW s \in ran, s.by = r, RunFits(s)
  PROVE  RunFits(s)'
<1> USE DEF pool, client, promiseVars, asking, Enter, Post, EndEvent, Send
<1>1. UNCHANGED <<told, who, user>>
  BY DEF RequestNext, RunFits, ReceiveQuery, ReceiveEvent, LookUp, LookUpFails, AskScope, TellScope,
         SendStatus, Submit, TimeOut, Heartbeat, FinishStream, Disconnect, RunStatement, AgentAnswers,
         AgentRaises, PostReply, SlackRefuses, PostRaises
<1>2. stage'[r] \in {"agent", "posting", "done"}
  BY DEF RequestNext, RunFits, ReceiveQuery, ReceiveEvent, LookUp, LookUpFails, AskScope, TellScope,
         SendStatus, Submit, TimeOut, Heartbeat, FinishStream, Disconnect, RunStatement, AgentAnswers,
         AgentRaises, PostReply, SlackRefuses, PostRaises, AfterLostPost, TypeOK
<1> QED
  BY <1>1, <1>2 DEF RunFits, Cleared, Scope

----------------------------------------------------------------------------
(* The request that takes a step.                                          *)

\* Up to Attempts copies of a message, after nothing or after those of the answer.
LEMMA Copied ==
  ASSUME NEW ps \in Seq(Replies), NEW n \in 0..Attempts, NEW m \in Replies,
         ps = <<>> \/ (AnswerCopies(ps) /\ m = "sorry")
  PROVE  /\ SaidOnce(ps \o [i \in 1..n |-> m])
         /\ ps = <<>> /\ m = "answer" => AnswerCopies(ps \o [i \in 1..n |-> m])
<1> DEFINE cs == [i \in 1..n |-> m]
<1>1. cs \in Seq(Replies) /\ Len(cs) = n /\ \A i \in 1..n : cs[i] = m
  BY DEF Attempts
<1> HIDE DEF cs
<1> DEFINE both == ps \o cs
<1>2. /\ Len(both) = Len(ps) + n /\ Len(ps) \in 0..Attempts
      /\ \A i \in 1..Len(both) : both[i] = IF i <= Len(ps) THEN "answer" ELSE m
  <2>1. Len(ps) \in 0..Attempts /\ \A i \in 1..Len(ps) : ps[i] = "answer"
    BY DEF AnswerCopies, Attempts
  <2> QED
    BY <1>1, <2>1
<1> HIDE DEF both
<1>3. SaidOnce(both)
  <2>1. CASE ps = <<>>
    <3>1. Len(ps) = 0
      BY <2>1
    <3>2. Len(both) \in 0..2 /\ \A i \in 1..Len(both) : both[i] = m
      BY <1>2, <3>1 DEF Attempts
    <3> QED
      BY <3>2 DEF SaidOnce, Attempts
  <2>2. CASE m = "sorry"
    <3> DEFINE k == Len(ps)
    <3>1. k \in 0..2 /\ Len(both) = k + n /\ n \in 0..2
      BY <1>2 DEF Attempts
    <3> HIDE DEF k
    <3>2. ASSUME NEW i \in 1..Len(both)
          PROVE  (both[i] = "answer" /\ i <= k) \/ (both[i] = "sorry" /\ i > k)
      BY <1>2, <2>2, <3>1 DEF k
    <3>3. ASSUME NEW i \in 1..Len(both), NEW j \in 1..Len(both), i < j, both[i] # both[j]
          PROVE  both[i] = "answer" /\ both[j] = "sorry"
      BY <3>1, <3>2, <3>3
    <3>4. ASSUME NEW i \in 1..Len(both), NEW j \in 1..Len(both), i + 2 <= j
          PROVE  both[i] # both[j]
      BY <3>1, <3>2, <3>4
    <3> QED
      BY <3>3, <3>4 DEF SaidOnce, Attempts
  <2> QED
    BY <2>1, <2>2
<1>4. ps = <<>> /\ m = "answer" => AnswerCopies(both)
  BY <1>2 DEF AnswerCopies, Attempts
<1> QED
  BY <1>3, <1>4 DEF both, cs

LEMMA RequestFits ==
  ASSUME TypeOK, NEW r \in Requests, Fits(r), RequestNext(r) PROVE Fits(r)'
<1> USE DEF pool, client, promiseVars, asking, Enter, Fits
<1>0. r \in Queries <=> r \notin Slack
  BY DEF Queries
\* Steps up to the agent call, before anything is sent.
<1>1. ASSUME NEW st \in {"refused", "opening", "lookup", "found", "resolving", "queued", "agent"},
             stage[r] \in {"new", "lookup", "found", "resolving"}, stage'[r] = st,
             UNCHANGED <<client, outcome>>, user' = user,
             StageFits(r)', ClearedInTime(r)', st \in {"queued", "agent"} => r \in Slack
      PROVE  Fits(r)'
  BY <1>0, <1>1 DEF ThreadFits, StreamFits
<1>2. CASE ReceiveQuery(r)
  <2>1. r \in Queries /\ stage[r] = "new" /\ UNCHANGED <<client, outcome, user, told, who>>
    BY <1>2 DEF ReceiveQuery
  <2>2. PICK st \in {"refused", "opening", "lookup"} : /\ stage' = [stage EXCEPT ![r] = st]
                                                       /\ st = "lookup" => user[r] # Nobody
                                                       /\ st = "opening" => user[r] = Nobody
    BY <1>2 DEF ReceiveQuery
  <2>3. stage'[r] = st /\ user[r] \in Persons \cup {Nobody}
    BY <2>2 DEF TypeOK
  <2>4. StageFits(r)' /\ ClearedInTime(r)'
    BY <1>0, <2>1, <2>2, <2>3 DEF StageFits, ClearedInTime, Cleared
  <2> QED
    BY <1>1, <2>1, <2>3, <2>4
<1>3. CASE ReceiveEvent(r)
  <2>1. /\ r \in Slack /\ stage[r] = "new" /\ stage'[r] = "queued"
        /\ UNCHANGED <<client, outcome, user, told, who>>
    BY <1>3 DEF ReceiveEvent, TypeOK
  <2>2. StageFits(r)' /\ ClearedInTime(r)'
    BY <1>0, <2>1 DEF StageFits, ClearedInTime
  <2> QED
    BY <1>1, <2>1, <2>2
\* A reply that is not the answer: nothing has been posted yet.
<1>4. ASSUME stage[r] \in {"lookup", "resolving", "agent"}, r \in Slack,
             NEW m \in Replies \ {"none"}, Post(r, m), UNCHANGED <<client, outcome, user>>
      PROVE  Fits(r)'
  <2>1. stage'[r] = "posting" /\ reply'[r] = m
    BY <1>4 DEF Post, TypeOK
  <2> QED
    BY <1>0, <1>4, <2>1 DEF StageFits, ClearedInTime, ThreadFits, StreamFits
<1>5. CASE LookUp(r)
  <2>1. stage[r] = "lookup" /\ UNCHANGED <<client, outcome, user, told, who>>
    BY <1>5 DEF LookUp
  <2>2. CASE user[r] \notin registered /\ r \in Slack
    BY <1>4, <1>5, <2>1, <2>2 DEF LookUp, Replies
  <2>3. CASE user[r] \in registered \/ r \notin Slack
    <3>1. PICK st \in {"found", "refused"} : stage' = [stage EXCEPT ![r] = st]
      BY <1>5, <2>3 DEF LookUp
    <3>2. stage'[r] = st
      BY <3>1 DEF TypeOK
    <3>3. StageFits(r)' /\ ClearedInTime(r)'
      BY <2>1, <3>2 DEF StageFits, ClearedInTime
    <3> QED
      BY <1>1, <2>1, <3>2, <3>3
  <2> QED
    BY <2>2, <2>3
<1>6. CASE LookUpFails(r)
  <2>1. stage[r] = "lookup" /\ stage'[r] = "refused" /\ UNCHANGED <<client, outcome, user>>
    BY <1>6 DEF LookUpFails, TypeOK
  <2>2. StageFits(r)' /\ ClearedInTime(r)'
    BY <2>1 DEF StageFits, ClearedInTime
  <2> QED
    BY <1>1, <2>1, <2>2
<1>7. CASE AskScope(r)
  <2>1. /\ stage[r] = "found" /\ stage'[r] = "resolving" /\ who'[r] = user[r]
        /\ UNCHANGED <<client, outcome, user>>
    BY <1>7 DEF AskScope, Ask, TypeOK, PromiseTypeOK
  <2>2. StageFits(r)' /\ ClearedInTime(r)'
    BY <2>1 DEF StageFits, ClearedInTime
  <2> QED
    BY <1>1, <2>1, <2>2
<1>8. CASE TellScope(r)
  <2>1. stage[r] = "resolving" /\ UNCHANGED <<client, outcome, user, who>>
    BY <1>8 DEF TellScope, Tell
  <2>2. CASE ScopeGranted(r)
    <3>1. stage'[r] = IF r \in Slack THEN "agent" ELSE "opening"
      BY <1>8, <2>2 DEF TellScope, TypeOK
    <3>2. user[r] # Nobody /\ who[r] = user[r] /\ told'[r] \in Levels
      BY <2>1, <2>2, RequestsAssumption DEF StageFits, ScopeGranted
    <3>3. StageFits(r)' /\ ClearedInTime(r)'
      BY <1>0, <2>1, <3>1, <3>2 DEF StageFits, ClearedInTime, Cleared
    <3> QED
      BY <1>0, <1>1, <2>1, <3>1, <3>3
  <2>3. CASE ~ScopeGranted(r) /\ r \in Slack
    BY <1>4, <1>8, <2>1, <2>3 DEF TellScope, Replies
  <2>4. CASE ~ScopeGranted(r) /\ r \notin Slack
    <3>1. stage'[r] = "refused"
      BY <1>8, <2>4 DEF TellScope, TypeOK
    <3>2. StageFits(r)' /\ ClearedInTime(r)'
      BY <2>1, <2>4, <3>1 DEF StageFits, ClearedInTime
    <3> QED
      BY <1>1, <2>1, <3>1, <3>2
  <2> QED
    BY <2>2, <2>3, <2>4
\* The stream of a query.
<1>9. ASSUME NEW e \in {"status", "heartbeat", "answer", "error"}, r \in Queries, Send(r, e)
      PROVE  /\ events'[r] # <<>>
             /\ Contract!Ended(events'[r]) <=> e \in {"answer", "error"}
  <2>1. PICK es \in Seq({"status", "heartbeat", "answer", "error"}) : es = events[r]
    BY <1>9 DEF TypeOK
  <2>2. events'[r] = Append(es, e)
    BY <1>9, <2>1 DEF Send, TypeOK
  <2>3. Append(es, e) # <<>> /\ Append(es, e)[Len(Append(es, e))] = e
    OBVIOUS
  <2> QED
    BY <2>2, <2>3 DEF Contract!Ended, Contract!Ends
<1>10. CASE SendStatus(r)
  <2>1. /\ stage[r] = "opening" /\ stage'[r] = "opened" /\ Send(r, "status") /\ r \in Queries
        /\ UNCHANGED <<outcome, user, told, who, posts, timedOut>>
    BY <1>10 DEF SendStatus, StageFits, TypeOK
  <2>2. Open(r)'
    BY <1>9, <2>1 DEF Open
  <2> QED
    BY <1>0, <2>1, <2>2 DEF StageFits, ClearedInTime, Cleared, ThreadFits, StreamFits
<1>11. CASE Submit(r)
  <2>1. /\ stage[r] = "opened" /\ stage'[r] = "queued" /\ r \in Queries
        /\ UNCHANGED <<outcome, user, told, who, posts, events>>
    BY <1>11 DEF Submit, StageFits, TypeOK
  <2>2. Open(r)'
    BY <2>1 DEF StreamFits, Open, Contract!Ended, Contract!Ends
  <2> QED
    BY <1>0, <2>1, <2>2 DEF StageFits, ClearedInTime, Cleared, ThreadFits, StreamFits
<1>120. CASE TimeOut(r)
  <2>1. /\ stage[r] \in {"queued", "agent"} /\ r \in Queries
        /\ UNCHANGED <<events, stage, outcome, user, told, who, posts, reply>>
    BY <1>120 DEF TimeOut
  <2>2. Open(r)'
    BY <2>1 DEF StreamFits, Open, Contract!Ended, Contract!Ends
  <2> QED
    BY <1>0, <2>1, <2>2 DEF StageFits, ClearedInTime, Cleared, ThreadFits, StreamFits
<1>12. CASE Heartbeat(r)
  <2>1. /\ r \in Queries /\ Send(r, "heartbeat") /\ r \in timedOut
        /\ UNCHANGED <<stage, outcome, user, told, who, posts, reply>>
    BY <1>12 DEF Heartbeat, TypeOK
  <2>2. Open(r)' /\ stage[r] \in {"queued", "agent", "done"}
    BY <1>9, <2>1 DEF Open, StreamFits
  <2> QED
    BY <1>0, <2>1, <2>2 DEF StageFits, ClearedInTime, Cleared, ThreadFits, StreamFits
<1>13. CASE FinishStream(r)
  <2>1. /\ outcome[r] # "none" /\ outcome'[r] = "none" /\ r \notin timedOut
        /\ UNCHANGED <<stage, user, told, who, posts, reply, timedOut>>
    BY <1>13 DEF FinishStream, Finishing, TypeOK
  <2>2. r \in Queries /\ stage[r] = "done"
    BY <1>0, <2>1 DEF StreamFits
  <2> QED
    BY <1>0, <2>1, <2>2 DEF StageFits, ClearedInTime, Cleared, ThreadFits, StreamFits
<1>14. CASE Disconnect(r) \/ RunStatement(r)
  <2>1. Same(r)
    BY <1>14 DEF Disconnect, RunStatement, Same
  <2> QED
    BY <2>1, SameFits
<1>15. CASE AgentAnswers(r) \/ AgentRaises(r)
  <2>1. stage[r] = "agent" /\ UNCHANGED <<client, user, told, who>>
    BY <1>15 DEF AgentAnswers, AgentRaises
  <2>2. CASE r \in Slack
    <3>1. PICK m \in {"answer", "sorry"} : Post(r, m)
      BY <1>15, <2>2 DEF AgentAnswers, AgentRaises
    <3> QED
      BY <1>4, <1>15, <2>1, <2>2, <3>1 DEF AgentAnswers, AgentRaises, Replies
  <2>3. CASE r \notin Slack
    <3>1. stage'[r] = "done"
      BY <1>15, <2>3 DEF AgentAnswers, AgentRaises, TypeOK
    <3>2. Open(r)'
      BY <1>0, <2>1, <2>3 DEF StreamFits, Open, Contract!Ended, Contract!Ends
    <3> QED
      BY <1>0, <2>1, <2>3, <3>1, <3>2 DEF StageFits, ClearedInTime, ThreadFits, StreamFits
  <2> QED
    BY <2>2, <2>3
\* The messages of an event.
<1>16. ASSUME stage[r] = "posting", NEW n \in 0..Attempts, Deliver(r, n)
       PROVE  /\ r \in Slack /\ reply[r] # "none"
              /\ posts[r] = <<>> \/ (AnswerCopies(posts[r]) /\ reply[r] = "sorry")
              /\ SaidOnce(posts'[r])
              /\ posts[r] = <<>> /\ reply[r] = "answer" => AnswerCopies(posts'[r])
  <2>1. /\ r \in Slack /\ reply[r] # "none"
        /\ posts[r] = <<>> \/ (AnswerCopies(posts[r]) /\ reply[r] = "sorry")
    BY <1>16 DEF StageFits, ThreadFits
  <2>2. posts'[r] = posts[r] \o [i \in 1..n |-> reply[r]] /\ posts[r] \in Seq(Replies)
        /\ reply[r] \in Replies
    BY <1>16, <2>1 DEF Deliver, TypeOK
  <2> QED
    BY <2>1, <2>2, Copied
<1>17. ASSUME stage[r] = "posting", NEW n \in 0..Attempts, Deliver(r, n), EndEvent(r),
              UNCHANGED <<outcome, user, events, timedOut>>
       PROVE  Fits(r)'
  <2>1. stage'[r] = "done"
    BY <1>17 DEF EndEvent, TypeOK
  <2> QED
    BY <1>0, <1>16, <1>17, <2>1 DEF StageFits, ClearedInTime, ThreadFits, StreamFits
<1>18. CASE PostReply(r) \/ SlackRefuses(r)
  BY <1>17, <1>18 DEF PostReply, SlackRefuses, Attempts
<1>19. CASE PostRaises(r)
  <2>1. PICK n \in 0..Attempts : Deliver(r, n)
    BY <1>19 DEF PostRaises
  <2>2. stage[r] = "posting" /\ UNCHANGED <<outcome, user, events, timedOut>>
    BY <1>19 DEF PostRaises
  <2>3. CASE reply[r] # "answer"
    BY <1>17, <1>19, <2>1, <2>2, <2>3 DEF PostRaises, AfterLostPost
  <2>4. CASE reply[r] = "answer"
    <3>1. stage'[r] = "posting" /\ reply'[r] = "sorry"
      BY <1>19, <2>4 DEF PostRaises, AfterLostPost, Post, TypeOK
    <3>2. r \in Slack /\ AnswerCopies(posts'[r])
      BY <1>16, <2>1, <2>2, <2>4
    <3> QED
      BY <1>0, <2>2, <3>1, <3>2 DEF StageFits, ClearedInTime, ThreadFits, StreamFits
  <2> QED
    BY <2>3, <2>4
<1> QED
  BY <1>2, <1>3, <1>5, <1>6, <1>7, <1>8, <1>10, <1>11, <1>120, <1>12, <1>13, <1>14, <1>15, <1>18, <1>19
  DEF RequestNext

----------------------------------------------------------------------------
(* The pool's queue.                                                       *)

LEMMA Enqueued ==
  ASSUME TypeOK, QueueInOrder, NEW r \in Requests, stage[r] # "queued",
         queue' = Append(queue, r), stage' = [stage EXCEPT ![r] = "queued"]
  PROVE  QueueInOrder'
<1>1. PICK jobs \in Seq(Requests) : jobs = queue
  BY DEF TypeOK
<1>2. /\ Len(queue') = Len(queue) + 1
      /\ \A i \in 1..Len(queue) : queue'[i] = queue[i] /\ queue[i] \in Requests
      /\ queue'[Len(queue) + 1] = r
  BY <1>1
<1>3. \A i \in 1..Len(queue) : queue[i] # r
  BY DEF QueueInOrder
<1>4. Len(queue) \in Nat
  BY <1>1
<1>5. ASSUME NEW i \in 1..Len(queue') PROVE stage'[queue'[i]] = "queued"
  BY <1>2, <1>4, <1>5 DEF QueueInOrder, TypeOK
<1>6. ASSUME NEW i \in 1..Len(queue'), NEW j \in 1..Len(queue'), queue'[i] = queue'[j]
      PROVE  i = j
  BY <1>2, <1>3, <1>4, <1>6 DEF QueueInOrder
<1> QED
  BY <1>5, <1>6 DEF QueueInOrder

LEMMA Dequeued ==
  ASSUME TypeOK, QueueInOrder, StartJob
  PROVE  /\ Head(queue) \in Requests /\ stage[Head(queue)] = "queued"
         /\ QueueInOrder'
<1>1. PICK jobs \in Seq(Requests) : jobs = queue
  BY DEF TypeOK
<1>2. /\ Len(queue) \in Nat \ {0} /\ Head(queue) = queue[1] /\ Len(queue') = Len(queue) - 1
      /\ \A i \in 1..Len(queue') : queue'[i] = queue[i + 1]
      /\ \A i \in 1..Len(queue) : queue[i] \in Requests
  BY <1>1 DEF StartJob
<1>3. stage' = [stage EXCEPT ![Head(queue)] = IF Head(queue) \in Slack THEN "lookup" ELSE "agent"]
  BY DEF StartJob, Enter
<1>4. Head(queue) \in Requests /\ stage[Head(queue)] = "queued"
  BY <1>2 DEF QueueInOrder
<1>5. ASSUME NEW i \in 1..Len(queue') PROVE stage'[queue'[i]] = "queued"
  <2>1. i + 1 \in 1..Len(queue) /\ 1 \in 1..Len(queue) /\ i + 1 # 1
    BY <1>2
  <2>2. queue[i + 1] # queue[1] /\ stage[queue[i + 1]] = "queued" /\ queue[i + 1] \in Requests
    BY <1>2, <2>1 DEF QueueInOrder
  <2> QED
    BY <1>2, <1>3, <2>2 DEF TypeOK
<1>6. ASSUME NEW i \in 1..Len(queue'), NEW j \in 1..Len(queue'), queue'[i] = queue'[j]
      PROVE  i = j
  <2>1. i + 1 \in 1..Len(queue) /\ j + 1 \in 1..Len(queue) /\ queue[i + 1] = queue[j + 1]
    BY <1>2, <1>6
  <2>2. i + 1 = j + 1
    BY <2>1 DEF QueueInOrder
  <2> QED
    BY <2>2
<1> QED
  BY <1>4, <1>5, <1>6 DEF QueueInOrder

\* Outside the queue, a step of a request leaves the queue as it is.
LEMMA QueueKept ==
  ASSUME TypeOK, QueueInOrder, NEW r \in Requests, queue' = queue,
         stage' = stage \/ (stage[r] # "queued" /\ \E s \in Stages : stage' = [stage EXCEPT ![r] = s])
  PROVE  QueueInOrder'
<1>1. ASSUME NEW i \in 1..Len(queue) PROVE stage'[queue[i]] = "queued"
  <2>1. queue[i] \in Requests /\ stage[queue[i]] = "queued"
    BY DEF TypeOK, QueueInOrder
  <2> QED
    BY <2>1 DEF TypeOK
<1> QED
  BY <1>1 DEF QueueInOrder

LEMMA QueueStep ==
  ASSUME TypeOK, QueueInOrder, NEW r \in Requests, Fits(r), RequestNext(r) PROVE QueueInOrder'
<1> USE DEF pool, client, Enter, Post, EndEvent
<1>1. CASE ReceiveEvent(r) \/ Submit(r)
  BY <1>1, Enqueued DEF ReceiveEvent, Submit
<1>2. CASE ReceiveQuery(r) \/ LookUp(r) \/ LookUpFails(r) \/ AskScope(r) \/ TellScope(r)
  <2>1. queue' = queue /\ stage[r] # "queued" /\ \E s \in Stages : stage' = [stage EXCEPT ![r] = s]
    BY <1>2 DEF ReceiveQuery, LookUp, LookUpFails, AskScope, TellScope, Stages
  <2> QED
    BY <2>1, QueueKept
<1>3. CASE SendStatus(r) \/ AgentAnswers(r) \/ AgentRaises(r)
  <2>1. queue' = queue /\ stage[r] # "queued" /\ \E s \in Stages : stage' = [stage EXCEPT ![r] = s]
    BY <1>3 DEF SendStatus, AgentAnswers, AgentRaises, Stages
  <2> QED
    BY <2>1, QueueKept
<1>4. CASE PostReply(r) \/ SlackRefuses(r) \/ PostRaises(r)
  <2>1. queue' = queue /\ stage[r] # "queued" /\ \E s \in Stages : stage' = [stage EXCEPT ![r] = s]
    BY <1>4 DEF PostReply, SlackRefuses, PostRaises, AfterLostPost, Stages
  <2> QED
    BY <2>1, QueueKept
<1>5. CASE TimeOut(r) \/ Heartbeat(r) \/ FinishStream(r) \/ Disconnect(r) \/ RunStatement(r)
  <2>1. queue' = queue /\ stage' = stage
    BY <1>5 DEF TimeOut, Heartbeat, FinishStream, Disconnect, RunStatement
  <2> QED
    BY <2>1, QueueKept
<1> QED
  BY <1>1, <1>2, <1>3, <1>4, <1>5 DEF RequestNext

----------------------------------------------------------------------------
(* The invariant.                                                          *)

LEMMA SameRuns ==
  ASSUME NEW s, Same(s.by), RunFits(s) PROVE RunFits(s)'
BY DEF Same, RunFits, Cleared, Scope

\* A statement runs in the scope of the request, which is cleared by then.
LEMMA RunsStep ==
  ASSUME TypeOK, NEW r \in Requests, Fits(r), RequestNext(r), \A s \in ran : RunFits(s),
         NEW s \in ran'
  PROVE  RunFits(s)'
<1>1. CASE s \in ran /\ s.by = r
  BY <1>1, RunsStay
<1>2. CASE s \in ran /\ s.by # r
  <2>1. s.by \in Requests \ {r}
    BY <1>2 DEF TypeOK
  <2> QED
    BY <1>2, <2>1, OthersSame, SameRuns
<1>3. CASE s \notin ran
  <2>1. RunStatement(r)
    BY <1>3 DEF RequestNext, ReceiveQuery, ReceiveEvent, LookUp, LookUpFails, AskScope, TellScope,
                SendStatus, Submit, TimeOut, Heartbeat, FinishStream, Disconnect, AgentAnswers, AgentRaises,
                PostReply, SlackRefuses, PostRaises
  <2>2. stage[r] = "agent" /\ s = [by |-> r, scope |-> Scope(r)]
    BY <1>3, <2>1 DEF RunStatement
  <2>3. UNCHANGED <<stage, told, who, user>>
    BY <2>1 DEF RunStatement, promiseVars, asking
  <2> QED
    BY <2>2, <2>3 DEF Fits, ClearedInTime, RunFits, Cleared, Scope
<1> QED
  BY <1>1, <1>2, <1>3

LEMMA RequestInv ==
  ASSUME PathInv, NEW r \in Requests, RequestNext(r)
  PROVE  /\ QueueInOrder'
         /\ \A q \in Requests : Fits(q)'
         /\ \A s \in ran' : RunFits(s)'
<1> USE DEF PathInv
<1>1. QueueInOrder'
  BY QueueStep
<1>2. ASSUME NEW q \in Requests PROVE Fits(q)'
  <2>1. CASE q = r
    BY <2>1, RequestFits
  <2>2. CASE q # r
    BY <2>2, OthersSame, SameFits
  <2> QED
    BY <2>1, <2>2
<1>3. \A s \in ran' : RunFits(s)'
  BY RunsStep
<1> QED
  BY <1>1, <1>2, <1>3

\* A thread takes a job whose request has nothing posted, or is cleared.
LEMMA StartJobInv ==
  ASSUME PathInv, StartJob
  PROVE  /\ QueueInOrder'
         /\ \A q \in Requests : Fits(q)'
         /\ \A s \in ran' : RunFits(s)'
<1> USE DEF PathInv, pool, client, promiseVars, asking
<1>0. PICK h \in Requests : h = Head(queue)
  BY Dequeued
<1>1. h \in Requests /\ stage[h] = "queued" /\ QueueInOrder'
  BY <1>0, Dequeued
<1>2. /\ stage' = [stage EXCEPT ![h] = IF h \in Slack THEN "lookup" ELSE "agent"]
      /\ UNCHANGED <<told, who, user, reply, outcome, events, timedOut, posts, ran>>
  BY <1>0 DEF StartJob, Enter
<1>3. ASSUME NEW q \in Requests \ {h} PROVE Same(q)
  BY <1>2, <1>3 DEF Same
<1>4. Fits(h)'
  <2>1. Fits(h) /\ (h \in Queries <=> h \notin Slack) /\ user[h] \in Persons \cup {Nobody}
    BY <1>1 DEF TypeOK, Queries
  <2>2. CASE h \in Slack
    <3>1. stage'[h] = "lookup" /\ user'[h] \in Persons
      BY <1>1, <1>2, <2>1, <2>2 DEF TypeOK, Fits, StageFits
    <3>2. posts'[h] = <<>> /\ outcome'[h] = "none"
      BY <1>1, <1>2, <2>1, <2>2 DEF Fits, ThreadFits, StreamFits
    <3> QED
      BY <2>1, <2>2, <3>1, <3>2, RequestsAssumption
      DEF Fits, StageFits, ClearedInTime, ThreadFits, StreamFits
  <2>3. CASE h \notin Slack
    <3>1. stage'[h] = "agent" /\ UNCHANGED <<told, who, user, outcome, events, timedOut>>
      BY <1>1, <1>2, <2>3 DEF TypeOK
    <3>2. Cleared(h)'
      BY <1>1, <2>1, <2>3, <3>1 DEF Fits, ClearedInTime, Cleared
    <3>3. Open(h)' /\ outcome'[h] = "none"
      BY <1>1, <2>1, <2>3, <3>1 DEF Fits, StreamFits, Open, Contract!Ended, Contract!Ends
    <3> QED
      BY <2>1, <2>3, <3>1, <3>2, <3>3
      DEF Fits, StageFits, ClearedInTime, ThreadFits, StreamFits
  <2> QED
    BY <2>2, <2>3
<1>5. ASSUME NEW s \in ran PROVE RunFits(s)'
  <2>1. s.by \in Requests \ {h}
    BY <1>1 DEF RunFits, TypeOK
  <2> QED
    BY <1>3, <2>1, SameRuns
<1>6. ASSUME NEW q \in Requests PROVE Fits(q)'
  BY <1>3, <1>4, SameFits
<1> QED
  BY <1>1, <1>2, <1>5, <1>6

\* Time, the ERP and the registry pass by the requests.
LEMMA IdleInv ==
  ASSUME PathInv, World \/ UNCHANGED vars
  PROVE  /\ QueueInOrder'
         /\ \A q \in Requests : Fits(q)'
         /\ \A s \in ran' : RunFits(s)'
<1> USE DEF PathInv
<1>1. UNCHANGED <<told, who>>
  BY DEF World, Tick, Pass, ErpChanges, ErpStep, SetActive, SetPrivileged, Register, Deregister,
         vars, promiseVars, asking
<1>2. UNCHANGED <<stage, user, reply, outcome, events, timedOut, posts, queue, ran>>
  BY DEF World, Tick, ErpChanges, Register, Deregister, vars, rest, pool, client
<1>3. \A q : Same(q)
  BY <1>1, <1>2 DEF Same
<1>4. QueueInOrder'
  BY <1>2 DEF QueueInOrder
<1> QED
  BY <1>2, <1>3, <1>4, SameFits, SameRuns

LEMMA NextInv == PathInv /\ [Next]_vars => PathInv'
<1> SUFFICES ASSUME PathInv, [Next]_vars PROVE PathInv'
  OBVIOUS
<1>1. TypeOK'
  BY TypeStep
<1>2. World \/ UNCHANGED vars \/ StartJob \/ \E r \in Requests : RequestNext(r)
  BY DEF Next, World, RequestNext
<1> QED
  BY <1>1, <1>2, RequestInv, StartJobInv, IdleInv DEF PathInv

\* Every request keeps to its stages.
THEOREM Invariance == Spec => []PathInv
<1> QED
  BY InitInv, NextInv, PTL DEF Spec

----------------------------------------------------------------------------
(* The streams.                                                            *)

LEMMA StreamStep ==
  ASSUME PathInv, NEW r \in Requests, RequestNext(r)
  PROVE  Contract!ContractNext \/ UNCHANGED <<events, left>>
<1> USE DEF PathInv, client
<1>1. r \in Slack => outcome[r] = "none"
  BY DEF Fits, StreamFits
\* A queued job or a running one has an open stream, a finished one an unfinished stream.
<1>2. /\ r \in Queries /\ (stage[r] \in {"opened", "queued", "agent"} \/ outcome[r] # "none") => Open(r)
      /\ r \in Queries /\ stage[r] = "opening" => events[r] = <<>>
  BY DEF Fits, StreamFits
<1>3. ASSUME NEW e, r \in Queries, Send(r, e), r \notin left, left' = left,
             e \in Contract!Following(events[r])
      PROVE  Contract!ContractNext
  BY <1>3 DEF Send, Contract!ContractNext, Contract!Carry
<1>4. CASE SendStatus(r)
  <2>1. r \in Queries /\ stage[r] = "opening" /\ Send(r, "status") /\ r \notin left /\ left' = left
    BY <1>4 DEF SendStatus, Connected, Fits, StageFits
  <2>2. "status" \in Contract!Following(events[r])
    BY <1>2, <2>1 DEF Contract!Following
  <2> QED
    BY <1>3, <2>1, <2>2
<1>5. CASE Heartbeat(r)
  <2>1. /\ r \in Queries /\ Send(r, "heartbeat") /\ Open(r)
        /\ r \notin left /\ left' = left
    BY <1>5 DEF Heartbeat, Connected, Fits, StreamFits, TypeOK
  <2>2. "heartbeat" \in Contract!Following(events[r])
    BY <2>1 DEF Open, Contract!Following
  <2> QED
    BY <1>3, <2>1, <2>2
<1>6. CASE FinishStream(r)
  <2>1. outcome[r] # "none" /\ Send(r, outcome[r]) /\ r \notin left /\ left' = left
    BY <1>6 DEF FinishStream, Finishing, Connected
  <2>2. r \in Queries /\ outcome[r] \in {"answer", "error"}
    BY <1>1, <2>1 DEF Queries, TypeOK
  <2>3. outcome[r] \in Contract!Following(events[r])
    BY <1>2, <2>1, <2>2 DEF Open, Contract!Following, Contract!Ends
  <2> QED
    BY <1>3, <2>1, <2>2, <2>3
\* A client can only leave a stream that has not ended.
<1>7. CASE Disconnect(r)
  <2>1. /\ r \in Queries /\ left' = left \cup {r} /\ events' = events
        /\ stage[r] \in {"opening", "opened", "queued", "agent"} \/ outcome[r] # "none"
    BY <1>7 DEF Disconnect
  <2>2. ~Contract!Ended(events[r])
    <3>1. CASE stage[r] = "opening"
      BY <1>2, <2>1, <3>1 DEF Contract!Ended
    <3>2. CASE stage[r] # "opening"
      BY <1>2, <2>1, <3>2 DEF Open
    <3> QED
      BY <3>1, <3>2
  <2> QED
    BY <2>1, <2>2 DEF Contract!ContractNext, Contract!HangUp
<1>8. CASE ~(SendStatus(r) \/ Heartbeat(r) \/ FinishStream(r) \/ Disconnect(r))
  BY <1>8 DEF RequestNext, ReceiveQuery, ReceiveEvent, LookUp, LookUpFails, AskScope, TellScope,
              Submit, TimeOut, RunStatement, AgentAnswers, AgentRaises, PostReply, SlackRefuses,
              PostRaises
<1> QED
  BY <1>4, <1>5, <1>6, <1>7, <1>8

LEMMA NextKeepsContract ==
  PathInv /\ [Next]_vars => [Contract!ContractNext]_(Contract!contractVars)
<1> SUFFICES ASSUME PathInv, [Next]_vars
             PROVE  Contract!ContractNext \/ UNCHANGED <<events, left>>
  BY DEF Contract!contractVars
<1>1. CASE World \/ UNCHANGED vars \/ StartJob
  BY <1>1 DEF World, Tick, ErpChanges, Register, Deregister, StartJob, vars, rest, client
<1>2. CASE \E r \in Requests : RequestNext(r)
  BY <1>2, StreamStep
<1> QED
  BY <1>1, <1>2 DEF Next, World, RequestNext

----------------------------------------------------------------------------
(* What it is for.                                                         *)

\* Type correctness of the requests, the pool and the streams.
THEOREM TypeCorrect == Spec => []TypeOK
BY Invariance, PTL DEF PathInv

\* However the ERP, the registry and the other requests change in between: a
\* statement runs unscoped only for a /query that names nobody, and otherwise in
\* the level that this request was told about its own user.
THEOREM OnlyClearedRun == Spec => []OnlyCleared
<1>1. PathInv => OnlyCleared
  <2> SUFFICES ASSUME PathInv, NEW s \in ran
               PROVE  IF s.scope = "unscoped"
                      THEN s.by \in Queries /\ user[s.by] = Nobody
                      ELSE s.scope = told[s.by] /\ who[s.by] = user[s.by]
    BY DEF OnlyCleared
  <2>1. Cleared(s.by) /\ s.scope = Scope(s.by)
    BY DEF PathInv, RunFits
  <2> QED
    BY <2>1 DEF Cleared, Scope, Levels
<1> QED
  BY <1>1, Invariance, PTL

\* However the calls to Slack fail and are repeated, a sender is not answered again
\* after an apology, and is told two things only as an answer and its apology.
THEOREM RepliesOnce == Spec => []OneReply
<1>1. PathInv => OneReply
  <2> SUFFICES ASSUME PathInv, NEW r \in Slack PROVE SaidOnce(posts[r])
    BY DEF OneReply, SaidOnce
  <2>1. ThreadFits(r)
    BY RequestsAssumption DEF PathInv, Fits
  <2>2. CASE posts[r] = <<>>
    BY <2>2 DEF SaidOnce
  <2>3. CASE AnswerCopies(posts[r])
    BY <2>3 DEF AnswerCopies, SaidOnce, Attempts
  <2> QED
    BY <2>1, <2>2, <2>3 DEF ThreadFits
<1> QED
  BY <1>1, Invariance, PTL

\* The generator, its job and the pool implement the contract of POST /query:
\* `status` first, heartbeats, one `answer` or `error`, and nothing after it or
\* after the client has left.
THEOREM StreamsKeep == Spec => StreamsKeepContract
<1>1. Init => Contract!ContractInit
  BY DEF Init, Contract!ContractInit
<1> QED
  BY <1>1, Invariance, NextKeepsContract, PTL DEF Spec, StreamsKeepContract, Contract!ContractSpec

----------------------------------------------------------------------------
(* The threads and the queue of the pool, and the ends of the streams: the    *)
(* safety half of EveryStreamEnds and EveryEventEnds.                         *)

\* A job is at work in a thread: process_event from its start to its end, run_agent.
AtWork(r) ==
  stage[r] \in {"agent", "posting"} \/ (r \in Slack /\ stage[r] \in {"lookup", "found", "resolving"})

QueueHolds(r) == \E i \in 1..Len(queue) : queue[i] = r

\* The threads in use are those of the jobs at work, no more than the pool has, and
\* whoever waits for a thread is in the queue.
PoolAccounted ==
  /\ running = {r \in Requests : AtWork(r)}
  /\ IsFiniteSet(running) /\ Cardinality(running) <= PoolSize
  /\ \A r \in Requests : stage[r] = "queued" => QueueHolds(r)

\* The job of a stream leaves its result behind, or the client has it.
ResultKept(r) == stage[r] = "done" => outcome[r] # "none" \/ Contract!Ended(events[r])
ResultsKept == \A r \in Queries : ResultKept(r)

AccountInv == PoolAccounted /\ ResultsKept

LEMMA InitAccount == Init => AccountInv
<1> SUFFICES ASSUME Init PROVE AccountInv
  OBVIOUS
<1>1. running = {} /\ \A r \in Requests : stage[r] = "new"
  BY DEF Init
<1>2. IsFiniteSet({}) /\ Cardinality({}) = 0 /\ PoolSize \in Nat \ {0}
  BY FS_EmptySet, BoundsAssumption
<1>3. PoolAccounted
  BY <1>1, <1>2 DEF PoolAccounted, AtWork
<1>4. ResultsKept
  BY <1>1 DEF ResultsKept, ResultKept, Queries
<1> QED
  BY <1>3, <1>4 DEF AccountInv

\* A step of a request keeps its thread, or ends its job and gives the thread back.
LEMMA ThreadStep ==
  ASSUME TypeOK, NEW r \in Requests, Fits(r), RequestNext(r)
  PROVE  \/ running' = running /\ (AtWork(r)' <=> AtWork(r))
         \/ running' = running \ {r} /\ ~AtWork(r)'
<1> USE DEF pool, client, Enter, Post, EndEvent, AtWork
<1>1. CASE \/ ReceiveQuery(r) \/ ReceiveEvent(r) \/ LookUp(r) \/ LookUpFails(r) \/ AskScope(r)
  BY <1>1 DEF ReceiveQuery, ReceiveEvent, LookUp, LookUpFails, AskScope, TypeOK, Queries
<1>2. CASE TellScope(r)
  BY <1>2 DEF TellScope, TypeOK
<1>3. CASE SendStatus(r) \/ Submit(r)
  BY <1>3 DEF SendStatus, Submit, TypeOK
<1>4. CASE TimeOut(r) \/ Heartbeat(r) \/ FinishStream(r) \/ Disconnect(r) \/ RunStatement(r)
  BY <1>4 DEF TimeOut, Heartbeat, FinishStream, Disconnect, RunStatement
<1>5. CASE AgentAnswers(r) \/ AgentRaises(r)
  BY <1>5 DEF AgentAnswers, AgentRaises, TypeOK
<1>6. CASE PostReply(r) \/ SlackRefuses(r) \/ PostRaises(r)
  BY <1>6 DEF PostReply, SlackRefuses, PostRaises, AfterLostPost, TypeOK
<1> QED
  BY <1>1, <1>2, <1>3, <1>4, <1>5, <1>6 DEF RequestNext

\* A step of a request puts it into the queue, or leaves the queue as it is.
LEMMA WaitingStep ==
  ASSUME TypeOK, NEW r \in Requests, RequestNext(r)
  PROVE  \/ queue' = Append(queue, r)
         \/ queue' = queue /\ (stage'[r] = "queued" => stage[r] = "queued")
<1> USE DEF pool, client, Enter, Post, EndEvent
<1>1. CASE ReceiveEvent(r) \/ Submit(r)
  BY <1>1 DEF ReceiveEvent, Submit
<1>2. CASE ReceiveQuery(r) \/ LookUp(r) \/ LookUpFails(r) \/ AskScope(r) \/ TellScope(r)
  BY <1>2 DEF ReceiveQuery, LookUp, LookUpFails, AskScope, TellScope, TypeOK
<1>3. CASE SendStatus(r) \/ AgentAnswers(r) \/ AgentRaises(r)
  BY <1>3 DEF SendStatus, AgentAnswers, AgentRaises, TypeOK
<1>4. CASE PostReply(r) \/ SlackRefuses(r) \/ PostRaises(r)
  BY <1>4 DEF PostReply, SlackRefuses, PostRaises, AfterLostPost, TypeOK
<1>5. CASE TimeOut(r) \/ Heartbeat(r) \/ FinishStream(r) \/ Disconnect(r) \/ RunStatement(r)
  BY <1>5 DEF TimeOut, Heartbeat, FinishStream, Disconnect, RunStatement
<1> QED
  BY <1>1, <1>2, <1>3, <1>4, <1>5 DEF RequestNext

LEMMA PoolStep ==
  ASSUME TypeOK, PoolAccounted, NEW r \in Requests, Fits(r), RequestNext(r)
  PROVE  PoolAccounted'
<1>1. \A q \in Requests \ {r} : Same(q)
  BY OthersSame
<1>2. \A q \in Requests \ {r} : AtWork(q)' <=> AtWork(q)
  BY <1>1 DEF Same, AtWork
<1>3. running' = {q \in Requests : AtWork(q)'}
  <2>1. CASE running' = running /\ (AtWork(r)' <=> AtWork(r))
    BY <1>2, <2>1 DEF PoolAccounted
  <2>2. CASE running' = running \ {r} /\ ~AtWork(r)'
    BY <1>2, <2>2 DEF PoolAccounted
  <2> QED
    BY <2>1, <2>2, ThreadStep
<1>4. IsFiniteSet(running') /\ Cardinality(running') <= PoolSize
  <2>1. running' \subseteq running
    BY ThreadStep
  <2>2. IsFiniteSet(running) /\ Cardinality(running) \in Nat /\ Cardinality(running) <= PoolSize
    BY FS_CardinalityType DEF PoolAccounted
  <2>3. /\ IsFiniteSet(running') /\ Cardinality(running') <= Cardinality(running)
        /\ Cardinality(running') \in Nat
    BY <2>1, <2>2, FS_Subset, FS_CardinalityType
  <2> QED
    BY <2>2, <2>3, BoundsAssumption
<1>5. ASSUME NEW q \in Requests, stage'[q] = "queued" PROVE QueueHolds(q)'
  <2>1. PICK jobs \in Seq(Requests) : jobs = queue
    BY DEF TypeOK
  <2>2. q # r => stage[q] = "queued"
    BY <1>1, <1>5 DEF Same
  <2>3. CASE queue' = Append(queue, r)
    <3>1. /\ Len(queue) \in Nat /\ Len(queue') = Len(queue) + 1
          /\ \A i \in 1..Len(queue) : i \in 1..Len(queue') /\ queue'[i] = queue[i]
          /\ Len(queue) + 1 \in 1..Len(queue') /\ queue'[Len(queue) + 1] = r
      BY <2>1, <2>3
    <3>2. CASE q = r
      BY <3>1, <3>2 DEF QueueHolds
    <3>3. CASE q # r
      BY <2>2, <3>1, <3>3 DEF QueueHolds, PoolAccounted
    <3> QED
      BY <3>2, <3>3
  <2>4. CASE queue' = queue /\ (stage'[r] = "queued" => stage[r] = "queued")
    BY <1>5, <2>2, <2>4 DEF QueueHolds, PoolAccounted
  <2> QED
    BY <2>3, <2>4, WaitingStep
<1> QED
  BY <1>3, <1>4, <1>5 DEF PoolAccounted

\* The head of the queue gets one of the free threads.
LEMMA ThreadTaken ==
  ASSUME TypeOK, QueueInOrder, PoolAccounted, StartJob
  PROVE  PoolAccounted'
<1>1. PICK h \in Requests : h = Head(queue) /\ stage[h] = "queued"
  BY Dequeued
<1>2. /\ stage' = [stage EXCEPT ![h] = IF h \in Slack THEN "lookup" ELSE "agent"]
      /\ running' = running \cup {h} /\ Cardinality(running) < PoolSize
      /\ queue' = Tail(queue) /\ queue # <<>>
  BY <1>1 DEF StartJob, Enter
<1>3. \A q \in Requests : AtWork(q)' <=> q = h \/ AtWork(q)
  BY <1>1, <1>2 DEF AtWork, TypeOK
<1>4. running' = {q \in Requests : AtWork(q)'}
  BY <1>2, <1>3 DEF PoolAccounted
<1>5. IsFiniteSet(running') /\ Cardinality(running') <= PoolSize
  <2>1. h \notin running
    BY <1>1 DEF PoolAccounted, AtWork
  <2>2. /\ IsFiniteSet(running') /\ Cardinality(running') = Cardinality(running) + 1
        /\ Cardinality(running) \in Nat
    BY <1>2, <2>1, FS_AddElement, FS_CardinalityType DEF PoolAccounted
  <2> QED
    BY <1>2, <2>2, BoundsAssumption
<1>6. ASSUME NEW q \in Requests, stage'[q] = "queued" PROVE QueueHolds(q)'
  <2>1. PICK jobs \in Seq(Requests) : jobs = queue
    BY DEF TypeOK
  <2>2. q # h /\ stage[q] = "queued"
    BY <1>1, <1>2, <1>6 DEF TypeOK
  <2>3. PICK i \in 1..Len(queue) : queue[i] = q
    BY <2>2 DEF PoolAccounted, QueueHolds
  <2>4. /\ Len(queue) \in Nat \ {0} /\ queue[1] = h /\ Len(queue') = Len(queue) - 1
        /\ \A k \in 1..Len(queue') : queue'[k] = queue[k + 1]
    BY <1>1, <1>2, <2>1
  <2>5. i - 1 \in 1..Len(queue') /\ queue'[i - 1] = q
    BY <2>2, <2>3, <2>4
  <2> QED
    BY <2>5 DEF QueueHolds
<1> QED
  BY <1>4, <1>5, <1>6 DEF PoolAccounted

LEMMA ResultStep ==
  ASSUME TypeOK, NEW r \in Requests, Fits(r), r \in Queries, ResultKept(r), RequestNext(r)
  PROVE  ResultKept(r)'
<1> USE DEF pool, client, Enter, Post, EndEvent, ResultKept
<1>0. r \notin Slack /\ stage[r] # "posting"
  BY DEF Queries, Fits, StageFits
<1>1. CASE FinishStream(r)
  <2>1. PICK es \in Seq({"status", "heartbeat", "answer", "error"}) : es = events[r]
    BY DEF TypeOK
  <2>2. outcome[r] \in Contract!Ends /\ events'[r] = Append(es, outcome[r])
    BY <1>1, <2>1 DEF FinishStream, Finishing, Send, TypeOK, Contract!Ends
  <2>3. /\ Append(es, outcome[r]) # <<>>
        /\ Append(es, outcome[r])[Len(Append(es, outcome[r]))] = outcome[r]
    BY <2>1
  <2>4. Contract!Ended(events[r])'
    BY <2>2, <2>3 DEF Contract!Ended, Contract!Ends
  <2> QED
    BY <2>4
<1>2. CASE AgentAnswers(r) \/ AgentRaises(r)
  BY <1>0, <1>2 DEF AgentAnswers, AgentRaises, TypeOK
<1>3. CASE TimeOut(r) \/ Disconnect(r) \/ RunStatement(r)
  <2>1. UNCHANGED <<stage, outcome, events>>
    BY <1>3 DEF TimeOut, Disconnect, RunStatement
  <2> QED
    BY <2>1 DEF Contract!Ended, Contract!Ends
<1>4. CASE \/ ReceiveQuery(r) \/ ReceiveEvent(r) \/ LookUp(r) \/ LookUpFails(r) \/ AskScope(r)
           \/ TellScope(r) \/ SendStatus(r) \/ Submit(r)
  <2>1. stage'[r] # "done"
    BY <1>0, <1>4 DEF ReceiveQuery, ReceiveEvent, LookUp, LookUpFails, AskScope, TellScope,
                      SendStatus, Submit, TypeOK
  <2> QED
    BY <2>1
<1>5. CASE Heartbeat(r)
  <2>1. UNCHANGED <<stage, outcome>> /\ (stage[r] = "done" => outcome[r] # "none")
    BY <1>5 DEF Heartbeat, Fits, StreamFits, Open
  <2> QED
    BY <2>1
<1>6. ~(PostReply(r) \/ SlackRefuses(r) \/ PostRaises(r))
  BY <1>0 DEF PostReply, SlackRefuses, PostRaises
<1> QED
  BY <1>1, <1>2, <1>3, <1>4, <1>5, <1>6 DEF RequestNext

LEMMA AccountStep == PathInv /\ AccountInv /\ [Next]_vars => AccountInv'
<1> SUFFICES ASSUME PathInv, AccountInv, [Next]_vars PROVE AccountInv'
  OBVIOUS
<1> USE DEF PathInv, AccountInv
<1>1. ASSUME NEW q \in Queries, Same(q) PROVE ResultKept(q)'
  <2>1. UNCHANGED <<stage[q], outcome[q], events[q]>>
    BY <1>1, RequestsAssumption DEF Same, Queries
  <2>2. Contract!Ended(events[q])' <=> Contract!Ended(events[q])
    BY <2>1 DEF Contract!Ended, Contract!Ends
  <2> QED
    BY <2>1, <2>2 DEF ResultsKept, ResultKept
<1>2. CASE World \/ UNCHANGED vars
  <2>1. UNCHANGED <<stage, outcome, events, queue, running>>
    BY <1>2 DEF World, Tick, ErpChanges, Register, Deregister, vars, rest, pool, client
  <2>2. PoolAccounted'
    BY <2>1 DEF PoolAccounted, AtWork, QueueHolds
  <2>3. ResultsKept'
    BY <2>1 DEF ResultsKept, ResultKept, Contract!Ended, Contract!Ends
  <2> QED
    BY <2>2, <2>3
<1>3. CASE StartJob
  <2>1. PICK h \in Requests : h = Head(queue)
    BY <1>3, Dequeued
  <2>2. /\ stage' = [stage EXCEPT ![h] = IF h \in Slack THEN "lookup" ELSE "agent"]
        /\ UNCHANGED <<outcome, events>>
    BY <1>3, <2>1 DEF StartJob, Enter, client
  <2>3. \A q \in Requests : stage'[q] = "done" => stage[q] = "done"
    BY <2>2 DEF TypeOK
  <2>4. ResultsKept'
    BY <2>2, <2>3 DEF ResultsKept, ResultKept, Contract!Ended, Contract!Ends, Queries
  <2> QED
    BY <1>3, <2>4, ThreadTaken
<1>4. ASSUME NEW r \in Requests, RequestNext(r) PROVE AccountInv'
  <2>1. PoolAccounted'
    BY <1>4, PoolStep
  <2>2. ASSUME NEW q \in Queries PROVE ResultKept(q)'
    <3>1. CASE q = r
      BY <1>4, <3>1, ResultStep DEF ResultsKept
    <3>2. CASE q # r
      BY <1>1, <1>4, <3>2, OthersSame DEF Queries
    <3> QED
      BY <3>1, <3>2
  <2> QED
    BY <2>1, <2>2 DEF ResultsKept
<1> QED
  BY <1>2, <1>3, <1>4 DEF Next, World, RequestNext

LEMMA AccountInvariant == Spec => []AccountInv
<1>1. Init => AccountInv
  BY InitAccount
<1>2. PathInv /\ AccountInv /\ [Next]_vars => AccountInv'
  BY AccountStep
<1> QED
  BY <1>1, <1>2, Invariance, PTL DEF Spec

\* The pool of core/executor.py never runs more jobs than it has threads, no thread is
\* kept by a request that is through or gone, and no submitted job is forgotten.
THEOREM ThreadsAccounted == Spec => []PoolAccounted
BY AccountInvariant, PTL DEF AccountInv

\* When the agent call of a /query is over, its stream has ended or still holds the
\* answer or error to end with, which nobody takes if the client has left
\* (api/routes/query.py:40-58).
THEOREM NoResultForgotten == Spec => []ResultsKept
BY AccountInvariant, PTL DEF AccountInv
=============================================================================
