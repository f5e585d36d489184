---------------------------- MODULE RequestPath ----------------------------
(***************************************************************************)
(* From a request to its answer in one process.  A Slack event is a job of *)
(* agent_executor from the start: process_event (adapters/slack.py) looks  *)
(* the sender up, resolves the scope, runs the agent and posts the reply.  *)
(* POST /query resolves the scope first (api/services/query_service.py)    *)
(* and only then streams: the agent call is a job, the generator waits for *)
(* it (api/routes/query.py).  Both kinds share one FIFO pool, and both     *)
(* carry the resolved scope with them until the job is done.               *)
(*                                                                         *)
(* The identity resolver is IdentityPromise, which ErpIdentity implements. *)
(***************************************************************************)
EXTENDS IdentityPromise, Sequences, FiniteSets

CONSTANTS
  Slack,      \* the requests that come as Slack events, the others are POST /query
  Nobody,     \* a /query without slack_user_id
  PoolSize,   \* AGENT_EXECUTION_CONCURRENCY
  MaxTime,    \* bound of the model: the last instant
  MaxChanges, \* bound of the model: changes of the ERP and of the registry
  MaxBeats    \* bound of the model: heartbeats of a stream

ASSUME RequestsAssumption == Slack \subseteq Requests /\ Nobody \notin Persons
ASSUME BoundsAssumption ==
  PoolSize \in Nat \ {0} /\ MaxTime \in Nat /\ MaxChanges \in Nat /\ MaxBeats \in Nat

Queries == Requests \ Slack

VARIABLES
  registered, \* hr_assistant_users: the persons with an active row
  changes,
  user,       \* whose slack_user_id the request carries
  stage,      \* where the request is
  queue,      \* agent_executor's queue
  running,    \* the jobs its threads run
  events,     \* SSE events sent to each /query
  left,       \* the /query clients that disconnected
  timedOut,   \* streams whose wait for the job timed out, their heartbeat not sent yet
  posts,      \* messages posted in each Slack thread
  reply,      \* the message process_event is about to post
  outcome,    \* how each /query's agent call ended
  ran         \* history: which requests ran statements, and in which scope

registry == <<registered, changes>>
pool == <<queue, running>>
client == <<events, left, timedOut, posts>>
vars == <<promiseVars, registry, user, stage, pool, client, reply, outcome, ran>>

Stages == {"new", "lookup", "found", "resolving", "refused", "opening", "opened", "queued",
           "agent", "posting", "done"}
Replies == {"none", "not registered", "unavailable", "inactive", "answer", "sorry"}
Scopes == Levels \cup {"unscoped"}

TypeOK ==
  /\ PromiseTypeOK
  /\ registered \subseteq Persons
  /\ changes \in Nat
  /\ user \in [Requests -> Persons \cup {Nobody}]
  /\ stage \in [Requests -> Stages]
  /\ queue \in Seq(Requests)
  /\ running \subseteq Requests
  /\ events \in [Queries -> Seq({"status", "heartbeat", "answer", "error"})]
  /\ left \subseteq Queries
  /\ timedOut \subseteq Queries
  /\ posts \in [Slack -> Seq(Replies \ {"none"})]
  /\ reply \in [Requests -> Replies]
  /\ outcome \in [Requests -> {"none", "answer", "error"}]
  /\ ran \subseteq [by : Requests, scope : Scopes]

Init ==
  /\ PromiseInit
  /\ registered \in SUBSET Persons
  /\ changes = 0
  /\ user \in [Requests -> Persons \cup {Nobody}]
  /\ \A r \in Slack : user[r] # Nobody
  /\ stage = [r \in Requests |-> "new"]
  /\ queue = <<>>
  /\ running = {}
  /\ events = [r \in Queries |-> <<>>]
  /\ left = {}
  /\ timedOut = {}
  /\ posts = [r \in Slack |-> <<>>]
  /\ reply = [r \in Requests |-> "none"]
  /\ outcome = [r \in Requests |-> "none"]
  /\ ran = {}

Enter(r, s) == stage' = [stage EXCEPT ![r] = s]
PostBlank(r, m) == UNCHANGED reply /\ Enter(r, "posting")
Post(r, m) == reply' = [reply EXCEPT ![r] = m] /\ Enter(r, "posting")

----------------------------------------------------------------------------
(* Time, the ERP and the registry.                                         *)

rest == <<user, stage, pool, client, reply, outcome, ran>>
Change == changes < MaxChanges /\ changes' = changes + 1

Tick == clock < MaxTime /\ Pass /\ UNCHANGED <<registry, rest>>

ErpChanges == Change /\ ErpStep /\ UNCHANGED <<registered, rest>>

\* register_user, or the admin panel sets is_active.
Register(p) ==
  /\ Change
  /\ p \notin registered
  /\ registered' = registered \cup {p}
  /\ UNCHANGED <<promiseVars, rest>>

\* deregister_user: requests that have looked the user up go on.
Deregister(p) ==
  /\ Change
  /\ p \in registered
  /\ registered' = registered \ {p}
  /\ UNCHANGED <<promiseVars, rest>>

----------------------------------------------------------------------------
(* Looking the user up and resolving the scope.                            *)

\* An empty query is a 400; a query for nobody runs without a scope.
ReceiveQuery(r) ==
  /\ r \in Queries /\ stage[r] = "new"
  /\ \/ Enter(r, "refused")
     \/ Enter(r, IF user[r] = Nobody THEN "opening" ELSE "lookup")
  /\ UNCHANGED <<promiseVars, registry, user, pool, client, reply, outcome, ran>>

\* The webhook submits process_event (SlackDelivery).
ReceiveEvent(r) ==
  /\ r \in Slack /\ stage[r] = "new"
  /\ queue' = Append(queue, r)
  /\ Enter(r, "queued")
  /\ UNCHANGED <<promiseVars, registry, user, running, client, reply, outcome, ran>>

\* get_by_slack_user_id, in a session of its own.
LookUp(r) ==
  /\ stage[r] = "lookup"
  /\ IF user[r] \in registered
     THEN Enter(r, "found") /\ UNCHANGED reply
     ELSE IF r \in Slack THEN Post(r, "not registered")
          ELSE Enter(r, "refused") /\ UNCHANGED reply
  /\ UNCHANGED <<promiseVars, registry, user, pool, client, outcome, ran>>

\* A failed lookup is a 500 for /query; process_event does not catch it, so its
\* job ends without a word to the sender.
LookUpFails(r) ==
  /\ stage[r] = "lookup"
  /\ Enter(r, "refused")
  /\ running' = running \ {r}
  /\ UNCHANGED <<promiseVars, registry, user, queue, client, reply, outcome, ran>>

AskScope(r) ==
  /\ stage[r] = "found"
  /\ Ask(r, user[r])
  /\ Enter(r, "resolving")
  /\ UNCHANGED <<registry, user, pool, client, reply, outcome, ran>>

ScopeUnchecked(r) == told'[r] \in Levels \cup {"denied"}
\* Only a context lets the request go on: None is refused by both callers, since
\* the agent would take it for "no restrictions".
ScopeGranted(r) == told'[r] \in Levels

TellScope(r) ==
  /\ stage[r] = "resolving"
  /\ \E answer \in Answers \ {"none"} : Tell(r, answer)
  /\ IF ScopeGranted(r)
     THEN Enter(r, IF r \in Slack THEN "agent" ELSE "opening") /\ UNCHANGED reply
     ELSE IF r \in Slack
          THEN Post(r, IF told'[r] = "denied" THEN "inactive" ELSE "unavailable")
          ELSE Enter(r, "refused") /\ UNCHANGED reply
  /\ UNCHANGED <<registry, user, pool, client, outcome, ran>>

----------------------------------------------------------------------------
(* The stream of a /query, on the event loop.                              *)

Send(r, e) == events' = [events EXCEPT ![r] = Append(@, e)]
Connected(r) == r \notin left

SendStatus(r) ==
  /\ stage[r] = "opening" /\ Connected(r)
  /\ Send(r, "status")
  /\ Enter(r, "opened")
  /\ UNCHANGED <<promiseVars, registry, user, pool, left, timedOut, posts, reply, outcome, ran>>

\* loop.run_in_executor(agent_executor, run_agent, ...)
Submit(r) ==
  /\ stage[r] = "opened" /\ Connected(r)
  /\ queue' = Append(queue, r)
  /\ Enter(r, "queued")
  /\ UNCHANGED <<promiseVars, registry, user, running, client, reply, outcome, ran>>

Beats(r) == Cardinality({i \in 1..Len(events[r]) : events[r][i] = "heartbeat"})

\* asyncio.wait returned after _HEARTBEAT_INTERVAL_SECONDS with nothing done.
TimeOut(r) ==
  /\ r \in Queries \ timedOut /\ Connected(r)
  /\ stage[r] \in {"queued", "agent"}
  /\ Beats(r) < MaxBeats
  /\ timedOut' = timedOut \cup {r}
  /\ UNCHANGED <<promiseVars, registry, user, stage, pool, events, left, posts, reply, outcome, ran>>

\* The heartbeat is sent all the same when the job has finished since.
Heartbeat(r) ==
  /\ r \in timedOut /\ Connected(r)
  /\ Send(r, "heartbeat")
  /\ timedOut' = timedOut \ {r}
  /\ UNCHANGED <<promiseVars, registry, user, stage, pool, left, posts, reply, outcome, ran>>

Finishing(r) == outcome[r] # "none" /\ Connected(r) /\ r \notin timedOut

FinishWithoutReturn(r) ==
  /\ Finishing(r)
  /\ Send(r, outcome[r])
  /\ outcome' = [outcome EXCEPT ![r] = IF @ = "error" THEN "answer" ELSE "none"]
  /\ UNCHANGED <<promiseVars, registry, user, stage, pool, left, timedOut, posts, reply, ran>>

\* The next wait returned with the future done: `error` if it raised, else `answer`.
FinishStream(r) ==
  /\ Finishing(r)
  /\ Send(r, outcome[r])
  /\ outcome' = [outcome EXCEPT ![r] = "none"]
  /\ UNCHANGED <<promiseVars, registry, user, stage, pool, left, timedOut, posts, reply, ran>>

\* The generator is cancelled; a submitted job keeps its place and its thread.
Disconnect(r) ==
  /\ r \in Queries /\ Connected(r)
  /\ stage[r] \in {"opening", "opened", "queued", "agent"} \/ outcome[r] # "none"
  /\ left' = left \cup {r}
  /\ UNCHANGED <<promiseVars, registry, user, stage, pool, events, timedOut, posts, reply, outcome, ran>>

----------------------------------------------------------------------------
(* The jobs.                                                               *)

StartWantedJob ==
  /\ queue # <<>>
  /\ Head(queue) \notin left
  /\ Cardinality(running) < PoolSize
  /\ LET r == Head(queue)
     IN /\ running' = running \cup {r}
        /\ Enter(r, IF r \in Slack THEN "lookup" ELSE "agent")
  /\ queue' = Tail(queue)
  /\ UNCHANGED <<promiseVars, registry, user, client, reply, outcome, ran>>

StartJob ==
  /\ queue # <<>>
  /\ Cardinality(running) < PoolSize
  /\ LET r == Head(queue)
     IN /\ running' = running \cup {r}
        /\ Enter(r, IF r \in Slack THEN "lookup" ELSE "agent")
  /\ queue' = Tail(queue)
  /\ UNCHANGED <<promiseVars, registry, user, client, reply, outcome, ran>>

\* The scope the agent was built with, until the job is done.
Scope(r) == IF user[r] = Nobody THEN "unscoped" ELSE
            IF told[r] \in Levels THEN told[r] ELSE "unscoped"

\* db.run: any number of statements in one agent run.
RunStatement(r) ==
  /\ stage[r] = "agent"
  /\ ran' = ran \cup {[by |-> r, scope |-> Scope(r)]}
  /\ UNCHANGED <<promiseVars, registry, user, stage, pool, client, reply, outcome>>

\* agent_query returned: its answer or its apology.
AgentAnswers(r) ==
  /\ stage[r] = "agent"
  /\ IF r \in Slack
     THEN Post(r, "answer") /\ UNCHANGED <<running, outcome>>
     ELSE /\ outcome' = [outcome EXCEPT ![r] = "answer"]
          /\ running' = running \ {r}
          /\ Enter(r, "done")
          /\ UNCHANGED reply
  /\ UNCHANGED <<promiseVars, registry, user, queue, client, ran>>

\* agent_query raised: outside its retry loop (load_schema_block) it may.
AgentRaises(r) ==
  /\ stage[r] = "agent"
  /\ IF r \in Slack
     THEN Post(r, "sorry") /\ UNCHANGED <<running, outcome>>
     ELSE /\ outcome' = [outcome EXCEPT ![r] = "error"]
          /\ running' = running \ {r}
          /\ Enter(r, "done")
          /\ UNCHANGED reply
  /\ UNCHANGED <<promiseVars, registry, user, queue, client, ran>>

\* chat_postMessage: slack_sdk's client, built without retry handlers of its own,
\* sends a call once more after a connection error, so that up to Attempts copies
\* of the message arrive.
Attempts == 2
Deliver(r, n) == posts' = [posts EXCEPT ![r] = @ \o [i \in 1..n |-> reply[r]]]
EndEventKeepsThread(r) == Enter(r, "done") /\ UNCHANGED <<running, reply>>
EndEvent(r) == Enter(r, "done") /\ running' = running \ {r} /\ UNCHANGED reply

PostReply(r) ==
  /\ stage[r] = "posting"
  /\ \E n \in 1..Attempts : Deliver(r, n)
  /\ EndEvent(r)
  /\ UNCHANGED <<promiseVars, registry, user, queue, events, left, timedOut, outcome, ran>>

\* Slack refused the message (SlackApiError), the last attempt at least: logged,
\* nothing else is tried.
SlackRefuses(r) ==
  /\ stage[r] = "posting"
  /\ \E n \in 0..(Attempts - 1) : Deliver(r, n)
  /\ EndEvent(r)
  /\ UNCHANGED <<promiseVars, registry, user, queue, events, left, timedOut, outcome, ran>>

RetryAnswer(r) == Post(r, "answer") /\ UNCHANGED running
AfterLostPost(r) ==
  IF reply[r] = "answer" THEN Post(r, "sorry") /\ UNCHANGED running ELSE EndEvent(r)

\* The call raised otherwise (a timeout, the second connection error), whatever
\* arrived: after an answer the error reply is tried, a failed reply ends the event.
PostRaises(r) ==
  /\ stage[r] = "posting"
  /\ \E n \in 0..Attempts : Deliver(r, n)
  /\ AfterLostPost(r)
  /\ UNCHANGED <<promiseVars, registry, user, queue, events, left, timedOut, outcome, ran>>

----------------------------------------------------------------------------
Decide(r) == LookUp(r) \/ LookUpFails(r)
Conclude(r) == AgentAnswers(r) \/ AgentRaises(r)
Publish(r) == PostReply(r) \/ SlackRefuses(r) \/ PostRaises(r)

Next ==
  \/ Tick \/ ErpChanges
  \/ \E p \in Persons : Register(p) \/ Deregister(p)
  \/ StartJob
  \/ \E r \in Requests :
       \/ ReceiveQuery(r) \/ ReceiveEvent(r)
       \/ LookUp(r) \/ LookUpFails(r) \/ AskScope(r) \/ TellScope(r)
       \/ SendStatus(r) \/ Submit(r) \/ TimeOut(r) \/ Heartbeat(r)
       \/ FinishStream(r) \/ Disconnect(r)
       \/ RunStatement(r) \/ AgentAnswers(r) \/ AgentRaises(r)
       \/ PostReply(r) \/ SlackRefuses(r) \/ PostRaises(r)

\* The event loop resumes a generator and a free thread takes the next job.  That
\* every call a job makes returns or raises is an assumption about the databases,
\* the language model and Slack: the code sets a time limit on none of them.
Fairness ==
  /\ WF_vars(StartJob)
  /\ \A r \in Requests :
       /\ WF_vars(Decide(r)) /\ WF_vars(AskScope(r)) /\ WF_vars(TellScope(r))
       /\ WF_vars(SendStatus(r)) /\ WF_vars(Submit(r))
       /\ WF_vars(Heartbeat(r)) /\ WF_vars(FinishStream(r))
       /\ WF_vars(Conclude(r)) /\ WF_vars(Publish(r))

Spec == Init /\ [][Next]_vars
FairSpec == Spec /\ Fairness

----------------------------------------------------------------------------
(* Properties.                                                             *)

\* The absence of a context means "no restrictions" to the agent and "no access"
\* to its callers (core/agent/factory.py:62, core/rbac/resolution.py:28): a
\* statement runs unscoped only for a /query that names nobody, and otherwise
\* only in the level that this very request was told about its own user.
OnlyCleared ==
  \A s \in ran :
    IF s.scope = "unscoped"
    THEN s.by \in Queries /\ user[s.by] = Nobody
    ELSE s.scope = told[s.by] /\ who[s.by] = user[s.by]

\* However the calls to Slack fail, a sender is never answered again after an
\* apology, is told two things only as an answer and the apology for its reported
\* loss, and sees no message more often than one call of the client sends it.
OneReply ==
  \A r \in Slack : \A i, j \in 1..Len(posts[r]) :
    /\ i < j /\ posts[r][i] # posts[r][j] => posts[r][i] = "answer" /\ posts[r][j] = "sorry"
    /\ i + Attempts <= j => posts[r][i] # posts[r][j]

\* Every stream follows the contract of POST /query, whatever its job, the pool
\* and the other streams do, and nothing is sent once the client has left.
Contract == INSTANCE StreamContract WITH Streams <- Queries
StreamsKeepContract == Contract!ContractSpec

\* A client that stays gets its answer or its error, though jobs of clients that
\* left and of silent Slack events hold the threads in front of it.
EveryStreamEnds ==
  \A r \in Queries :
    stage[r] = "opening" ~> r \in left \/ Contract!Ended(events[r])

\* Every Slack job ends and gives its thread back.
EveryEventEnds ==
  \A r \in Slack : stage[r] = "queued" ~> stage[r] \in {"done", "refused"}

\* RBAC_CACHE_TTL_SECONDS "bounds the window in which a revoked group membership
\* still works" (core/config.py:97).
RevocationWindow ==
  [][\A r \in Requests : RunStatement(r) /\ Scope(r) = "unrestricted" =>
       privileged[who[r]] \/ clock - revokedAt[who[r]] < Ttl]_vars
============================================================================
