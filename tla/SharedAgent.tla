---------------------------- MODULE SharedAgent ----------------------------
(***************************************************************************)
(* Agent construction and execution: get_agent and the shared agent cache  *)
(* (core/agent/factory.py) under query's retry loop                        *)
(* (core/agent/runner.py), run by the threads of agent_executor.           *)
(*                                                                         *)
(* An agent's db.run rewrites every statement under the context the agent  *)
(* was built with (the closure of _scoped_run), so what a query may read   *)
(* is decided by which agent get_agent hands it.  Neither the cache nor    *)
(* the loop takes a lock: the check of _agent, its assignment and the read *)
(* in `return _agent` are separate steps.                                  *)
(***************************************************************************)
EXTENDS Integers, FiniteSets

CONSTANTS
  Threads,     \* threads of agent_executor
  Persons,     \* person ids of SELF contexts
  NoCtx,       \* rbac_ctx is None: /query without a slack_user_id
  All,         \* an UNRESTRICTED context
  Main,        \* the main thread, which warms the cache up in the lifespan
  NoAgent,     \* _agent is None
  MaxAttempts, \* range(3)
  MaxQueries   \* bound of the model: queries per thread

Ctx == Persons \cup {NoCtx, All}

\* A thread builds at most once in an attempt of a query, so no two agents are equal.
Agent == [by : Threads \cup {Main}, query : Nat, attempt : Nat, ctx : Ctx]

ASSUME ContextsAssumption == NoCtx \notin Persons /\ All \notin Persons
ASSUME ThreadsAssumption == Main \notin Threads
ASSUME NoAgentAssumption == NoAgent \notin Agent
ASSUME NumbersAssumption == MaxAttempts \in Nat \ {0} /\ MaxQueries \in Nat

VARIABLES
  shared,    \* factory._agent
  phase,     \* where each thread is in query
  ctx,       \* its rbac_ctx
  attempt,   \* failed attempts of its query
  agent,     \* what get_agent returned to it
  failed,    \* history: agents the thread's current query failed on
  queries    \* queries each thread has run

vars == <<shared, phase, ctx, attempt, agent, failed, queries>>

Phases == {"idle", "lookup", "building", "returning", "invoking", "failed",
           "answered", "apologised", "raised"}
\* Where query() has returned or raised.
Ended == {"answered", "apologised", "raised"}

TypeOK ==
  /\ shared \in Agent \cup {NoAgent}
  /\ phase \in [Threads -> Phases]
  /\ ctx \in [Threads -> Ctx]
  /\ attempt \in [Threads -> 0..MaxAttempts]
  /\ agent \in [Threads -> Agent \cup {NoAgent}]
  /\ failed \in [Threads -> SUBSET Agent]
  /\ queries \in [Threads -> Nat]

\* The lifespan's get_agent() has built the first shared agent.
Init ==
  /\ shared = [by |-> Main, query |-> 0, attempt |-> 0, ctx |-> NoCtx]
  /\ phase = [t \in Threads |-> "idle"]
  /\ ctx = [t \in Threads |-> NoCtx]
  /\ attempt = [t \in Threads |-> 0]
  /\ agent = [t \in Threads |-> NoAgent]
  /\ failed = [t \in Threads |-> {}]
  /\ queries = [t \in Threads |-> 0]

----------------------------------------------------------------------------
\* rbac_ctx is None or rbac_ctx.is_unrestricted, in get_agent and in query's except.
SharesAnyCtx(c) == TRUE
Shares(c) == c \in {NoCtx, All}

Enter(t, next) == phase' = [phase EXCEPT ![t] = next]

\* query() begins on a free thread.  What it does before the loop, reading the schema
\* file and building the message, is in no try and may raise.
Start(t, c) ==
  /\ phase[t] \in Ended \cup {"idle"}
  /\ queries[t] < MaxQueries
  /\ queries' = [queries EXCEPT ![t] = @ + 1]
  /\ ctx' = [ctx EXCEPT ![t] = c]
  /\ attempt' = [attempt EXCEPT ![t] = 0]
  /\ failed' = [failed EXCEPT ![t] = {}]
  /\ agent' = [agent EXCEPT ![t] = NoAgent]
  /\ \E next \in {"lookup", "raised"} : Enter(t, next)
  /\ UNCHANGED shared

\* The test `_agent is None`; a restricted context always builds.
Lookup(t) ==
  /\ phase[t] = "lookup"
  /\ Enter(t, IF Shares(ctx[t]) /\ shared # NoAgent THEN "returning" ELSE "building")
  /\ UNCHANGED <<shared, ctx, attempt, agent, failed, queries>>

NewAgent(t) ==
  [by |-> t, query |-> queries[t], attempt |-> attempt[t], ctx |-> ctx[t]]

\* A shared build ends in the assignment to _agent, and `return _agent` reads it again.
BuildShared(t) ==
  /\ phase[t] = "building"
  /\ Shares(ctx[t])
  /\ shared' = NewAgent(t)
  /\ Enter(t, "returning")
  /\ UNCHANGED <<ctx, attempt, agent, failed, queries>>

BuildRestricted(t) ==
  /\ phase[t] = "building"
  /\ ~Shares(ctx[t])
  /\ agent' = [agent EXCEPT ![t] = NewAgent(t)]
  /\ Enter(t, "invoking")
  /\ UNCHANGED <<shared, ctx, attempt, failed, queries>>

\* `return _agent`: another thread may have reset it since.
ReturnShared(t) ==
  /\ phase[t] = "returning"
  /\ agent' = [agent EXCEPT ![t] = shared]
  /\ Enter(t, "invoking")
  /\ UNCHANGED <<shared, ctx, attempt, failed, queries>>

\* invoke returned.  What follows the loop is in no try either: strip_forbidden of an
\* output that is no string, or _extract_tables, may raise.
Answer(t) ==
  /\ phase[t] = "invoking"
  /\ agent[t] # NoAgent
  /\ agent' = [agent EXCEPT ![t] = NoAgent]
  /\ failed' = [failed EXCEPT ![t] = {}]
  /\ \E next \in {"answered", "raised"} : Enter(t, next)
  /\ UNCHANGED <<shared, ctx, attempt, queries>>

ResetAlways(t) == shared' = NoAgent
ResetNever(t) == UNCHANGED shared
\* reset_shared_agent() in the except clause: whatever _agent is by now.
ResetAfterFailure(t) == IF Shares(ctx[t]) THEN shared' = NoAgent ELSE UNCHANGED shared

\* The build or invoke raised; invoke on None raises too.
Fail(t) ==
  /\ phase[t] \in {"building", "invoking"}
  /\ ResetAfterFailure(t)
  /\ attempt' = [attempt EXCEPT ![t] = @ + 1]
  /\ failed' = [failed EXCEPT ![t] = @ \cup ({agent[t]} \ {NoAgent})]
  /\ agent' = [agent EXCEPT ![t] = NoAgent]
  /\ Enter(t, "failed")
  /\ UNCHANGED <<ctx, queries>>

RetryOnceMore(t) == phase[t] = "failed" /\ attempt[t] <= MaxAttempts
RetryOnceRebuilt(t) == phase[t] = "failed" /\ attempt[t] < MaxAttempts /\ shared # NoAgent
MayRetry(t) == phase[t] = "failed" /\ attempt[t] < MaxAttempts

\* After 2s or 4s the loop calls get_agent again.
Retry(t) ==
  /\ MayRetry(t)
  /\ Enter(t, "lookup")
  /\ UNCHANGED <<shared, ctx, attempt, agent, failed, queries>>

\* The attempts are used up: the canned answer, not an exception.
Apologise(t) ==
  /\ phase[t] = "failed"
  /\ attempt[t] = MaxAttempts
  /\ failed' = [failed EXCEPT ![t] = {}]
  /\ Enter(t, "apologised")
  /\ UNCHANGED <<shared, ctx, attempt, agent, queries>>

Advance(t) ==
  \/ Lookup(t) \/ BuildShared(t) \/ BuildRestricted(t) \/ ReturnShared(t)
  \/ Answer(t) \/ Fail(t) \/ Retry(t) \/ Apologise(t)

Next == \E t \in Threads : (\E c \in Ctx : Start(t, c)) \/ Advance(t)

\* A pool thread runs its query to the end, provided that builds and invokes return or
\* raise: the code sets no timeout on the LLM or the ERP connection, so this is assumed
\* of them.
Fairness == \A t \in Threads : WF_vars(Advance(t))

Spec == Init /\ [][Next]_vars
FairSpec == Spec /\ Fairness

----------------------------------------------------------------------------
(* Properties.                                                             *)

\* Whatever other queries build, cache or reset meanwhile, a restricted query runs
\* on an agent built in its own scope by its own thread, and an unrestricted one
\* never on a restricted agent (core/agent/factory.py:123-138).
ScopeIsolation ==
  \A t \in Threads :
    phase[t] = "invoking" /\ agent[t] # NoAgent =>
      IF ctx[t] \in Persons
      THEN agent[t].ctx = ctx[t] /\ agent[t].by = t
      ELSE agent[t].ctx \notin Persons

\* "Reset the shared cached agent on failure so next attempt gets a fresh one"
\* (core/agent/runner.py:83): no attempt of a query runs on an agent that an
\* earlier attempt of it failed on, though other threads fill the cache as well.
RetryIsFresh ==
  \A t \in Threads : phase[t] = "invoking" => agent[t] \notin failed[t]

\* A restricted query's failure does not "needlessly discard a working shared
\* agent" (core/agent/runner.py:87): only a sharing query's step changes the cache.
OnlySharersTouchShared ==
  [][shared' # shared => \E t \in Threads : ctx[t] \notin Persons /\ phase'[t] # phase[t]]_vars

\* The retry loop comes to an end, however the other threads build and reset the shared
\* agent meanwhile (core/agent/runner.py:66): query returns an answer or the apology, or
\* what is outside its try raises.
EveryQueryEnds == \A t \in Threads : phase[t] = "lookup" ~> phase[t] \in Ended
============================================================================
