------------------------- MODULE SharedAgentProofs -------------------------
(* Proofs about SharedAgent for every number of threads, persons and queries. *)
EXTENDS SharedAgent, TLAPS

----------------------------------------------------------------------------
(* The inductive invariant.                                                  *)

\* a's builder is past the attempt it built a in: it cannot build a again.
Past(a) ==
  a.by \in Threads =>
    \/ a.query < queries[a.by]
    \/ /\ a.query = queries[a.by]
       /\ \/ a.attempt < attempt[a.by]
          \/ /\ a.attempt = attempt[a.by]
             /\ phase[a.by] \in {"returning", "invoking", "answered", "raised"}

SharedInv == shared # NoAgent => shared.ctx \notin Persons /\ Past(shared)

AgentInv ==
  \A t \in Threads :
    /\ phase[t] = "returning" => ctx[t] \notin Persons
    /\ agent[t] # NoAgent => phase[t] = "invoking" /\ Past(agent[t])

\* An agent that some running query failed on never comes back to the cache.
FailedInv == \A t \in Threads : \A a \in failed[t] : Past(a) /\ a # shared

\* A query that is still trying has an attempt left.
AttemptInv ==
  \A t \in Threads :
    phase[t] \in {"lookup", "building", "returning", "invoking"} => attempt[t] < MaxAttempts

IInv == /\ TypeOK /\ AttemptInv /\ SharedInv /\ AgentInv /\ FailedInv
        /\ ScopeIsolation /\ RetryIsFresh

----------------------------------------------------------------------------
LEMMA SharesIsUnrestricted == \A c \in Ctx : Shares(c) <=> c \notin Persons
BY ContextsAssumption DEF Ctx, Shares

LEMMA InitIInv == Init => IInv
<1> SUFFICES ASSUME Init PROVE IInv
  OBVIOUS
<1>1. [by |-> Main, query |-> 0, attempt |-> 0, ctx |-> NoCtx] \in Agent
  BY DEF Agent, Ctx
<1>2. TypeOK
  BY <1>1, NumbersAssumption DEF Init, TypeOK, Phases, Ctx
<1>3. SharedInv
  BY ContextsAssumption, ThreadsAssumption DEF Init, SharedInv, Past
<1> QED
  BY <1>2, <1>3 DEF Init, IInv, AttemptInv, AgentInv, FailedInv, ScopeIsolation, RetryIsFresh

LEMMA NewAgentIsTyped ==
  ASSUME TypeOK, NEW t \in Threads
  PROVE  NewAgent(t) \in Agent /\ NewAgent(t) # NoAgent
BY NoAgentAssumption, NumbersAssumption DEF NewAgent, Agent, TypeOK

LEMMA AttemptStep ==
  ASSUME TypeOK, AttemptInv, [Next]_vars
  PROVE  attempt' \in [Threads -> 0..MaxAttempts] /\ AttemptInv'
<1> USE NumbersAssumption DEF TypeOK, AttemptInv, Enter
<1>1. ASSUME NEW t \in Threads, NEW c \in Ctx, Start(t, c)
      PROVE  attempt' \in [Threads -> 0..MaxAttempts] /\ AttemptInv'
  <2>1. /\ attempt'[t] = 0 /\ attempt' \in [Threads -> 0..MaxAttempts]
        /\ \A u \in Threads \ {t} : phase'[u] = phase[u] /\ attempt'[u] = attempt[u]
    BY <1>1 DEF Start
  <2> QED
    BY <2>1
<1>2. ASSUME NEW t \in Threads, Fail(t)
      PROVE  attempt' \in [Threads -> 0..MaxAttempts] /\ AttemptInv'
  <2>1. attempt[t] \in 0..MaxAttempts /\ attempt[t] < MaxAttempts
    BY <1>2 DEF Fail
  <2>2. attempt[t] + 1 \in 0..MaxAttempts
    BY <2>1
  <2>3. /\ attempt' = [attempt EXCEPT ![t] = attempt[t] + 1] /\ phase'[t] = "failed"
        /\ \A u \in Threads \ {t} : phase'[u] = phase[u]
    BY <1>2 DEF Fail
  <2> QED
    BY <2>2, <2>3
<1>3. ASSUME NEW t \in Threads,
             \/ Lookup(t) \/ BuildShared(t) \/ BuildRestricted(t) \/ ReturnShared(t)
             \/ Answer(t) \/ Retry(t) \/ Apologise(t)
      PROVE  attempt' \in [Threads -> 0..MaxAttempts] /\ AttemptInv'
  <2>1. /\ attempt' = attempt
        /\ \A u \in Threads \ {t} : phase'[u] = phase[u]
        /\ phase'[t] \in {"lookup", "building", "returning", "invoking"} =>
             attempt[t] < MaxAttempts
    BY <1>3 DEF Lookup, BuildShared, BuildRestricted, ReturnShared, Answer, Retry, MayRetry,
       Apologise
  <2> QED
    BY <2>1
<1>4. CASE UNCHANGED vars
  BY <1>4 DEF vars
<1> QED
  BY <1>1, <1>2, <1>3, <1>4 DEF Next, Advance

LEMMA TypeStep == TypeOK /\ AttemptInv /\ [Next]_vars => TypeOK' /\ AttemptInv'
<1> SUFFICES ASSUME TypeOK, AttemptInv, [Next]_vars PROVE TypeOK'
  BY AttemptStep
<1>0. attempt' \in [Threads -> 0..MaxAttempts]
  BY AttemptStep
<1> USE NewAgentIsTyped DEF TypeOK, Enter, Phases
<1>1. ASSUME NEW t \in Threads, NEW c \in Ctx, Start(t, c) PROVE TypeOK'
  BY <1>0, <1>1 DEF Start
<1>2. ASSUME NEW t \in Threads, Lookup(t) \/ Retry(t) \/ Apologise(t) \/ Answer(t) PROVE TypeOK'
  BY <1>0, <1>2 DEF Lookup, Retry, Apologise, Answer
<1>3. ASSUME NEW t \in Threads, BuildShared(t) PROVE TypeOK'
  BY <1>0, <1>3 DEF BuildShared
<1>4. ASSUME NEW t \in Threads, BuildRestricted(t) PROVE TypeOK'
  BY <1>0, <1>4 DEF BuildRestricted
<1>5. ASSUME NEW t \in Threads, ReturnShared(t) PROVE TypeOK'
  BY <1>0, <1>5 DEF ReturnShared
<1>6. ASSUME NEW t \in Threads, Fail(t) PROVE TypeOK'
  <2>1. shared' \in Agent \cup {NoAgent}
    BY <1>0, <1>6 DEF Fail, ResetAfterFailure
  <2>2. failed' \in [Threads -> SUBSET Agent]
    BY <1>0, <1>6 DEF Fail
  <2> QED
    BY <1>0, <1>6, <2>1, <2>2 DEF Fail
<1>7. CASE UNCHANGED vars
  BY <1>0, <1>7 DEF vars
<1> QED
  BY <1>0, <1>1, <1>2, <1>3, <1>4, <1>5, <1>6, <1>7 DEF Next, Advance

\* What was built stays built: Past is stable, and the agent a thread builds
\* now is not Past, so it differs from every agent that exists.
LEMMA PastIsStable ==
  ASSUME IInv, [Next]_vars, NEW a \in Agent, Past(a)
  PROVE  Past(a)'
<1> SUFFICES ASSUME a.by \in Threads PROVE Past(a)'
  BY DEF Past
<1> DEFINE b == a.by
<1>1. /\ a.query \in Nat /\ a.attempt \in Nat
      /\ queries[b] \in Nat /\ attempt[b] \in Nat
  BY NumbersAssumption DEF Agent, IInv, TypeOK
<1>2. ASSUME NEW c \in Ctx, Start(b, c) PROVE Past(a)'
  <2>1. queries'[b] = queries[b] + 1
    BY <1>2 DEF Start, IInv, TypeOK
  <2> QED
    BY <1>1, <2>1 DEF Past
<1>3. CASE Fail(b)
  <2>1. queries'[b] = queries[b] /\ attempt'[b] = attempt[b] + 1
    BY <1>3 DEF Fail, IInv, TypeOK
  <2> QED
    BY <1>1, <2>1 DEF Past
<1>4. CASE Lookup(b) \/ BuildShared(b) \/ BuildRestricted(b) \/ ReturnShared(b) \/ Answer(b)
           \/ Retry(b) \/ Apologise(b)
  <2>1. UNCHANGED <<queries, attempt>>
    BY <1>4 DEF Lookup, BuildShared, BuildRestricted, ReturnShared, Answer, Retry, Apologise
  <2>2. phase[b] \in {"returning", "invoking", "answered", "raised"}
          => phase'[b] \in {"returning", "invoking", "answered", "raised"}
    <3>1. CASE ReturnShared(b) \/ Answer(b)
      BY <3>1 DEF ReturnShared, Answer, Enter, IInv, TypeOK
    <3>2. CASE ~(ReturnShared(b) \/ Answer(b))
      <4>1. phase[b] \in {"lookup", "building", "failed"}
        BY <1>4, <3>2 DEF Lookup, BuildShared, BuildRestricted, Retry, MayRetry, Apologise
      <4> QED
        BY <4>1
    <3> QED
      BY <3>1, <3>2
  <2> QED
    BY <2>1, <2>2 DEF Past
<1>5. ASSUME NEW t \in Threads, t # b, (\E c \in Ctx : Start(t, c)) \/ Advance(t)
      PROVE  Past(a)'
  <2>1. phase'[b] = phase[b]
    BY <1>5 DEF Start, Advance, Lookup, BuildShared, BuildRestricted, ReturnShared, Answer,
                Fail, Retry, Apologise, Enter, IInv, TypeOK
  <2>2. attempt'[b] = attempt[b]
    BY <1>5 DEF Start, Advance, Lookup, BuildShared, BuildRestricted, ReturnShared, Answer,
                Fail, Retry, Apologise, IInv, TypeOK
  <2>3. queries'[b] = queries[b]
    BY <1>5 DEF Start, Advance, Lookup, BuildShared, BuildRestricted, ReturnShared, Answer,
                Fail, Retry, Apologise, IInv, TypeOK
  <2> QED
    BY <2>1, <2>2, <2>3 DEF Past
<1>6. CASE UNCHANGED vars
  BY <1>6 DEF vars, Past
<1> QED
  BY <1>2, <1>3, <1>4, <1>5, <1>6 DEF Next, Advance

LEMMA NewAgentIsNew ==
  ASSUME IInv, NEW t \in Threads, phase[t] = "building"
  PROVE  ~Past(NewAgent(t))
BY DEF Past, NewAgent, IInv, TypeOK

\* One step per action; under it, what the step does to the cache and to t's agent.
LEMMA NextIInv == IInv /\ [Next]_vars => IInv'
<1> SUFFICES ASSUME IInv, [Next]_vars PROVE IInv'
  OBVIOUS
<1>1. TypeOK' /\ AttemptInv'
  BY TypeStep DEF IInv
<1>2. \A a \in Agent : Past(a) => Past(a)'
  BY PastIsStable
<1>3. ASSUME NEW t \in Threads, NEW c \in Ctx, Start(t, c) PROVE IInv'
  <2>1. /\ shared' = shared
        /\ phase'[t] \in {"lookup", "raised"} /\ agent'[t] = NoAgent /\ failed'[t] = {}
        /\ \A u \in Threads \ {t} : /\ phase'[u] = phase[u] /\ agent'[u] = agent[u]
                                    /\ failed'[u] = failed[u] /\ ctx'[u] = ctx[u]
    BY <1>3 DEF Start, Enter, IInv, TypeOK
  <2> QED
    BY <1>1, <1>2, <2>1 DEF IInv, TypeOK, SharedInv, AgentInv, FailedInv, ScopeIsolation, RetryIsFresh
<1>4. ASSUME NEW t \in Threads, Lookup(t) \/ Retry(t) \/ Apologise(t) PROVE IInv'
  <2>1. /\ shared' = shared /\ ctx' = ctx /\ agent' = agent
        /\ phase'[t] # "invoking" /\ phase[t] # "invoking"
        /\ phase'[t] = "returning" => Shares(ctx[t])
        /\ failed'[t] \subseteq failed[t]
        /\ \A u \in Threads \ {t} : phase'[u] = phase[u] /\ failed'[u] = failed[u]
    BY <1>4 DEF Lookup, Retry, MayRetry, Apologise, Enter, IInv, TypeOK
  <2>2. ctx[t] \in Ctx
    BY DEF IInv, TypeOK
  <2> QED
    BY <1>1, <1>2, <2>1, <2>2, SharesIsUnrestricted
       DEF IInv, TypeOK, SharedInv, AgentInv, FailedInv, ScopeIsolation, RetryIsFresh
<1>5. ASSUME NEW t \in Threads, BuildShared(t) PROVE IInv'
  <2>1. /\ shared' = NewAgent(t) /\ ctx' = ctx /\ agent' = agent /\ failed' = failed
        /\ phase[t] = "building" /\ phase'[t] = "returning" /\ Shares(ctx[t])
        /\ \A u \in Threads \ {t} : phase'[u] = phase[u]
    BY <1>5 DEF BuildShared, Enter, IInv, TypeOK
  <2>2. ctx[t] \notin Persons /\ NewAgent(t).ctx = ctx[t]
    BY <2>1, SharesIsUnrestricted DEF IInv, TypeOK, NewAgent
  <2>3. ~Past(NewAgent(t)) /\ NewAgent(t) \in Agent
    BY <2>1, NewAgentIsNew, NewAgentIsTyped DEF IInv
  <2>4. Past(NewAgent(t))' /\ NewAgent(t)' = NewAgent(t)
    <3>1. queries' = queries /\ attempt' = attempt
      BY <1>5 DEF BuildShared
    <3> QED
      BY <2>1, <3>1 DEF Past, NewAgent
  <2>5. SharedInv'
    <3>1. Past(shared)'
      BY <2>1, <2>4 DEF Past
    <3> QED
      BY <2>1, <2>2, <3>1 DEF SharedInv
  <2>6. AgentInv'
    BY <1>2, <2>1, <2>2 DEF IInv, TypeOK, AgentInv
  <2>7. FailedInv'
    <3>1. \A u \in Threads : failed[u] \subseteq Agent
      BY DEF IInv, TypeOK
    <3> QED
      BY <1>2, <2>1, <2>3, <3>1 DEF IInv, FailedInv
  <2>8. ScopeIsolation' /\ RetryIsFresh'
    BY <2>1 DEF IInv, ScopeIsolation, RetryIsFresh
  <2> QED
    BY <1>1, <2>5, <2>6, <2>7, <2>8 DEF IInv
<1>6. ASSUME NEW t \in Threads, BuildRestricted(t) PROVE IInv'
  <2>1. /\ shared' = shared /\ ctx' = ctx /\ failed' = failed
        /\ phase[t] = "building" /\ phase'[t] = "invoking" /\ ~Shares(ctx[t])
        /\ agent'[t] = NewAgent(t)
        /\ \A u \in Threads \ {t} : phase'[u] = phase[u] /\ agent'[u] = agent[u]
    BY <1>6 DEF BuildRestricted, Enter, IInv, TypeOK
  <2>2. ctx[t] \in Persons /\ NewAgent(t).ctx = ctx[t] /\ NewAgent(t).by = t
    BY <2>1, SharesIsUnrestricted DEF IInv, TypeOK, NewAgent
  <2>3. ~Past(NewAgent(t)) /\ NewAgent(t) \in Agent
    BY <2>1, NewAgentIsNew, NewAgentIsTyped DEF IInv
  <2>4. Past(NewAgent(t))' /\ NewAgent(t)' = NewAgent(t)
    <3>1. queries' = queries /\ attempt' = attempt
      BY <1>6 DEF BuildRestricted
    <3> QED
      BY <2>1, <3>1 DEF Past, NewAgent
  <2>5. SharedInv' /\ FailedInv'
    BY <1>2, <2>1 DEF IInv, TypeOK, SharedInv, FailedInv
  <2>6. AgentInv'
    <3>1. Past(agent[t])'
      BY <2>1, <2>4 DEF Past
    <3> QED
      BY <1>2, <2>1, <2>2, <3>1 DEF IInv, TypeOK, AgentInv
  <2>7. ScopeIsolation'
    BY <2>1, <2>2 DEF IInv, ScopeIsolation
  <2>8. RetryIsFresh'
    <3>1. NewAgent(t) \notin failed[t]
      BY <2>3 DEF IInv, FailedInv
    <3> QED
      BY <2>1, <3>1 DEF IInv, RetryIsFresh
  <2> QED
    BY <1>1, <2>5, <2>6, <2>7, <2>8 DEF IInv
<1>7. ASSUME NEW t \in Threads, ReturnShared(t) PROVE IInv'
  <2>1. /\ shared' = shared /\ ctx' = ctx /\ failed' = failed
        /\ phase[t] = "returning" /\ phase'[t] = "invoking"
        /\ agent'[t] = shared
        /\ \A u \in Threads \ {t} : phase'[u] = phase[u] /\ agent'[u] = agent[u]
    BY <1>7 DEF ReturnShared, Enter, IInv, TypeOK
  <2>2. ctx[t] \notin Persons
    BY <2>1 DEF IInv, AgentInv
  <2>3. shared \notin failed[t]
    BY DEF IInv, FailedInv
  <2>4. SharedInv' /\ FailedInv'
    BY <1>2, <2>1 DEF IInv, TypeOK, SharedInv, FailedInv
  <2>5. AgentInv'
    BY <1>2, <2>1 DEF IInv, TypeOK, AgentInv, SharedInv
  <2>6. ScopeIsolation' /\ RetryIsFresh'
    BY <2>1, <2>2, <2>3 DEF IInv, SharedInv, ScopeIsolation, RetryIsFresh
  <2> QED
    BY <1>1, <2>4, <2>5, <2>6 DEF IInv
<1>8. ASSUME NEW t \in Threads, Answer(t) PROVE IInv'
  <2>1. /\ shared' = shared /\ ctx' = ctx
        /\ phase'[t] \in {"answered", "raised"} /\ agent'[t] = NoAgent /\ failed'[t] = {}
        /\ \A u \in Threads \ {t} : /\ phase'[u] = phase[u] /\ agent'[u] = agent[u]
                                    /\ failed'[u] = failed[u]
    BY <1>8 DEF Answer, Enter, IInv, TypeOK
  <2> QED
    BY <1>1, <1>2, <2>1 DEF IInv, TypeOK, SharedInv, AgentInv, FailedInv, ScopeIsolation, RetryIsFresh
<1>9. ASSUME NEW t \in Threads, Fail(t) PROVE IInv'
  <2>1. /\ ctx' = ctx
        /\ phase'[t] = "failed" /\ agent'[t] = NoAgent
        /\ failed'[t] = failed[t] \cup ({agent[t]} \ {NoAgent})
        /\ \A u \in Threads \ {t} : /\ phase'[u] = phase[u] /\ agent'[u] = agent[u]
                                    /\ failed'[u] = failed[u]
    BY <1>9 DEF Fail, Enter, IInv, TypeOK
  <2>2. shared' = IF ctx[t] \in Persons THEN shared ELSE NoAgent
    BY <1>9, SharesIsUnrestricted DEF Fail, ResetAfterFailure, IInv, TypeOK
  <2>3. SharedInv'
    BY <1>2, <2>2 DEF IInv, TypeOK, SharedInv
  <2>4. AgentInv'
    BY <1>2, <2>1 DEF IInv, TypeOK, AgentInv
  <2>5. \A u \in Threads : \A a \in failed'[u] : a \in Agent /\ Past(a)
    BY <2>1 DEF IInv, TypeOK, FailedInv, AgentInv
  <2>6. \A u \in Threads : \A a \in failed'[u] : a # shared'
    <3>1. CASE ctx[t] \notin Persons
      BY <2>2, <2>5, <3>1, NoAgentAssumption
    <3>2. CASE ctx[t] \in Persons
      <4>1. agent[t] # NoAgent => agent[t] # shared
        BY <3>2 DEF IInv, ScopeIsolation, AgentInv, SharedInv
      <4> QED
        BY <2>1, <2>2, <3>2, <4>1 DEF IInv, FailedInv
    <3> QED
      BY <3>1, <3>2
  <2>7. FailedInv'
    BY <1>2, <2>5, <2>6 DEF FailedInv
  <2>8. ScopeIsolation' /\ RetryIsFresh'
    BY <2>1 DEF IInv, ScopeIsolation, RetryIsFresh
  <2> QED
    BY <1>1, <2>3, <2>4, <2>7, <2>8 DEF IInv
<1>10. CASE UNCHANGED vars
  BY <1>1, <1>10 DEF vars, IInv, SharedInv, AgentInv, FailedInv, Past, ScopeIsolation, RetryIsFresh
<1> QED
  BY <1>3, <1>4, <1>5, <1>6, <1>7, <1>8, <1>9, <1>10 DEF Next, Advance

----------------------------------------------------------------------------
(* The theorems.                                                             *)

THEOREM Invariance == Spec => []IInv
<1>1. Init => IInv
  BY InitIInv
<1>2. IInv /\ [Next]_vars => IInv'
  BY NextIInv
<1> QED
  BY <1>1, <1>2, PTL DEF Spec

\* The variables keep their types; no query uses more than MaxAttempts attempts.
THEOREM TypeCorrect == Spec => []TypeOK
BY Invariance, PTL DEF IInv

\* A restricted query always runs under its own scope and an unrestricted one
\* never under a restricted scope, whatever the other threads do to the cache.
THEOREM ScopesAreIsolated == Spec => []ScopeIsolation
BY Invariance, PTL DEF IInv

\* No attempt of a query runs on an agent that query has already failed on.
THEOREM RetriesAreFresh == Spec => []RetryIsFresh
BY Invariance, PTL DEF IInv

\* No step of a restricted query changes the shared agent.
THEOREM SharedAgentIsSpared == Spec => OnlySharersTouchShared
<1>1. IInv /\ [Next]_vars =>
        [shared' # shared => \E t \in Threads : ctx[t] \notin Persons /\ phase'[t] # phase[t]]_vars
  <2> SUFFICES ASSUME IInv, Next, shared' # shared
               PROVE  \E t \in Threads : ctx[t] \notin Persons /\ phase'[t] # phase[t]
    OBVIOUS
  <2>1. PICK t \in Threads : BuildShared(t) \/ Fail(t)
    BY DEF Next, Advance, Start, Lookup, BuildRestricted, ReturnShared, Answer, Retry, Apologise
  <2>2. Shares(ctx[t]) /\ phase'[t] # phase[t]
    BY <2>1 DEF BuildShared, Fail, ResetAfterFailure, Enter, IInv, TypeOK
  <2> QED
    BY <2>2, SharesIsUnrestricted DEF IInv, TypeOK
<1> QED
  BY <1>1, Invariance, PTL DEF Spec, OnlySharersTouchShared

----------------------------------------------------------------------------
(* The safety half of EveryQueryEnds: a query has a last step.               *)

PhasesLeft(ph) ==
  CASE ph = "failed" -> 5 [] ph = "lookup" -> 4 [] ph = "building" -> 3
    [] ph = "returning" -> 2 [] ph = "invoking" -> 1 [] OTHER -> 0
\* No more steps than these are left of t's query.
StepsLeft(t) == 6 * (MaxAttempts - attempt[t]) + PhasesLeft(phase[t])

LEMMA PhasesLeftIsNat == \A ph \in Phases : PhasesLeft(ph) \in Nat
BY DEF Phases, PhasesLeft

LEMMA Begun ==
  ASSUME TypeOK, NEW t \in Threads, NEW c \in Ctx, Start(t, c)
  PROVE  queries'[t] # queries[t] /\ \A u \in Threads : u # t => phase'[u] = phase[u]
BY DEF Start, Enter, TypeOK

LEMMA Advanced ==
  ASSUME IInv, NEW t \in Threads, Advance(t)
  PROVE  /\ StepsLeft(t)' < StepsLeft(t)
         /\ \A u \in Threads : u # t => phase'[u] = phase[u]
<1> USE DEF Enter
<1>1. /\ phase \in [Threads -> Phases] /\ attempt \in [Threads -> 0..MaxAttempts]
      /\ MaxAttempts \in Nat /\ attempt[t] \in Nat /\ attempt[t] <= MaxAttempts
  BY NumbersAssumption DEF IInv, TypeOK
<1>2. \A u \in Threads : u # t => phase'[u] = phase[u]
  BY <1>1 DEF Advance, Lookup, BuildShared, BuildRestricted, ReturnShared, Answer, Fail, Retry,
              MayRetry, Apologise
<1>3. CASE Fail(t)
  <2>1. attempt'[t] = attempt[t] + 1 /\ phase'[t] = "failed" /\ phase[t] \in {"building", "invoking"}
    BY <1>1, <1>3 DEF Fail
  <2>2. PhasesLeft(phase'[t]) = 5 /\ PhasesLeft(phase[t]) \in {1, 3}
    BY <2>1 DEF PhasesLeft
  <2> HIDE DEF Enter
  <2> QED
    BY <1>1, <1>2, <2>1, <2>2 DEF StepsLeft
<1>4. CASE ~Fail(t)
  <2>1. attempt' = attempt
    BY <1>4 DEF Advance, Lookup, BuildShared, BuildRestricted, ReturnShared, Answer, Retry, Apologise
  <2>2. PhasesLeft(phase'[t]) < PhasesLeft(phase[t]) /\ PhasesLeft(phase'[t]) \in Nat /\ PhasesLeft(phase[t]) \in Nat
    BY <1>1, <1>4 DEF Advance, Lookup, BuildShared, BuildRestricted, ReturnShared, Answer, Retry,
                      MayRetry, Apologise, PhasesLeft
  <2> QED
    BY <1>1, <1>2, <2>1, <2>2 DEF StepsLeft
<1> QED
  BY <1>3, <1>4

\* The retry loop of core/agent/runner.py cannot go round for ever, whatever the other
\* threads do to the shared agent: every step of a query leaves it fewer.
QueriesMoveOn ==
  [][\A t \in Threads : phase'[t] # phase[t] /\ queries'[t] = queries[t] =>
       StepsLeft(t)' >= 0 /\ StepsLeft(t)' < StepsLeft(t)]_vars

THEOREM RetriesRunOut == Spec => QueriesMoveOn
<1>1. IInv /\ IInv' /\ [Next]_vars =>
        [\A t \in Threads : phase'[t] # phase[t] /\ queries'[t] = queries[t] =>
           StepsLeft(t)' >= 0 /\ StepsLeft(t)' < StepsLeft(t)]_vars
  <2> SUFFICES ASSUME IInv, IInv', Next,
                      NEW t \in Threads, phase'[t] # phase[t], queries'[t] = queries[t]
               PROVE  StepsLeft(t)' >= 0 /\ StepsLeft(t)' < StepsLeft(t)
    OBVIOUS
  <2>1. PICK u \in Threads : (\E c \in Ctx : Start(u, c)) \/ Advance(u)
    BY DEF Next
  <2>2. Advance(t)
    BY <2>1, Begun, Advanced DEF IInv
  <2>3. StepsLeft(t)' < StepsLeft(t)
    BY <2>2, Advanced
  <2>4. phase'[t] \in Phases /\ attempt'[t] \in 0..MaxAttempts /\ MaxAttempts \in Nat
    BY NumbersAssumption DEF IInv, TypeOK
  <2>5. PhasesLeft(phase'[t]) \in Nat
    BY <2>4, PhasesLeftIsNat
  <2>6. StepsLeft(t)' >= 0
    BY <2>4, <2>5 DEF StepsLeft
  <2> QED
    BY <2>3, <2>6
<1> QED
  BY <1>1, Invariance, PTL DEF Spec, QueriesMoveOn
=============================================================================
