--------------------------- MODULE SlackDelivery ---------------------------
(***************************************************************************)
(* The Slack webhook: from a signed Events API request to a job on the     *)
(* agent pool.  Several web worker processes serve POST /webhook/slack     *)
(* (api/routes/slack.py) and share one slack_seen_events table             *)
(* (adapters/slack.py, core/rbac/models.py); each process has its own      *)
(* agent_executor (core/executor.py).  Slack may sign an event again (a    *)
(* retry) and any signed request may reach any process, more than once and *)
(* late (a replay).                                                        *)
(*                                                                         *)
(* After the awaited request body, the route runs without yielding, so a   *)
(* process has one request between verification and acknowledgement; the   *)
(* processes interleave.                                                   *)
(***************************************************************************)
EXTENDS Integers, Sequences, FiniteSets

CONSTANTS
  Events,        \* event_ids of Slack's event_callback payloads (never empty)
  Ignored,       \* those the route drops: bot messages, other types, no user or text
  Procs,         \* web worker processes
  PoolSize,      \* AGENT_EXECUTION_CONCURRENCY
  Ttl,           \* _SEEN_EVENT_TTL_SECONDS
  Window,        \* the replay window of verify_signature
  Skew,          \* how far Slack's clock may run ahead of the servers'
  RetrySpan,     \* how long after the first signature Slack signs retries
  MaxTime,       \* bound of the model: the last instant
  MaxCrashes     \* bound of the model: how many process crashes

ASSUME SetsAssumption == Ignored \subseteq Events
ASSUME NumbersAssumption ==
  /\ PoolSize \in Nat \ {0}
  /\ {Ttl, Window, Skew, RetrySpan, MaxTime, MaxCrashes} \subseteq Nat

VARIABLES
  clock,       \* the servers' clock (time.time(), datetime.now(UTC))
  firstTs,     \* Slack: timestamp of each event's first signed request
  sent,        \* the signed requests that exist; each may arrive any number of times
  handler,     \* the request each process is serving
  serving,     \* FALSE between a process's SIGTERM and its restart
  seen,        \* slack_seen_events: event_id -> seen_at
  queue,       \* agent_executor's queue of jobs, per process
  running,     \* the jobs its threads run
  sights,      \* history: the commits that inserted each event's row, in order
  dispatched,  \* history: for which of them the event was submitted to a pool
  processed,   \* jobs whose process_event ended
  lost,        \* jobs a crash took with it
  failed,      \* jobs never submitted: the route raised behind the insert
  crashes

slackVars == <<firstTs, sent>>
poolVars == <<queue, running, processed>>
vars == <<clock, firstTs, sent, handler, serving, seen, queue, running, sights,
          dispatched, processed, lost, failed, crashes>>

NotSent == -1   \* firstTs of an event Slack has not signed yet
NoRow == -1     \* seen of an event without a row

\* A first sight: the seen_at it wrote and the time of its COMMIT.
Sight == [stamp : Nat, at : Nat]
\* The n-th first sight of an event is worth one run of the agent.
Jobs == Events \X (Nat \ {0})

Idle == [phase |-> "idle"]
Request == [event : Events, ts : Nat]
Serving == [phase : {"verified", "stamped", "recorded"}, event : Events,
            stamp : Nat, sight : Nat]

TypeOK ==
  /\ clock \in Nat
  /\ firstTs \in [Events -> Nat \cup {NotSent}]
  /\ sent \subseteq Request
  /\ handler \in [Procs -> Serving \cup {Idle}]
  /\ serving \in [Procs -> BOOLEAN]
  /\ seen \in [Events -> Nat \cup {NoRow}]
  /\ queue \in [Procs -> Seq(Jobs)]
  /\ running \in [Procs -> SUBSET Jobs]
  /\ sights \in [Events -> Seq(Sight)]
  /\ dispatched \in [Events -> Seq(Nat)]
  /\ processed \cup lost \cup failed \subseteq Jobs
  /\ crashes \in Nat

Init ==
  /\ clock = 0
  /\ firstTs = [e \in Events |-> NotSent]
  /\ sent = {}
  /\ handler = [p \in Procs |-> Idle]
  /\ serving = [p \in Procs |-> TRUE]
  /\ seen = [e \in Events |-> NoRow]
  /\ queue = [p \in Procs |-> <<>>]
  /\ running = [p \in Procs |-> {}]
  /\ sights = [e \in Events |-> <<>>]
  /\ dispatched = [e \in Events |-> <<>>]
  /\ processed = {} /\ lost = {} /\ failed = {}
  /\ crashes = 0

----------------------------------------------------------------------------
(* Slack and time.                                                         *)

FirstDelivery(e) ==
  /\ firstTs[e] = NotSent
  /\ \E ahead \in 0..Skew :
       /\ firstTs' = [firstTs EXCEPT ![e] = clock + ahead]
       /\ sent' = sent \cup {[event |-> e, ts |-> clock + ahead]}
  /\ UNCHANGED <<clock, handler, serving, seen, sights, dispatched, lost, failed, crashes,
                 poolVars>>

\* The same event_id under a fresh timestamp.
Retry(e) ==
  /\ firstTs[e] # NotSent
  /\ \E ahead \in 0..Skew :
       /\ clock + ahead \in firstTs[e]..(firstTs[e] + RetrySpan)
       /\ sent' = sent \cup {[event |-> e, ts |-> clock + ahead]}
  /\ UNCHANGED <<clock, firstTs, handler, serving, seen, sights, dispatched, lost, failed,
                 crashes, poolVars>>

\* Nothing bounds the time a handler takes: it may pass between any two steps.
Tick ==
  /\ clock < MaxTime
  /\ clock' = clock + 1
  /\ UNCHANGED <<slackVars, handler, serving, seen, sights, dispatched, lost, failed,
                 crashes, poolVars>>

----------------------------------------------------------------------------
(* The webhook handler.                                                    *)

\* verify_signature's window: reject when |time - ts| > 300.
Fresh(ts) == clock - ts \in (-Window)..Window

\* A request outside the window gets a 403 and changes nothing.
Accept(p) ==
  /\ serving[p]
  /\ handler[p] = Idle
  /\ \E r \in sent :
       /\ Fresh(r.ts)
       /\ handler' = [handler EXCEPT ![p] =
            [phase |-> "verified", event |-> r.event, stamp |-> 0, sight |-> 0]]
  /\ UNCHANGED <<clock, slackVars, serving, seen, sights, dispatched, lost, failed, crashes,
                 poolVars>>

StampCutoff(p) ==
  /\ handler[p].phase = "verified"
  /\ handler' = [handler EXCEPT ![p].phase = "stamped", ![p].stamp = clock - Ttl]
  /\ UNCHANGED <<clock, slackVars, serving, seen, sights, dispatched, lost, failed, crashes,
                 poolVars>>

\* already_processed reads the clock before it has a session.
Stamp(p) ==
  /\ handler[p].phase = "verified"
  /\ handler' = [handler EXCEPT ![p].phase = "stamped", ![p].stamp = clock]
  /\ UNCHANGED <<clock, slackVars, serving, seen, sights, dispatched, lost, failed, crashes,
                 poolVars>>

ExpiredInclusive(stamp) == {e \in Events : seen[e] # NoRow /\ seen[e] <= stamp - Ttl}
ExpiredNever(stamp) == {}
\* The rows the opportunistic DELETE removes: seen_at < now - TTL, strictly.
Expired(stamp) == {e \in Events : seen[e] # NoRow /\ seen[e] < stamp - Ttl}

\* DELETE, INSERT and COMMIT are one transaction, which takes place: h's event
\* had no row, or an expired one.
Insert(h) ==
  LET gone == Expired(h.stamp)
  IN /\ h.phase = "stamped"
     /\ seen[h.event] = NoRow \/ h.event \in gone
     /\ seen' = [e \in Events |-> IF e = h.event THEN h.stamp
                                  ELSE IF e \in gone THEN NoRow ELSE seen[e]]
     /\ sights' = [sights EXCEPT ![h.event] = Append(@, [stamp |-> h.stamp, at |-> clock])]

\* Two transactions that insert the same key are serialised by the primary key: the
\* second waits for the first and then fails, which is AckDuplicate after RecordFirstSight.
RecordFirstSight(p) ==
  /\ Insert(handler[p])
  /\ handler' = [handler EXCEPT ![p].phase = "recorded",
                                ![p].sight = Len(sights[handler[p].event]) + 1]
  /\ UNCHANGED <<clock, slackVars, serving, dispatched, lost, failed, crashes, poolVars>>

\* The COMMIT takes place but its acknowledgement does not arrive: a 500 to Slack,
\* and a row that makes every redelivery a duplicate.
CommitUnacknowledged(p) ==
  LET e == handler[p].event
  IN /\ Insert(handler[p])
     /\ failed' = failed \cup {<<e, Len(sights[e]) + 1>>}
     /\ handler' = [handler EXCEPT ![p] = Idle]
     /\ UNCHANGED <<clock, slackVars, serving, dispatched, lost, crashes, poolVars>>

\* IntegrityError: the rollback brings the deleted rows back too; acknowledged with 200.
AckDuplicate(p) ==
  /\ handler[p].phase = "stamped"
  /\ seen[handler[p].event] # NoRow
  /\ handler[p].event \notin Expired(handler[p].stamp)
  /\ handler' = [handler EXCEPT ![p] = Idle]
  /\ UNCHANGED <<clock, slackVars, serving, seen, sights, dispatched, lost, failed, crashes,
                 poolVars>>

\* Any other database error before the COMMIT takes place: a 500 and nothing recorded.
TransactionFails(p) ==
  /\ handler[p].phase = "stamped"
  /\ handler' = [handler EXCEPT ![p] = Idle]
  /\ UNCHANGED <<clock, slackVars, serving, seen, sights, dispatched, lost, failed, crashes,
                 poolVars>>

\* The first sight that p's handler has recorded and not dealt with yet.
Held(p) ==
  IF handler[p].phase = "recorded" /\ handler[p].event \notin Ignored
  THEN {<<handler[p].event, handler[p].sight>>} ELSE {}

\* A first sight of an event the route drops is acknowledged.
AckIgnored(p) ==
  /\ handler[p].phase = "recorded"
  /\ handler[p].event \in Ignored
  /\ handler' = [handler EXCEPT ![p] = Idle]
  /\ UNCHANGED <<clock, slackVars, serving, seen, sights, dispatched, lost, failed, crashes,
                 poolVars>>

\* The route raises behind the insert, on a null text or event: a 500 and no job.
RouteRaises(p) ==
  /\ handler[p].phase = "recorded"
  /\ failed' = failed \cup Held(p)
  /\ handler' = [handler EXCEPT ![p] = Idle]
  /\ UNCHANGED <<clock, slackVars, serving, seen, sights, dispatched, lost, crashes, poolVars>>

Dispatch(p) ==
  LET h == handler[p]
  IN /\ h.phase = "recorded"
     /\ h.event \notin Ignored
     /\ queue' = [queue EXCEPT ![p] = Append(@, <<h.event, h.sight>>)]
     /\ dispatched' = [dispatched EXCEPT ![h.event] = Append(@, h.sight)]
     /\ handler' = [handler EXCEPT ![p] = Idle]
     /\ UNCHANGED <<clock, slackVars, serving, seen, running, sights, processed, lost, failed,
                    crashes>>

----------------------------------------------------------------------------
(* agent_executor: a FIFO queue and PoolSize threads in each process.      *)

StartJob(p) ==
  /\ queue[p] # <<>>
  /\ Cardinality(running[p]) < PoolSize
  /\ running' = [running EXCEPT ![p] = @ \cup {Head(queue[p])}]
  /\ queue' = [queue EXCEPT ![p] = Tail(@)]
  /\ UNCHANGED <<clock, slackVars, handler, serving, seen, sights, dispatched, processed,
                 lost, failed, crashes>>

\* process_event returns or raises (RequestPath models it): both free its thread.
FinishJob(p, j) ==
  /\ j \in running[p]
  /\ running' = [running EXCEPT ![p] = @ \ {j}]
  /\ processed' = processed \cup {j}
  /\ UNCHANGED <<clock, slackVars, handler, serving, seen, queue, sights, dispatched,
                 lost, failed, crashes>>

----------------------------------------------------------------------------
(* Process life cycle.                                                     *)

\* SIGTERM: no new requests; the lifespan then waits for the pool.
Shutdown(p) ==
  /\ serving[p]
  /\ serving' = [serving EXCEPT ![p] = FALSE]
  /\ UNCHANGED <<clock, slackVars, handler, seen, sights, dispatched, lost, failed, crashes,
                 poolVars>>

DrainedAtOnce(p) == handler[p] = Idle
\* agent_executor.shutdown(wait=True) returns once every submitted job has run.
Drained(p) == handler[p] = Idle /\ queue[p] = <<>> /\ running[p] = {}

\* A new process starts with an empty pool.
Restart(p) ==
  /\ ~serving[p]
  /\ Drained(p)
  /\ serving' = [serving EXCEPT ![p] = TRUE]
  /\ queue' = [queue EXCEPT ![p] = <<>>]
  /\ running' = [running EXCEPT ![p] = {}]
  /\ UNCHANGED <<clock, slackVars, handler, seen, sights, dispatched, processed, lost, failed,
                 crashes>>

\* What process p alone knows of: the jobs of its pool and one not yet submitted.
InMemory(p) == {queue[p][i] : i \in 1..Len(queue[p])} \cup running[p] \cup Held(p)

\* A killed process forgets its handler and its pool; the table survives, so
\* a later redelivery of what was lost is a duplicate.
Crash(p) ==
  /\ crashes < MaxCrashes
  /\ crashes' = crashes + 1
  /\ lost' = lost \cup InMemory(p)
  /\ handler' = [handler EXCEPT ![p] = Idle]
  /\ serving' = [serving EXCEPT ![p] = TRUE]
  /\ queue' = [queue EXCEPT ![p] = <<>>]
  /\ running' = [running EXCEPT ![p] = {}]
  /\ UNCHANGED <<clock, slackVars, seen, sights, dispatched, processed, failed>>

----------------------------------------------------------------------------
Next ==
  \/ Tick
  \/ \E e \in Events : FirstDelivery(e) \/ Retry(e)
  \/ \E p \in Procs :
       \/ Accept(p) \/ Stamp(p)
       \/ RecordFirstSight(p) \/ CommitUnacknowledged(p)
       \/ AckDuplicate(p) \/ TransactionFails(p)
       \/ AckIgnored(p) \/ RouteRaises(p) \/ Dispatch(p)
       \/ StartJob(p)
       \/ \E j \in running[p] : FinishJob(p, j)
       \/ Shutdown(p) \/ Restart(p) \/ Crash(p)

Spec == Init /\ [][Next]_vars

----------------------------------------------------------------------------
(* Properties.                                                             *)

\* However often an event is signed again or replayed, through whichever processes and
\* however late: two first sights of it are more than a TTL apart, from the seen_at of
\* the earlier to the COMMIT of the later ("True if this Slack event_id was seen within
\* the TTL", adapters/slack.py:56), and each is submitted to an agent pool at most once.
OncePerTtl ==
  \A e \in Events :
    /\ \A i, j \in 1..Len(sights[e]) :
         i < j => sights[e][j].at > sights[e][i].stamp + Ttl
    /\ \A i, j \in 1..Len(dispatched[e]) : dispatched[e][i] = dispatched[e][j] => i = j
    /\ \A i \in 1..Len(dispatched[e]) : dispatched[e][i] \in 1..Len(sights[e])

\* Opportunistic cleanup keeps the table within one TTL (adapters/slack.py:68): two rows
\* are further apart only if the older stamp came from a handler so slow that it
\* committed after the newer one.
TableBounded ==
  \A d, e \in Events :
    /\ seen[d] # NoRow /\ seen[e] # NoRow
    /\ seen[d] - seen[e] > Ttl
    => sights[e][Len(sights[e])].at >= sights[d][Len(sights[d])].at

\* The first sights of events that are to be answered.
Owed == UNION {{e} \X (1..Len(sights[e])) : e \in Events \ Ignored}

\* A row makes every redelivery of its event a duplicate, so nothing but the memory of a
\* process can bring the first sight to process_event: the job of each has been there, or
\* is in the memory of one process, unless a crash took it, the route raised behind the
\* insert or the acknowledgement of the COMMIT was lost (api/routes/slack.py:57-92).
NothingDropped ==
  /\ Owed \subseteq processed \cup lost \cup failed \cup UNION {InMemory(p) : p \in Procs}
  /\ \A p \in Procs : InMemory(p) \cap (processed \cup lost \cup failed) = {}
  /\ \A p, q \in Procs : p # q => InMemory(p) \cap InMemory(q) = {}
============================================================================
