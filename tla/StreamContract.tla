--------------------------- MODULE StreamContract ---------------------------
(* What POST /query promises a client that reads its stream: "an immediate     *)
(* `status` event, periodic `: heartbeat` comments while the agent runs, then  *)
(* exactly one of `answer` or `error`" (api/routes/query.py:74-76).            *)
EXTENDS Sequences

CONSTANT Streams

VARIABLES
  events,   \* what each stream has carried
  left      \* the clients that hung up

contractVars == <<events, left>>

Ends == {"answer", "error"}
Ended(es) == es # <<>> /\ es[Len(es)] \in Ends
\* What a stream may carry next.
Following(es) ==
  IF es = <<>> THEN {"status"} ELSE IF Ended(es) THEN {} ELSE {"heartbeat"} \cup Ends

ContractInit ==
  /\ events = [s \in Streams |-> <<>>]
  /\ left = {}

Carry(s) ==
  /\ s \notin left
  /\ \E e \in Following(events[s]) : events' = [events EXCEPT ![s] = Append(@, e)]
  /\ UNCHANGED left

HangUp(s) ==
  /\ ~Ended(events[s])
  /\ left' = left \cup {s}
  /\ UNCHANGED events

ContractNext == \E s \in Streams : Carry(s) \/ HangUp(s)

ContractSpec == ContractInit /\ [][ContractNext]_contractVars
=============================================================================
