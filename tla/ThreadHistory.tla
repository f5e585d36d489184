---------------------------- MODULE ThreadHistory ----------------------------
(***************************************************************************)
(* Conversation continuity in one Slack thread: _bot_user_id and           *)
(* _fetch_thread_history (adapters/slack.py), called by the jobs of        *)
(* process_event.  People and bots write into the thread while jobs are    *)
(* queued, so a job reads a thread that is longer than the one its message *)
(* was written into, and the bot's answers appear in any order.  A message *)
(* is known by its position: a ts is unique and grows.                     *)
(***************************************************************************)
EXTENDS Naturals, Sequences, SequencesExt

CONSTANTS
  Users,        \* people in the channel; a DM has one of them
  Bot,          \* the bot's own user id
  OtherApp,     \* another app's bot
  NoOne,        \* no user id
  Words,        \* what people write
  Silence,      \* a text without words
  MaxTurns,     \* _HISTORY_MAX_TURNS
  PageSize,     \* limit = _HISTORY_MAX_TURNS + 5
  MaxMessages   \* bound of the model

ASSUME UsersAssumption ==
  /\ {Bot, OtherApp, NoOne} \cap Users = {}
  /\ Bot # OtherApp /\ Bot # NoOne /\ OtherApp # NoOne
ASSUME WordsAssumption == Silence \notin Words
ASSUME TurnsAssumption ==
  MaxTurns \in Nat \ {0} /\ PageSize \in Nat /\ PageSize > MaxTurns /\ MaxMessages \in Nat

VARIABLES
  owner,     \* the person of a DM (is_dm), NoOne for a channel
  thread,    \* the messages of the thread
  botId,     \* _bot_user_id_cache
  stage,     \* per message: its job, "none" if it has none
  known,     \* per message: what _bot_user_id returned to its job
  history    \* per message: the positions its job made turns of

threadVars == <<owner, thread, botId, stage, known, history>>

\* app: Slack sets bot_id; to: whom the bot answers (history).
Message == [from : Users \cup {Bot, OtherApp}, words : Words \cup {Silence},
            mention : BOOLEAN, app : BOOLEAN, to : Users \cup {NoOne}]

Stages == {"none", "queued", "naming", "named", "asking", "done"}
IsDm == owner # NoOne
Messages == 1..Len(thread)

ThreadTypeOK ==
  /\ owner \in Users \cup {NoOne}
  /\ thread \in Seq(Message)
  /\ botId \in {NoOne, Bot}
  /\ stage \in [Messages -> Stages]
  /\ known \in [Messages -> {NoOne, Bot}]
  /\ history \in [Messages -> Seq(Messages)]
  /\ \A j \in Messages : Len(history[j]) <= MaxTurns

ThreadInit ==
  /\ owner \in Users \cup {NoOne}
  /\ thread = <<>>
  /\ botId = NoOne
  /\ stage = <<>> /\ known = <<>> /\ history = <<>>

----------------------------------------------------------------------------
(* Messages arrive.                                                         *)

\* stages: where the jobs are by then, s: the stage of the new message's job.
Receive(m, stages, s) ==
  /\ Len(thread) < MaxMessages
  /\ thread' = Append(thread, m)
  /\ stage' = Append(stages, s)
  /\ known' = Append(known, NoOne)
  /\ history' = Append(history, <<>>)

\* A DM, or a message of a channel that mentions the bot, is an event; it has a
\* job unless nothing is left of its text without the mention.
Write(u, words, mention) ==
  /\ IsDm => u = owner
  /\ Receive([from |-> u, words |-> words, mention |-> mention, app |-> FALSE, to |-> NoOne],
             stage, IF (IsDm \/ mention) /\ words # Silence THEN "queued" ELSE "none")
  /\ UNCHANGED <<owner, botId>>

\* Another app writes: such events are dropped by the route.
OtherAppWrites ==
  /\ ~IsDm
  /\ \E w \in Words :
       Receive([from |-> OtherApp, words |-> w, mention |-> FALSE, app |-> TRUE, to |-> NoOne],
               stage, "none")
  /\ UNCHANGED <<owner, botId>>

----------------------------------------------------------------------------
(* A job of process_event.                                                  *)

Enter(j, s) == stage' = [stage EXCEPT ![j] = s]

\* _bot_user_id: a cached id, or auth_test.
CachedBotId(j) ==
  /\ stage[j] = "queued" /\ botId # NoOne
  /\ Enter(j, "named")
  /\ known' = [known EXCEPT ![j] = botId]
  /\ UNCHANGED <<owner, thread, botId, history>>

AskBotId(j) ==
  /\ stage[j] = "queued" /\ botId = NoOne
  /\ Enter(j, "naming")
  /\ UNCHANGED <<owner, thread, botId, known, history>>

\* Only a success is cached; a failure is None for this job alone.
AuthTest(j) ==
  /\ stage[j] = "naming"
  /\ Enter(j, "named")
  /\ \/ botId' = Bot /\ known' = [known EXCEPT ![j] = Bot]
     \/ UNCHANGED <<botId, known>>
  /\ UNCHANGED <<owner, thread, history>>

\* conversations_replies up to and with the current message: the most recent ones, of
\* which Slack may return fewer than asked for, and the message the thread began with,
\* which it may return before any page of the replies.
Page(j, n, parent) == {i \in Messages : i <= j /\ (i + n > j \/ i \in parent)}

IsCurrentByText(i, j) == thread[i].words = thread[j].words
IsCurrent(i, j) == i = j

HasText(m) == m.mention \/ m.words # Silence
IsBot(m, j) == m.app \/ (known[j] # NoOne /\ m.from = known[j])

KeptAfterOwn(i, j) ==
  IF IsBot(thread[i], j) THEN IsDm \/ (i > 1 /\ thread[i - 1].from = thread[j].from)
  ELSE thread[i].from = thread[j].from
\* Bot turns in a DM only, and nobody's but the requester's.
Kept(i, j) == IF IsBot(thread[i], j) THEN IsDm ELSE thread[i].from = thread[j].from

RecentAll(turns) == turns
Recent(turns) ==
  SubSeq(turns, IF Len(turns) > MaxTurns THEN Len(turns) - MaxTurns + 1 ELSE 1, Len(turns))

\* The loop over messages: the positions in S up to n, oldest first.
InOrder(S, n) ==
  LET Collect[m \in 0..n] ==
        IF m = 0 THEN <<>>
        ELSE IF m \in S THEN Append(Collect[m - 1], m) ELSE Collect[m - 1]
  IN Collect[n]

Turns(j, page) ==
  Recent(InOrder({i \in page : ~IsCurrent(i, j) /\ HasText(thread[i]) /\ Kept(i, j)}, j))

\* An error of the call gives an empty history.
FetchThreadHistory(j) ==
  /\ stage[j] = "named"
  /\ Enter(j, "asking")
  /\ \/ \E n \in 1..PageSize, parent \in SUBSET {1} :
          history' = [history EXCEPT ![j] = Turns(j, Page(j, n, parent))]
     \/ UNCHANGED history
  /\ UNCHANGED <<owner, thread, botId, known>>

\* The answer, an apology, or a refusal instead of the whole job; Slack shows them
\* with a bot_id or with the bot's user id.
Reply(j) ==
  /\ stage[j] \in {"queued", "asking"}
  /\ \E app \in BOOLEAN :
       Receive([from |-> Bot, words |-> thread[j].words, mention |-> FALSE, app |-> app,
                to |-> thread[j].from], [stage EXCEPT ![j] = "done"], "none")
  /\ UNCHANGED <<owner, botId>>

\* The post is refused, or raises.
ReplyIsLost(j) ==
  /\ stage[j] \in {"queued", "asking"}
  /\ Enter(j, "done")
  /\ UNCHANGED <<owner, thread, botId, known, history>>

Job(j) ==
  \/ CachedBotId(j) \/ AskBotId(j) \/ AuthTest(j)
  \/ FetchThreadHistory(j)
  \/ Reply(j) \/ ReplyIsLost(j)

ThreadNext ==
  \/ \E u \in Users, w \in Words \cup {Silence}, m \in BOOLEAN : Write(u, w, m)
  \/ OtherAppWrites
  \/ \E j \in Messages : Job(j)

ThreadSpec == ThreadInit /\ [][ThreadNext]_threadVars

----------------------------------------------------------------------------
(* Properties.                                                              *)

\* No turn of a history is somebody else's message or an answer that was given to
\* somebody else, in whose scope it was computed: answers are posted asynchronously
\* and may stand right after the requester's message (adapters/slack.py:207-213).
NoForeignAnswer ==
  \A j \in Messages : \A k \in DOMAIN history[j] :
    LET m == thread[history[j][k]]
    IN m.from = thread[j].from \/ (m.from = Bot /\ m.to = thread[j].from)

\* The history is the end of the conversation as it stood when the message was
\* written: the requester's turns, oldest first, an earlier question with the same
\* words included, with the bot's recognised turns in a DM and whatever other people
\* and later messages put into the thread before the job ran (adapters/slack.py:201-205).
\* Where Slack cuts the page, the message the thread began with may stand before that end.
Conversation(j) ==
  InOrder({i \in 1..(j - 1) : HasText(thread[i]) /\
             \/ thread[i].from = thread[j].from
             \/ IsDm /\ thread[i].from = Bot /\ (thread[i].app \/ known[j] = Bot)}, j)
EndOf(turns, conversation) ==
  \/ IsSuffix(turns, conversation)
  \/ turns # <<>> /\ Head(turns) = 1 /\ IsSuffix(Tail(turns), conversation)
AsItStood == \A j \in Messages : EndOf(history[j], Conversation(j))
=============================================================================
