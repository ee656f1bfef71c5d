---------------------------- MODULE Conversation ----------------------------
(***************************************************************************)
(* What the turns of a thread are about: Session composed with the         *)
(* thread's messages.jsonl (persistence/events.ts, store.ts), the prompt   *)
(* that runSdkTurn collects from it (sdk-turn.ts), and /delete             *)
(* (handler.ts).                                                           *)
(*                                                                         *)
(* A message says something, carries files alone, or is neither: a bare    *)
(* "@agenta", whose text is '' once slack/events.ts has stripped the       *)
(* mention.  A message with text and files counts as one with text.        *)
(*                                                                         *)
(* The log holds the mentions and the non-mention messages, each as        *)
(* itself, and Reply for anything a turn records (assistant text, tool     *)
(* calls and results all have source 'assistant').  /stop and /delete are  *)
(* recorded as well, but collectUserTurn passes over commands and nothing  *)
(* else here reads them, so the log leaves them out.                       *)
(* No status write rejects here, and the process lives.                    *)
(***************************************************************************)
EXTENDS Session, FiniteSets, SequencesExt

CONSTANTS
  Plain,        \* messages of the thread that do not mention the bot
  Delete,       \* "@agenta /delete" messages
  Reply,        \* an event recorded by a turn
  MaxReplies,   \* bound: events one turn records
  Contents      \* what the messages may carry, functions into Kind

Message == Mention \cup Plain
Kind == {"text", "files", "bare"}

ASSUME ConversationAssumption ==
  /\ Reply \notin Mention \cup Stop \cup Plain \cup Delete
  /\ (Plain \cup Delete) \cap Task = {} /\ Plain \cap Delete = {}
  /\ MaxReplies \in Nat
  /\ Contents \subseteq [Message -> Kind]

VARIABLES
  log,       \* messages.jsonl; <<>> when the thread directory is absent
  phase,     \* the running turn: "setup" until the prompt is collected
  replies,   \* events the running turn has recorded
  given,     \* given[x]: the number of turns whose prompt contained message x
  dpc,       \* control of the handlers of Plain and Delete
  says       \* what each message carries, fixed when it is written

convo == <<log, phase, replies, given, dpc, says>>
cvars == <<vars, convo>>

Text == {x \in Message : says[x] = "text"}
Content == {x \in Message : says[x] # "bare"}   \* text or files

ConvInit ==
  /\ Init
  /\ log = <<>> /\ phase = "none" /\ replies = 0
  /\ says \in Contents
  /\ given = [x \in Message |-> 0]
  /\ dpc = [d \in Delete \cup Plain |-> "new"]

-----------------------------------------------------------------------------
LastReply(l) ==
  LET at == {i \in DOMAIN l : l[i] = Reply}
  IN  IF at = {} THEN 0 ELSE CHOOSE i \in at : \A j \in at : j <= i

\* Slip: no fallback to an older message.
CollectTrailing(l) == {l[i] : i \in LastReply(l) + 1 .. Len(l)} \cap Content

\* collectUserTurn: the user messages with text or files after the last assistant
\* event; if there are none, the very last one with text; if there is none, the
\* placeholder "(no user message)", here the empty set.
CollectUserTurn(l) ==
  LET trailing == CollectTrailing(l)
      users == {i \in DOMAIN l : l[i] \in Text}
  IN  IF trailing # {} THEN trailing
      ELSE {l[i] : i \in {j \in users : \A k \in users : k <= j}}

\* record: one line appended (the directory is made again if it is gone).
Record(x) == log' = Append(log, x)

-----------------------------------------------------------------------------
\* A mention is in the log before its handler commits to a turn.
ConvMentioned(m) ==
  /\ Mentioned(m)
  /\ Record(m)
  /\ UNCHANGED <<phase, replies, given, dpc, says>>

ConvBeginTurn(m) ==
  /\ BeginTurn(m)
  /\ phase' = "setup" /\ replies' = 0
  /\ UNCHANGED <<log, given, dpc, says>>

\* runSdkTurn reads the log some awaits after the turn has begun.
Collect(m) ==
  /\ pc[m] = "turn" /\ phase = "setup"
  /\ phase' = "live"
  /\ given' = [x \in Message |->
                 given[x] + (IF x \in CollectUserTurn(log) THEN 1 ELSE 0)]
  /\ UNCHANGED <<vars, log, replies, dpc, says>>

\* onAssistantText, onToolCall, onToolResult.
TurnRecords(m) ==
  /\ pc[m] = "turn" /\ phase = "live" /\ replies < MaxReplies
  /\ replies' = replies + 1
  /\ Record(Reply)
  /\ UNCHANGED <<vars, phase, given, dpc, says>>

\* A turn ends by itself once it is live; it throws before or after.
ConvEndTurn(m) ==
  /\ \/ phase = "live" /\ (NextTurn(m) \/ FinishLoop(m))
     \/ TurnThrows(m)
  /\ phase' = "none"
  /\ UNCHANGED <<log, replies, given, dpc, says>>

ConvOther(m) ==
  /\ QueueMention(m) \/ StartLoop(m) \/ ClearRecord(m) \/ LeaveLoop(m)
       \/ Unwind(m) \/ KickoffThrows(m)
  /\ UNCHANGED convo

ConvStop(s) ==
  /\ StopAccepted(s) \/ StopIdle(s) \/ StopStep(s)
  /\ UNCHANGED convo

\* A message without a mention is recorded and triggers nothing.
PlainArrives(p) ==
  /\ dpc[p] = "new"
  /\ dpc' = [dpc EXCEPT ![p] = "done"]
  /\ Record(p)
  /\ UNCHANGED <<vars, phase, replies, given, says>>

\* /delete posts, tears the tunnel down, drops the SDK session ...
DeleteArrives(d) ==
  /\ dpc[d] = "new"
  /\ dpc' = [dpc EXCEPT ![d] = "tearing"]
  /\ UNCHANGED <<vars, log, phase, replies, given, says>>

\* ... and removes the thread directory, log and session.json, outside the lock
\* of the session record.  Nothing here touches the in-memory session.
DeleteRemoves(d) ==
  /\ dpc[d] = "tearing"
  /\ dpc' = [dpc EXCEPT ![d] = "done"]
  /\ log' = <<>>
  /\ disk' = "idle"
  /\ UNCHANGED <<memory, turns, fired, lockq, pc, threw, target, up, phase,
                 replies, given, says>>

ConvNext ==
  \/ \E m \in Mention : ConvMentioned(m) \/ ConvBeginTurn(m) \/ Collect(m)
                        \/ TurnRecords(m) \/ ConvEndTurn(m) \/ ConvOther(m)
  \/ \E s \in Stop : ConvStop(s)
  \/ \E p \in Plain : PlainArrives(p)
  \/ \E d \in Delete : DeleteArrives(d) \/ DeleteRemoves(d)

ConvSafeSpec == ConvInit /\ [][ConvNext]_cvars

\* As in Session; a turn collects its prompt and ends.
ConvSpec ==
  /\ ConvSafeSpec
  /\ \A m \in Mention : WF_cvars(ConvBeginTurn(m) \/ Collect(m)
                                 \/ ConvEndTurn(m) \/ ConvOther(m))
  /\ \A s \in Stop : WF_cvars(StopStep(s) /\ UNCHANGED convo)
  /\ \A d \in Delete : WF_cvars(DeleteRemoves(d))

-----------------------------------------------------------------------------
Before(x, y) == \E i, j \in DOMAIN log : i < j /\ log[i] = x /\ log[j] = y

Arrived(x) == IF x \in Mention THEN pc[x] # "new" ELSE dpc[x] = "done"

\* A turn is started with the "(no user message)" placeholder only in a thread where
\* nobody has written any text yet, or whose log a /delete took away.  Once somebody
\* has, every turn has a prompt, a bare mention's too: collectUserTurn falls back to
\* the last message with text, however many turns have recorded behind it.
PromptNotEmpty ==
  \A m \in Mention : pc[m] = "turn" /\ phase = "setup" =>
    \/ CollectUserTurn(log) # {}
    \/ \E d \in Delete : dpc[d] = "done"
    \/ \A x \in Text : ~Arrived(x)

\* Every mention with text or files is given to a turn in the end, unless a later
\* message with content overtook it, a /delete took it out of the log, a /stop was
\* accepted, its kickoff or the turn it waited for threw, or it has files alone and
\* the turn it waited for recorded something behind it: the fallback of
\* collectUserTurn looks for text only.
Excused(m) ==
  \/ m \notin Range(log) \/ \E x \in Content : Before(m, x)
  \/ m \notin Text /\ Before(m, Reply)
  \/ \E s \in Stop : target[s] # {}
  \/ pc[m] = "failed" \/ threw # {}
MentionAnswered ==
  \A m \in Mention : pc[m] = "resolving" /\ m \in Content ~> given[m] > 0 \/ Excused(m)

\* session.ts: the turn after the current one "picks up everything queued".
EveryMentionGiven ==
  (\A m \in Mention : Settled(m)) =>
    \A m \in Mention \cap Content : pc[m] = "done" => given[m] > 0
=============================================================================
