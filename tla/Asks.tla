-------------------------------- MODULE Asks --------------------------------
(***************************************************************************)
(* The ask_user tool of one thread: the question that is posted to Slack   *)
(* (model/tools/ask-user.ts), the registry of pending asks                 *)
(* (runtime/asks.ts), and what may settle one: a click                     *)
(* (slack/interactive.ts), a text reply in the thread (handler.ts), the    *)
(* timeout and the /stop of the turn.                                      *)
(*                                                                         *)
(* Calls of one turn may overlap.  Clicks and replies are requests of      *)
(* their own: one may reach the tenant before chat.postMessage has         *)
(* returned, or long after the ask is over.  kind "select" is handled as   *)
(* "buttons".                                                              *)
(***************************************************************************)
EXTENDS Naturals, Sequences

CONSTANTS
  Call,        \* invocations of ask_user
  TurnOf,      \* TurnOf[c]: the turn that makes call c, turns being 1, 2, ...
  KindOf,      \* KindOf[c]: "buttons", "multi_select" or "text"
  Option,      \* what can be chosen
  Reply,       \* messages in the thread that do not mention the bot
  NoAsk,
  MaxClicks    \* bound: clicks of the user

ASSUME AskAssumption ==
  /\ TurnOf \in [Call -> Nat \ {0}]
  /\ KindOf \in [Call -> {"buttons", "multi_select", "text"}]
  /\ Option \cap Reply = {} /\ NoAsk \notin Call
  /\ MaxClicks \in Nat

VARIABLES
  turn,      \* the turn that is running
  aborted,   \* turns whose signal has fired
  pc,        \* what each call is doing
  shown,     \* calls whose message is in the thread, with its controls
  byTs,      \* byMessageTs: the calls registered under their message
  byThread,  \* byThreadKey: the call registered for the thread, or NoAsk
  selected,  \* multiSelected of each call
  answer,    \* how each call was settled
  wire,      \* clicks that the tenant has not handled
  clicks,    \* the number of clicks made
  replied,   \* replies that the tenant has handled
  log        \* replies that are in messages.jsonl

calls == <<pc, answer, byTs, byThread>>
user == <<wire, clicks, replied, log>>
vars == <<turn, aborted, shown, selected, calls, user>>

Open == [how |-> "none", of |-> {}, what |-> {}]
Cancelled == [how |-> "cancelled", of |-> {}, what |-> {}]
TimedOut == [how |-> "timeout", of |-> {}, what |-> {}]
Clicked(c, s) == [how |-> "click", of |-> {c}, what |-> s]
Typed(x) == [how |-> "text", of |-> {}, what |-> {x}]

Init ==
  /\ turn = 1 /\ aborted = {}
  /\ pc = [c \in Call |-> "new"]
  /\ shown = {} /\ byTs = {} /\ byThread = NoAsk
  /\ selected = [c \in Call |-> {}]
  /\ answer = [c \in Call |-> Open]
  /\ wire = <<>> /\ clicks = 0 /\ replied = {} /\ log = {}

-----------------------------------------------------------------------------
\* Slip: cleanup forgets the entry of the thread.
SettleByTs(c, a) ==
  IF pc[c] = "waiting"
  THEN /\ byTs' = byTs \ {c}
       /\ answer' = [answer EXCEPT ![c] = a]
       /\ pc' = [pc EXCEPT ![c] = "returned"]
       /\ UNCHANGED byThread
  ELSE UNCHANGED calls

\* settle: only the first one counts; cleanup takes both entries.
Settle(c, a) ==
  IF pc[c] = "waiting"
  THEN /\ byTs' = byTs \ {c} /\ byThread' = NoAsk
       /\ answer' = [answer EXCEPT ![c] = a]
       /\ pc' = [pc EXCEPT ![c] = "returned"]
  ELSE UNCHANGED calls

-----------------------------------------------------------------------------
(* The tool.                                                               *)

Goto(c, l) == pc' = [pc EXCEPT ![c] = l]

\* The model calls the tool, which awaits postBlocksInThread.
Asks(c) ==
  /\ pc[c] = "new" /\ TurnOf[c] = turn /\ turn \notin aborted
  /\ Goto(c, "posting")
  /\ UNCHANGED <<turn, aborted, shown, selected, answer, byTs, byThread, user>>

\* The message appears before the tool learns its timestamp.
SlackShows(c) ==
  /\ pc[c] = "posting" /\ c \notin shown
  /\ shown' = shown \cup {c}
  /\ UNCHANGED <<turn, aborted, selected, calls, user>>

PostFails(c) ==
  /\ pc[c] = "posting"
  /\ Goto(c, "threw")
  /\ UNCHANGED <<turn, aborted, shown, selected, answer, byTs, byThread, user>>

\* Slip: no AskInUseError.
RegistersAnyway(c) ==
  /\ pc[c] = "posting" /\ c \in shown
  /\ Goto(c, "waiting")
  /\ byTs' = byTs \cup {c} /\ byThread' = c
  /\ UNCHANGED <<turn, aborted, shown, selected, answer, user>>

\* registerAsk, and the abort listener: a signal that has fired before is not
\* looked at.  An ask that is pending in the thread makes the tool throw, and
\* leaves a message nobody answers to.
Registers(c) ==
  /\ pc[c] = "posting" /\ c \in shown
  /\ \/ /\ byThread = NoAsk
        /\ Goto(c, "waiting")
        /\ byTs' = byTs \cup {c} /\ byThread' = c
     \/ /\ byThread # NoAsk
        /\ Goto(c, "threw")
        /\ UNCHANGED <<byTs, byThread>>
  /\ UNCHANGED <<turn, aborted, shown, selected, answer, user>>

\* Slip: a question for a text reply waits for as long as it takes.
TimeoutUnlessText(c) ==
  /\ pc[c] = "waiting" /\ KindOf[c] # "text"
  /\ Settle(c, TimedOut)
  /\ UNCHANGED <<turn, aborted, shown, selected, user>>

Timeout(c) ==
  /\ pc[c] = "waiting"
  /\ Settle(c, TimedOut)
  /\ UNCHANGED <<turn, aborted, shown, selected, user>>

-----------------------------------------------------------------------------
(* The turns.                                                              *)

\* /stop: the listener of a call that waits rejects its ask.
Abort ==
  /\ turn \notin aborted
  /\ aborted' = aborted \cup {turn}
  /\ LET mine == {c \in byTs : TurnOf[c] = turn}
     IN  \/ mine = {} /\ UNCHANGED calls
         \/ \E c \in mine : Settle(c, Cancelled)
  /\ UNCHANGED <<turn, shown, selected, user>>

\* A turn ends when its calls have returned, or when it is aborted: then the
\* calls that are still under way go on by themselves.
NextTurn ==
  /\ \E c \in Call : TurnOf[c] > turn
  /\ \/ turn \in aborted
     \/ \A c \in Call : TurnOf[c] = turn => pc[c] \notin {"posting", "waiting"}
  /\ turn' = turn + 1
  /\ UNCHANGED <<aborted, shown, selected, calls, user>>

-----------------------------------------------------------------------------
(* The user.                                                               *)

\* What the controls of a message can send.
Send(c, a, s) == [ts |-> c, action |-> a, value |-> s]
Controls(c) ==
  CASE KindOf[c] = "buttons" -> {Send(c, "button", {o}) : o \in Option}
    [] KindOf[c] = "multi_select" -> {Send(c, "submit", {}), Send(c, "cancel", {})}
                                     \cup {Send(c, "multi", s) : s \in SUBSET Option}
    [] KindOf[c] = "text" -> {Send(c, "cancel", {})}

\* The controls stay in the thread after the ask is over.
Click(c) ==
  /\ c \in shown /\ clicks < MaxClicks
  /\ \E k \in Controls(c) : wire' = Append(wire, k)
  /\ clicks' = clicks + 1
  /\ UNCHANGED <<turn, aborted, shown, selected, calls, replied, log>>

\* dispatch, for the ask it is given.
Dispatch(ask, k) ==
  \/ /\ k.action = "button" /\ Settle(ask, Clicked(k.ts, k.value))
     /\ UNCHANGED selected
  \/ /\ k.action = "multi"
     /\ selected' = [selected EXCEPT ![ask] = k.value]
     /\ UNCHANGED calls
  \/ /\ k.action = "submit" /\ Settle(ask, Clicked(k.ts, selected[ask]))
     /\ UNCHANGED selected
  \/ /\ k.action = "cancel" /\ Settle(ask, Cancelled)
     /\ UNCHANGED selected

\* Slip: the ask is looked up by thread.
ClickArrivesInThread(i) ==
  LET k == wire[i] IN
  /\ wire' = SubSeq(wire, 1, i - 1) \o SubSeq(wire, i + 1, Len(wire))
  /\ \/ byThread # NoAsk /\ Dispatch(byThread, k)
     \/ byThread = NoAsk /\ UNCHANGED <<selected, calls>>
  /\ UNCHANGED <<turn, aborted, shown, clicks, replied, log>>

\* handleInteractivePayload: a click on a message with no pending ask is stale.
\* Clicks are requests of their own and arrive in any order.
ClickArrives(i) ==
  LET k == wire[i] IN
  /\ wire' = SubSeq(wire, 1, i - 1) \o SubSeq(wire, i + 1, Len(wire))
  /\ \/ k.ts \in byTs /\ Dispatch(k.ts, k)
     \/ k.ts \notin byTs /\ UNCHANGED <<selected, calls>>
  /\ UNCHANGED <<turn, aborted, shown, clicks, replied, log>>

\* handleMessage: a reply is the answer of the pending ask, or it is recorded.
ReplyArrives(x) ==
  /\ x \notin replied
  /\ replied' = replied \cup {x}
  /\ \/ byThread # NoAsk /\ Settle(byThread, Typed(x)) /\ UNCHANGED log
     \/ byThread = NoAsk /\ log' = log \cup {x} /\ UNCHANGED calls
  /\ UNCHANGED <<turn, aborted, shown, selected, wire, clicks>>

-----------------------------------------------------------------------------
CallStep(c) == SlackShows(c) \/ Registers(c) \/ Timeout(c)

Next ==
  \/ \E c \in Call : Asks(c) \/ PostFails(c) \/ CallStep(c) \/ Click(c)
  \/ \E i \in DOMAIN wire : ClickArrives(i)
  \/ \E x \in Reply : ReplyArrives(x)
  \/ Abort \/ NextTurn

SafeSpec == Init /\ [][Next]_vars

\* Slack answers, and timers fire.  The user need not do anything.
Spec == SafeSpec /\ \A c \in Call : WF_vars(CallStep(c))

-----------------------------------------------------------------------------
\* asks.ts: at most one ask is pending in the thread, and both registries and
\* the tool agree on which, so that a text reply means the same question as the
\* timeout, the click and the abort.
RegistryAgrees ==
  /\ byTs = {c \in Call : pc[c] = "waiting"}
  /\ byTs = IF byThread = NoAsk THEN {} ELSE {byThread}

\* A reply that the tenant has taken is in the history or is the answer of one
\* call; none is swallowed by an ask that is over.
ReplyKept ==
  \A x \in replied :
    \/ x \in log
    \/ \E c \in Call : answer[c] = Typed(x)

\* A click answers the question it was made on, however late it arrives.
OwnAnswer == \A c \in Call : answer[c].how = "click" => answer[c].of = {c}

\* Every call returns, without the user doing anything and whichever signal has
\* been missed.
EveryAskReturns ==
  \A c \in Call : pc[c] = "posting" ~> pc[c] \in {"returned", "threw"}
=============================================================================
