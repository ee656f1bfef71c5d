----------------------------- MODULE AsksProofs -----------------------------
(***************************************************************************)
(* Proofs about Asks.tla for any number of calls, turns, options, replies  *)
(* and clicks.                                                             *)
(***************************************************************************)
EXTENDS Asks, TLAPS

Control == {"new", "posting", "waiting", "returned", "threw"}

\* The parts of the state the proofs need a type for.
Shape ==
  /\ pc \in [Call -> Control]
  /\ byTs \subseteq Call
  /\ byThread \in Call \cup {NoAsk}
  /\ answer = [c \in Call |-> answer[c]]

\* An answer is given when the call returns, and not before: nothing is
\* overwritten by a second settlement.
AnswerInv == \A c \in Call : pc[c] # "returned" => answer[c] = Open

Inv == Shape /\ RegistryAgrees /\ AnswerInv /\ OwnAnswer /\ ReplyKept

\* What the steps that only move a call keep.
CallsInv == Shape /\ RegistryAgrees /\ AnswerInv /\ OwnAnswer

-----------------------------------------------------------------------------
\* settle keeps the registry and the earlier answers, and gives c its answer.
LEMMA SettleKeeps ==
  ASSUME AskAssumption, CallsInv, NEW c \in Call, NEW a,
         a.how = "click" => a.of = {c}, Settle(c, a)
  PROVE  /\ CallsInv'
         /\ \A d \in Call : answer[d] # Open => answer'[d] = answer[d]
         /\ pc[c] = "waiting" => answer'[c] = a
<1>1. CASE pc[c] = "waiting"
  <2>1. /\ byTs' = {} /\ byThread' = NoAsk
        /\ answer' = [answer EXCEPT ![c] = a]
        /\ pc' = [pc EXCEPT ![c] = "returned"]
        /\ \A d \in Call : pc[d] = "waiting" => d = c
    BY <1>1 DEF Settle, CallsInv, RegistryAgrees, AskAssumption, Shape
  <2>2. Shape'
    BY <2>1 DEF CallsInv, Shape, Control
  <2>3. RegistryAgrees'
    BY <2>1 DEF CallsInv, Shape, Control, RegistryAgrees
  <2>4. AnswerInv'
    BY <2>1 DEF CallsInv, Shape, AnswerInv, Control
  <2>5. OwnAnswer'
    BY <2>1 DEF CallsInv, Shape, OwnAnswer
  <2>6. \A d \in Call : answer[d] # Open => answer'[d] = answer[d]
    BY <1>1, <2>1 DEF CallsInv, Shape, AnswerInv
  <2>7. answer'[c] = a
    BY <2>1 DEF CallsInv, Shape
  <2> QED
    BY <2>2, <2>3, <2>4, <2>5, <2>6, <2>7 DEF CallsInv
<1>2. CASE pc[c] # "waiting"
  BY <1>2 DEF Settle, calls, CallsInv, Shape, RegistryAgrees, AnswerInv, OwnAnswer
<1> QED
  BY <1>1, <1>2

\* So does a call that moves without being settled.
LEMMA MoveKeeps ==
  ASSUME AskAssumption, CallsInv, UNCHANGED answer, NEW c \in Call,
         \/ Asks(c) \/ PostFails(c) \/ Registers(c)
  PROVE  CallsInv'
<1>1. Shape'
  BY DEF CallsInv, Shape, Control, Asks, PostFails, Registers, Goto
<1>2. RegistryAgrees'
  BY DEF CallsInv, Shape, Control, RegistryAgrees, AskAssumption, Asks,
         PostFails, Registers, Goto
<1>3. AnswerInv' /\ OwnAnswer'
  BY DEF CallsInv, Shape, AnswerInv, OwnAnswer, Asks, PostFails, Registers, Goto
<1> QED
  BY <1>1, <1>2, <1>3 DEF CallsInv

\* A step that keeps the earlier answers and handles no reply keeps the replies.
LEMMA RepliesKept ==
  ASSUME ReplyKept, UNCHANGED <<replied, log>>,
         \A d \in Call : answer[d] # Open => answer'[d] = answer[d]
  PROVE  ReplyKept'
<1> SUFFICES ASSUME NEW x \in replied, x \notin log
             PROVE  \E c \in Call : answer'[c] = Typed(x)
  BY DEF ReplyKept
<1>1. PICK c \in Call : answer[c] = Typed(x)
  BY DEF ReplyKept
<1>2. Typed(x).how = "text" /\ Open.how = "none"
  BY DEF Typed, Open
<1>3. Typed(x) # Open
  BY <1>2
<1> QED
  BY <1>1, <1>3

LEMMA InitHolds == Init => Inv
<1> SUFFICES ASSUME Init PROVE Inv
  OBVIOUS
<1>1. \A c \in Call : pc[c] = "new" /\ answer[c] = Open
  BY DEF Init
<1>2. Shape
  BY DEF Init, Shape, Control
<1>3. RegistryAgrees
  BY <1>1 DEF Init, RegistryAgrees
<1>4. AnswerInv /\ OwnAnswer
  BY <1>1 DEF AnswerInv, OwnAnswer, Open
<1>5. ReplyKept
  BY DEF Init, ReplyKept
<1> QED
  BY <1>2, <1>3, <1>4, <1>5 DEF Inv

-----------------------------------------------------------------------------
LEMMA InvStep == ASSUME Inv, [Next]_vars PROVE Inv'
<1> USE AskAssumption
<1>0. CallsInv /\ ReplyKept
  BY DEF Inv, CallsInv
<1>1. ASSUME NEW c \in Call, Asks(c) \/ PostFails(c) \/ Registers(c) PROVE Inv'
  <2>1. UNCHANGED <<answer, replied, log>>
    BY <1>1 DEF Asks, PostFails, Registers, user
  <2>2. CallsInv'
    BY <1>0, <1>1, <2>1, MoveKeeps
  <2>3. ReplyKept'
    BY <1>0, <2>1, RepliesKept
  <2> QED
    BY <2>2, <2>3 DEF Inv, CallsInv
<1>2. ASSUME NEW c \in Call, SlackShows(c) \/ Click(c) PROVE Inv'
  BY <1>2 DEF SlackShows, Click, calls, user, Inv, Shape, RegistryAgrees,
              AnswerInv, OwnAnswer, ReplyKept
<1>3. ASSUME NEW c \in Call, Timeout(c) PROVE Inv'
  <2>1. Settle(c, TimedOut) /\ UNCHANGED <<replied, log>>
    BY <1>3 DEF Timeout, user
  <2>2. TimedOut.how # "click"
    BY DEF TimedOut
  <2>3. CallsInv' /\ \A d \in Call : answer[d] # Open => answer'[d] = answer[d]
    BY <1>0, <2>1, <2>2, SettleKeeps
  <2> QED
    BY <1>0, <2>1, <2>3, RepliesKept DEF Inv, CallsInv
<1>4. ASSUME NEW i \in DOMAIN wire, ClickArrives(i) PROVE Inv'
  <2> DEFINE k == wire[i]
  <2>1. UNCHANGED <<replied, log>>
    BY <1>4 DEF ClickArrives
  <2>2. CASE UNCHANGED calls
    BY <1>0, <2>1, <2>2 DEF calls, Inv, CallsInv, Shape, RegistryAgrees,
                            AnswerInv, OwnAnswer, ReplyKept
  <2>3. CASE k.ts \in byTs /\ Dispatch(k.ts, k)
    <3>1. k.ts \in Call
      BY <1>0, <2>3 DEF CallsInv, Shape
    <3>2. \/ UNCHANGED calls
          \/ Settle(k.ts, Clicked(k.ts, k.value))
          \/ Settle(k.ts, Clicked(k.ts, selected[k.ts]))
          \/ Settle(k.ts, Cancelled)
      BY <2>3 DEF Dispatch
    <3>3. /\ Cancelled.how # "click"
          /\ \A s : Clicked(k.ts, s).of = {k.ts}
      BY DEF Cancelled, Clicked
    <3>4. ASSUME ~ UNCHANGED calls
          PROVE  CallsInv' /\ \A d \in Call : answer[d] # Open => answer'[d] = answer[d]
      BY <1>0, <3>1, <3>2, <3>3, <3>4, SettleKeeps
    <3> QED
      BY <1>0, <2>1, <2>2, <3>4, RepliesKept DEF Inv, CallsInv
  <2> QED
    BY <1>4, <2>2, <2>3 DEF ClickArrives, calls
<1>5. ASSUME NEW x \in Reply, ReplyArrives(x) PROVE Inv'
  <2>1. CASE byThread = NoAsk
    <3>1. UNCHANGED calls /\ replied' = replied \cup {x} /\ log' = log \cup {x}
      BY <1>5, <2>1 DEF ReplyArrives
    <3> QED
      BY <1>0, <3>1 DEF calls, Inv, CallsInv, Shape, RegistryAgrees, AnswerInv,
                        OwnAnswer, ReplyKept
  <2>2. CASE byThread # NoAsk
    <3>1. /\ Settle(byThread, Typed(x))
          /\ replied' = replied \cup {x} /\ log' = log
      BY <1>5, <2>2 DEF ReplyArrives
    <3>2. byThread \in Call /\ pc[byThread] = "waiting"
      BY <1>0, <2>2 DEF CallsInv, Shape, RegistryAgrees
    <3>3. Typed(x).how = "text" /\ Open.how = "none"
      BY DEF Typed, Open
    <3>4. /\ CallsInv'
          /\ \A d \in Call : answer[d] # Open => answer'[d] = answer[d]
          /\ answer'[byThread] = Typed(x)
      BY <1>0, <3>1, <3>2, <3>3, SettleKeeps
    <3>5. ASSUME NEW y \in replied', y \notin log'
          PROVE  \E c \in Call : answer'[c] = Typed(y)
      <4>1. CASE y = x
        BY <3>2, <3>4, <4>1
      <4>2. CASE y # x
        <5>1. PICK c \in Call : answer[c] = Typed(y)
          BY <1>0, <3>1, <3>5, <4>2 DEF ReplyKept
        <5>2. Typed(y).how = "text"
          BY DEF Typed
        <5> QED
          BY <3>3, <3>4, <5>1, <5>2
      <4> QED
        BY <4>1, <4>2
    <3>6. ReplyKept'
      BY <3>5 DEF ReplyKept
    <3> QED
      BY <3>4, <3>6 DEF Inv, CallsInv
  <2> QED
    BY <2>1, <2>2
<1>6. ASSUME Abort PROVE Inv'
  <2>1. UNCHANGED <<replied, log>>
    BY <1>6 DEF Abort, user
  <2>2. UNCHANGED calls \/ \E c \in byTs : Settle(c, Cancelled)
    BY <1>6 DEF Abort
  <2>3. CASE UNCHANGED calls
    BY <1>0, <2>1, <2>3 DEF calls, Inv, CallsInv, Shape, RegistryAgrees,
                            AnswerInv, OwnAnswer, ReplyKept
  <2>4. ASSUME NEW c \in byTs, Settle(c, Cancelled) PROVE Inv'
    <3>1. c \in Call /\ Cancelled.how # "click"
      BY <1>0 DEF CallsInv, Shape, Cancelled
    <3>2. CallsInv' /\ \A d \in Call : answer[d] # Open => answer'[d] = answer[d]
      BY <1>0, <2>4, <3>1, SettleKeeps
    <3> QED
      BY <1>0, <2>1, <3>2, RepliesKept DEF Inv, CallsInv
  <2> QED
    BY <2>2, <2>3, <2>4
<1>7. ASSUME NextTurn \/ UNCHANGED vars PROVE Inv'
  BY <1>7 DEF NextTurn, vars, calls, user, Inv, Shape, RegistryAgrees,
              AnswerInv, OwnAnswer, ReplyKept
<1> QED
  BY <1>1, <1>2, <1>3, <1>4, <1>5, <1>6, <1>7 DEF Next, CallStep

THEOREM InvAlways == SafeSpec => []Inv
  BY InitHolds, InvStep, PTL DEF SafeSpec

\* At any time at most one ask is pending in the thread, the one both registries
\* name, whichever clicks, replies, timers and signals race for it.
THEOREM OnePendingAsk == SafeSpec => []RegistryAgrees
<1>1. Inv => RegistryAgrees
  BY DEF Inv
<1> QED
  BY <1>1, InvAlways, PTL

\* A click settles the question it was made on and no other.
THEOREM ClicksAnswerTheirAsk == SafeSpec => []OwnAnswer
<1>1. Inv => OwnAnswer
  BY DEF Inv
<1> QED
  BY <1>1, InvAlways, PTL

\* No reply of the user is lost between the registry and the history.
THEOREM RepliesAreKept == SafeSpec => []ReplyKept
<1>1. Inv => ReplyKept
  BY DEF Inv
<1> QED
  BY <1>1, InvAlways, PTL
=============================================================================
