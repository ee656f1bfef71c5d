------------------------------ MODULE Session ------------------------------
(***************************************************************************)
(* The turn scheduler of one Slack thread: src/tenant/runtime/session.ts,  *)
(* the handler steps that drive it (handler.ts), the per-thread write lock *)
(* it persists through (session-store.ts) and boot recovery (recovery.ts). *)
(*                                                                         *)
(* Every Slack event is handled by its own async call; calls of the same   *)
(* thread interleave at each await.  pc[t] is the await the handler t is   *)
(* suspended at, and an action is the synchronous code up to the next one. *)
(*                                                                         *)
(* session.json is reduced to its status; an absent file counts as idle,   *)
(* as it does for recovery.  SessionRecord.tla has the other fields.       *)
(***************************************************************************)
EXTENDS Naturals, Sequences

CONSTANTS
  Mention,   \* plain "@agenta ..." messages that reach handleMessage
  Stop,      \* "@agenta /stop" messages
  Faults     \* which failures may happen, a subset of FaultKinds

\* "kickoff": resolveSystemPromptAndModel throws (no model configured, ...).
\* "turn":    runSdkTurn throws before its own try block.
\* "write":   writeFile or rename fails, which writeSession swallows.
\* "mkdir":   ensureThreadDir throws, which rejects the updateSession call.
\* "crash":   the tenant process dies.
FaultKinds == {"kickoff", "turn", "write", "mkdir", "crash"}

ASSUME SessionAssumption ==
  /\ Mention \cap Stop = {}
  /\ Faults \subseteq FaultKinds

Task == Mention \cup Stop

VARIABLES
  status,    \* Session.status
  abort,     \* Session.abort: the n-th AbortController, 0 for undefined
  pending,   \* Session.pending
  thinking,  \* Session.thinking: mentions whose reaction is to be removed
  turns,     \* AbortControllers created so far
  fired,     \* controllers on which abort() was called
  lockq,     \* updateSession calls chained on the thread's lock, head running
  disk,      \* the status in session.json
  pc,        \* the await each handler is suspended at
  threw,     \* loop owners whose runSdkTurn (or status write) threw
  target,    \* history: the loop owner a /stop found when it was accepted
  up         \* the tenant has finished recovery and accepts events

memory == <<status, abort, pending, thinking>>
vars == <<status, abort, pending, thinking, turns, fired, lockq, disk, pc,
          threw, target, up>>

Status == {"idle", "running", "stopping"}
Control == {"new", "resolving", "starting", "turn", "restarting", "cleaning",
            "closing", "unwinding", "stopWriting", "posting", "done",
            "failed", "lost"}
Write == [by : Task, status : Status]

FlagsType == pending \in BOOLEAN /\ up \in BOOLEAN
MemoryType == /\ status \in Status
              /\ abort \in Nat /\ turns \in Nat /\ fired \subseteq Nat
              /\ thinking \subseteq Mention
StoreType == lockq \in Seq(Write) /\ disk \in Status
ControlType == /\ pc \in [Task -> Control]
               /\ threw \subseteq Mention
               /\ target \in [Stop -> SUBSET Mention]

TypeOK == FlagsType /\ MemoryType /\ StoreType /\ ControlType

Init ==
  /\ status = "idle" /\ abort = 0 /\ pending = FALSE /\ thinking = {}
  /\ turns = 0 /\ fired = {}
  /\ lockq = <<>> /\ disk = "idle"
  /\ pc = [t \in Task |-> "new"]
  /\ threw = {}
  /\ target = [s \in Stop |-> {}]
  /\ up = TRUE

-----------------------------------------------------------------------------
Goto(t, l) == pc' = [pc EXCEPT ![t] = l]

\* A handler is inside startOrQueue's while loop, or entering it.
InLoop(m) == pc[m] \in {"starting", "turn", "restarting"}
Owners == {m \in Mention : InLoop(m)}

\* updateSession: chain a read-modify-write on the thread's lock and await it.
Enqueue(t, st) == lockq' = Append(lockq, [by |-> t, status |-> st])

\* Slip: the writes are not chained, so they finish in any order.
WrittenUnchained(t, st) ==
  \E i \in DOMAIN lockq :
    /\ lockq[i] = [by |-> t, status |-> st]
    /\ lockq' = SubSeq(lockq, 1, i - 1) \o SubSeq(lockq, i + 1, Len(lockq))
    /\ disk' = st

\* The head of the chain finishes and its caller resumes: the caller's
\* continuation is a microtask, the next write needs I/O, so no other write
\* comes in between.  A swallowed write error leaves the file as it was.
Written(t, st) ==
  /\ lockq # <<>>
  /\ Head(lockq) = [by |-> t, status |-> st]
  /\ lockq' = Tail(lockq)
  /\ \/ disk' = st
     \/ "write" \in Faults /\ UNCHANGED disk

\* Slip: prev.then(fn) instead of prev.then(fn, fn), a rejection wedges the chain.
WriteRejectedWedges(t) ==
  /\ "mkdir" \in Faults
  /\ lockq # <<>> /\ Head(lockq).by = t
  /\ UNCHANGED <<lockq, disk>>

\* The head of the chain rejects instead.
WriteRejected(t) ==
  /\ "mkdir" \in Faults
  /\ lockq # <<>>
  /\ Head(lockq).by = t
  /\ lockq' = Tail(lockq)
  /\ UNCHANGED disk

\* startOrQueue's finally: the flags are reset, and clearThinking detaches the
\* list, before the first await.
GoIdle ==
  /\ status' = "idle" /\ abort' = 0 /\ pending' = FALSE /\ thinking' = {}

-----------------------------------------------------------------------------
(* Slips: each differs from the definition it is named after in one way,   *)
(* and breaks one of the properties below (see PROJECT.json).              *)

StartLoopUnlessRunning(m) ==          \* checks for 'running' only
  /\ pc[m] = "resolving" /\ status # "running"
  /\ status' = "running" /\ pending' = FALSE
  /\ Enqueue(m, "running")
  /\ Goto(m, "starting")
  /\ UNCHANGED <<abort, thinking, turns, fired, disk, threw, target, up>>

NextTurnKeepsStatus(m) ==             \* does not flip 'stopping' back
  /\ pc[m] = "turn" /\ pending
  /\ pending' = FALSE
  /\ Enqueue(m, "running")
  /\ Goto(m, "restarting")
  /\ UNCHANGED <<status, abort, thinking, turns, fired, disk, threw, target, up>>

FinishLoopWhenStopping(m) ==          \* leaves the loop once stopping
  /\ pc[m] = "turn" /\ (~pending \/ status = "stopping")
  /\ GoIdle
  /\ Goto(m, "cleaning")
  /\ UNCHANGED <<turns, fired, lockq, disk, threw, target, up>>

TurnThrowsUncaught(m) ==              \* no finally around the loop
  /\ "turn" \in Faults
  /\ pc[m] = "turn"
  /\ thinking' = {}
  /\ Goto(m, "unwinding")
  /\ UNCHANGED <<status, abort, pending, turns, fired, lockq, disk, threw,
                 target, up>>

KickoffThrowsUncleared(m) ==          \* no catch in the handler
  /\ "kickoff" \in Faults
  /\ pc[m] = "resolving"
  /\ Goto(m, "unwinding")
  /\ UNCHANGED <<memory, turns, fired, lockq, disk, threw, target, up>>

-----------------------------------------------------------------------------
(* Mentions.                                                               *)

\* handleMessage commits to a turn: markThinking, then kickoffTurn awaits the
\* frozen home, the model and the prompt.
Mentioned(m) ==
  /\ up /\ pc[m] = "new"
  /\ thinking' = thinking \cup {m}
  /\ Goto(m, "resolving")
  /\ UNCHANGED <<status, abort, pending, turns, fired, lockq, disk, threw,
                 target, up>>

\* kickoffTurn throws: the handler's catch calls clearThinking, which takes
\* the reactions of every mention of the thread.
KickoffThrows(m) ==
  /\ "kickoff" \in Faults
  /\ pc[m] = "resolving"
  /\ thinking' = {}
  /\ Goto(m, "unwinding")
  /\ UNCHANGED <<status, abort, pending, turns, fired, lockq, disk, threw,
                 target, up>>

Unwind(m) ==
  /\ pc[m] = "unwinding"
  /\ Goto(m, "failed")
  /\ UNCHANGED <<memory, turns, fired, lockq, disk, threw, target, up>>

\* startOrQueue while a loop is active: leave a note and return.
QueueMention(m) ==
  /\ pc[m] = "resolving" /\ status # "idle"
  /\ pending' = TRUE
  /\ Goto(m, "done")
  /\ UNCHANGED <<status, abort, thinking, turns, fired, lockq, disk, threw,
                 target, up>>

\* startOrQueue while idle: become the owner.  There is no AbortController
\* yet while the status is being persisted.
StartLoop(m) ==
  /\ pc[m] = "resolving" /\ status = "idle"
  /\ status' = "running" /\ pending' = FALSE
  /\ Enqueue(m, "running")
  /\ Goto(m, "starting")
  /\ UNCHANGED <<abort, thinking, turns, fired, disk, threw, target, up>>

\* The status is on disk: a new AbortController, and runSdkTurn.
BeginTurn(m) ==
  /\ pc[m] \in {"starting", "restarting"}
  /\ Written(m, "running")
  /\ turns' = turns + 1 /\ abort' = turns + 1
  /\ Goto(m, "turn")
  /\ UNCHANGED <<status, pending, thinking, fired, threw, target, up>>

\* The turn returned and mentions are queued: go round again, whatever a
\* /stop made of the status meanwhile.
NextTurn(m) ==
  /\ pc[m] = "turn" /\ pending
  /\ status' = "running" /\ pending' = FALSE
  /\ Enqueue(m, "running")
  /\ Goto(m, "restarting")
  /\ UNCHANGED <<abort, thinking, turns, fired, disk, threw, target, up>>

FinishLoop(m) ==
  /\ pc[m] = "turn" /\ ~pending
  /\ GoIdle
  /\ Goto(m, "cleaning")
  /\ UNCHANGED <<turns, fired, lockq, disk, threw, target, up>>

TurnThrows(m) ==
  /\ "turn" \in Faults
  /\ pc[m] = "turn"
  /\ GoIdle
  /\ threw' = threw \cup {m}
  /\ Goto(m, "cleaning")
  /\ UNCHANGED <<turns, fired, lockq, disk, target, up>>

\* The reactions are gone; clearSession.
ClearRecord(m) ==
  /\ pc[m] = "cleaning"
  /\ Enqueue(m, "idle")
  /\ Goto(m, "closing")
  /\ UNCHANGED <<memory, turns, fired, disk, threw, target, up>>

\* startOrQueue is over; what the turn threw reaches the handler's catch.
LeaveLoop(m) ==
  /\ pc[m] = "closing"
  /\ Written(m, "idle")
  /\ IF m \in threw THEN Goto(m, "unwinding") /\ thinking' = {}
                    ELSE Goto(m, "done") /\ UNCHANGED thinking
  /\ UNCHANGED <<status, abort, pending, turns, fired, threw, target, up>>

\* The status write of a mention rejects.  Before the loop nothing resets the
\* flags; inside it the finally block does; after it only the handler is left.
StatusWriteRejected(m) ==
  /\ WriteRejected(m)
  /\ \/ /\ pc[m] \in {"starting", "closing"}
        /\ thinking' = {}
        /\ Goto(m, "unwinding")
        /\ UNCHANGED <<status, abort, pending, threw>>
     \/ /\ pc[m] = "restarting"
        /\ GoIdle
        /\ threw' = threw \cup {m}
        /\ Goto(m, "cleaning")
  /\ UNCHANGED <<turns, fired, target, up>>

-----------------------------------------------------------------------------
(* /stop.                                                                  *)

\* signalStop finds a turn it can cancel: it persists before it aborts.
StopAccepted(s) ==
  /\ up /\ pc[s] = "new"
  /\ status = "running" /\ abort # 0
  /\ status' = "stopping" /\ pending' = FALSE
  /\ target' = [target EXCEPT ![s] = Owners]
  /\ Enqueue(s, "stopping")
  /\ Goto(s, "stopWriting")
  /\ UNCHANGED <<abort, thinking, turns, fired, disk, threw, up>>

\* s.abort is read again after the await: it is whatever controller the
\* session has by then, and undefined makes signalStop throw.
StopFires(s) ==
  /\ pc[s] = "stopWriting"
  /\ Written(s, "stopping")
  /\ \/ abort # 0 /\ fired' = fired \cup {abort} /\ Goto(s, "done")
     \/ abort = 0 /\ Goto(s, "failed") /\ UNCHANGED fired
  /\ UNCHANGED <<memory, turns, threw, target, up>>

StopWriteRejected(s) ==
  /\ pc[s] = "stopWriting"
  /\ WriteRejected(s)
  /\ Goto(s, "failed")
  /\ UNCHANGED <<memory, turns, fired, threw, target, up>>

\* Nothing to cancel: just say "stopped" in the thread.
StopIdle(s) ==
  /\ up /\ pc[s] = "new"
  /\ status # "running" \/ abort = 0
  /\ Goto(s, "posting")
  /\ UNCHANGED <<memory, turns, fired, lockq, disk, threw, target, up>>

StopPosted(s) ==
  /\ pc[s] = "posting"
  /\ Goto(s, "done")
  /\ UNCHANGED <<memory, turns, fired, lockq, disk, threw, target, up>>

-----------------------------------------------------------------------------
(* Restart.                                                                *)

Settled(t) == pc[t] \in {"new", "done", "failed", "lost"}

\* The process dies: memory and suspended handlers are gone.  Writes are
\* temp + rename, so the one in progress either happened or did not.
Crash ==
  /\ "crash" \in Faults
  /\ up
  /\ up' = FALSE
  /\ GoIdle
  /\ lockq' = <<>>
  /\ \/ UNCHANGED disk
     \/ lockq # <<>> /\ disk' = Head(lockq).status
  /\ pc' = [t \in Task |-> IF Settled(t) THEN pc[t] ELSE "lost"]
  /\ UNCHANGED <<turns, fired, threw, target>>

\* recoverInterruptedSessions runs before the HTTP server listens.
Recover ==
  /\ ~up
  /\ up' = TRUE
  /\ disk' = "idle"
  /\ UNCHANGED <<memory, turns, fired, lockq, pc, threw, target>>

-----------------------------------------------------------------------------
\* What a mention's handler does by itself once the event has arrived.
MentionStep(m) ==
  \/ QueueMention(m) \/ StartLoop(m) \/ BeginTurn(m) \/ NextTurn(m)
  \/ FinishLoop(m) \/ ClearRecord(m) \/ LeaveLoop(m) \/ Unwind(m)

StopStep(s) == StopFires(s) \/ StopPosted(s)

MentionFault(m) == KickoffThrows(m) \/ TurnThrows(m) \/ StatusWriteRejected(m)

Next ==
  \/ \E m \in Mention : Mentioned(m) \/ MentionStep(m) \/ MentionFault(m)
  \/ \E s \in Stop : StopAccepted(s) \/ StopIdle(s) \/ StopStep(s)
                     \/ StopWriteRejected(s)
  \/ Crash \/ Recover

\* Handlers that are not waiting for a user proceed, and a turn ends: the SDK
\* stops at MAX_TURNS and tools have timeouts (that of a command need not end the
\* call, see SdkTurn!ExecHardCap).  Nobody has to write.
Fairness ==
  /\ \A m \in Mention : WF_vars(MentionStep(m))
  /\ \A s \in Stop : WF_vars(StopStep(s))

SafeSpec == Init /\ [][Next]_vars

\* The same program on a disk that takes every status write.  NoPhantomTurn,
\* IdleAtRest and the refinement hold on such a disk; Reactions has the other one.
SteadyNext ==
  \/ \E m \in Mention : Mentioned(m) \/ MentionStep(m) \/ KickoffThrows(m) \/ TurnThrows(m)
  \/ \E s \in Stop : StopAccepted(s) \/ StopIdle(s) \/ StopStep(s)
  \/ Crash \/ Recover

SteadySpec == Init /\ [][SteadyNext]_vars /\ Fairness

-----------------------------------------------------------------------------
(* Properties.                                                             *)

\* At most one agent loop runs in a thread at a time (the status check of
\* startOrQueue), however the handlers' awaits interleave.
OneLoop == \A a, b \in Mention : InLoop(a) /\ InLoop(b) => a = b

\* session.status and the loop agree: it is non-idle exactly while a handler
\* is in the loop, so no mention queues behind a turn nobody runs.
NoPhantomTurn == up => (status # "idle" <=> Owners # {})

\* A turn never runs on in state stopping: it has been aborted, or a /stop is
\* about to abort it.  (Otherwise every further /stop would just be answered.)
StoppingTurnIsAborted ==
  (\E m \in Mention : pc[m] = "turn") /\ status = "stopping" =>
    abort \in fired \/ \E s \in Stop : pc[s] = "stopWriting"

\* Once the handlers have returned, session.json says idle: no stale running
\* or stopping marker survives, although a /stop, the end of the turn and the
\* next mention write the status concurrently.
AtRest == up /\ lockq = <<>> /\ \A m \in Mention : Settled(m)
IdleAtRest == AtRest => disk = "idle"

\* A /stop aborts the loop it was accepted for, never one that a later mention
\* started while the stopping status was being written; and a turn that runs on
\* in state stopping is one of those.
StopHolds ==
  [][/\ \A s \in Stop : StopFires(s) /\ fired' # fired => Owners \subseteq target[s]
     /\ StoppingTurnIsAborted']_vars

\* The handlers of all mentions return in the end: no loop is left waiting for
\* itself and no write is lost in the chain, whether or not the disk works.
MentionsReturn == \A m \in Mention : pc[m] = "resolving" ~> Settled(m)

\* A mention queued during a turn gets another turn, unless a /stop discards the
\* queue, the turn throws or the process dies; one queued behind an accepted
\* /stop gets it in any case.
Restarting == \E m \in Mention : pc[m] = "restarting"
Broken == ~up \/ \E m \in threw : pc[m] = "cleaning"
QueueDrains ==
  /\ pending ~> Restarting \/ status = "stopping" \/ Broken
  /\ pending /\ status = "stopping" ~> Restarting \/ Broken

\* SPEC.md, section 8: /stop cancels the in-flight turn, so when it answers
\* that nothing runs, no loop is under way.
StoppedMeansStopped ==
  [][\A s \in Stop : StopIdle(s) => \A m \in Mention : ~InLoop(m)]_vars

-----------------------------------------------------------------------------
(* Refinement.                                                             *)
CONSTANT NoOwner

ASSUME OwnerAssumption == NoOwner \notin Mention

Owner == IF Owners = {} THEN NoOwner ELSE CHOOSE m \in Mention : InLoop(m)

\* Someone's turn has thrown, or the process has died under someone.
Failed == threw # {} \/ \E t \in Task : pc[t] = "lost"

Ownership == INSTANCE TurnOwnership WITH
  owner <- Owner, queued <- pending, failed <- Failed

\* The scheduler implements the ownership promise, liveness included.
ImplementsOwnership == Ownership!Spec
============================================================================
