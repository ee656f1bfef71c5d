---------------------------- MODULE ThreadProofs ----------------------------
(***************************************************************************)
(* Theorems about the scheduler of a thread, Session, and the two modules  *)
(* that compose it with what Slack shows, Reactions, and with what the     *)
(* turns are about, Conversation.  They hold for any number of mentions,   *)
(* /stops, plain messages and /deletes.                                    *)
(*                                                                         *)
(* Everything rests on one fact about startOrQueue: a handler that is in   *)
(* the loop has made the status non-idle, and nobody else resets it.       *)
(***************************************************************************)
EXTENDS Reactions, Conversation, SequenceTheorems, WellFoundedInduction, TLAPS

LEMMA TaskFacts ==
  /\ Mention \subseteq Task /\ Stop \subseteq Task
  /\ \A m \in Mention, s \in Stop : m # s
BY SessionAssumption DEF Task

LEMMA EnqueueType ==
  ASSUME StoreType, NEW t \in Task, NEW st \in Status, Enqueue(t, st)
  PROVE  lockq' \in Seq(Write)
BY DEF StoreType, Enqueue, Write

LEMMA WrittenType ==
  ASSUME StoreType, NEW t \in Task, NEW st \in Status, Written(t, st)
  PROVE  StoreType'
BY DEF StoreType, Written

LEMMA RejectedType ==
  ASSUME StoreType, NEW t \in Task, WriteRejected(t)
  PROVE  StoreType'
BY DEF StoreType, WriteRejected

LEMMA GotoType ==
  ASSUME ControlType, NEW t \in Task, NEW l \in Control, Goto(t, l)
  PROVE  /\ pc' \in [Task -> Control]
         /\ pc'[t] = l
         /\ \A u \in Task \ {t} : pc'[u] = pc[u]
BY DEF ControlType, Goto

LEMMA GoIdleType ==
  ASSUME GoIdle
  PROVE  status' \in Status /\ abort' \in Nat /\ thinking' \subseteq Mention
<1>1. status' \in Status /\ thinking' \subseteq Mention
  BY DEF GoIdle, Status
<1>2. abort' \in Nat
  BY DEF GoIdle
<1>3. QED
  BY <1>1, <1>2

LEMMA TypeInit == Init => TypeOK
<1> SUFFICES ASSUME Init PROVE TypeOK
  OBVIOUS
<1> USE DEF TypeOK
<1>1. FlagsType
  BY DEF Init, FlagsType
<1>2. MemoryType
  BY DEF Init, MemoryType, Status
<1>3. StoreType
  BY DEF Init, StoreType, Status
<1>4. ControlType
  BY DEF Init, ControlType, Control
<1>5. QED
  BY <1>1, <1>2, <1>3, <1>4

LEMMA TypeStep ==
  ASSUME TypeOK, [Next]_vars
  PROVE  TypeOK'
<1> USE TaskFacts DEF TypeOK
<1>1. ASSUME NEW m \in Mention, Mentioned(m) PROVE TypeOK'
  <2>1. FlagsType'
    BY <1>1 DEF Mentioned, FlagsType
  <2>2. MemoryType' /\ StoreType'
    BY <1>1 DEF Mentioned, MemoryType, StoreType
  <2>3. ControlType'
    BY <1>1, GotoType DEF Mentioned, ControlType, Control
  <2>4. QED
    BY <2>1, <2>2, <2>3
<1>2. ASSUME NEW m \in Mention, MentionStep(m)
      PROVE  TypeOK'
  <2> USE <1>2 DEF MentionStep, QueueMention, StartLoop, BeginTurn, NextTurn,
        FinishLoop, ClearRecord, LeaveLoop, Unwind
  <2>1. FlagsType'
    BY DEF FlagsType, GoIdle, memory
  <2>2. MemoryType'
    <3>1. status' \in Status /\ thinking' \subseteq Mention
      BY GoIdleType DEF MemoryType, Status, memory
    <3>2. abort' \in Nat
      BY GoIdleType DEF MemoryType, memory
    <3>3. turns' \in Nat
      BY DEF MemoryType, memory
    <3>4. fired' \subseteq Nat
      BY DEF MemoryType, memory
    <3>5. QED
      BY <3>1, <3>2, <3>3, <3>4 DEF MemoryType
  <2>3. StoreType'
    BY EnqueueType, WrittenType DEF StoreType, Status
  <2>4. ControlType'
    BY GotoType DEF ControlType, Control, Owners
  <2>5. QED
    BY <2>1, <2>2, <2>3, <2>4
<1>3. ASSUME NEW m \in Mention, MentionFault(m)
      PROVE  TypeOK'
  <2> USE <1>3 DEF MentionFault, KickoffThrows, TurnThrows, StatusWriteRejected
  <2>1. FlagsType'
    BY DEF FlagsType, GoIdle, memory
  <2>2. MemoryType'
    <3>1. status' \in Status /\ thinking' \subseteq Mention
      BY GoIdleType DEF MemoryType, Status, memory
    <3>2. abort' \in Nat
      BY GoIdleType DEF MemoryType, memory
    <3>3. turns' \in Nat
      BY DEF MemoryType, memory
    <3>4. fired' \subseteq Nat
      BY DEF MemoryType, memory
    <3>5. QED
      BY <3>1, <3>2, <3>3, <3>4 DEF MemoryType
  <2>3. StoreType'
    BY RejectedType DEF StoreType, Status
  <2>4. ControlType'
    BY GotoType DEF ControlType, Control, Owners
  <2>5. QED
    BY <2>1, <2>2, <2>3, <2>4
<1>4. ASSUME NEW s \in Stop,
             StopAccepted(s) \/ StopIdle(s) \/ StopStep(s) \/ StopWriteRejected(s)
      PROVE  TypeOK'
  <2> USE <1>4 DEF StopAccepted, StopIdle, StopStep, StopFires, StopPosted,
        StopWriteRejected
  <2>1. FlagsType'
    BY DEF FlagsType, GoIdle, memory
  <2>2. MemoryType'
    <3>1. status' \in Status /\ thinking' \subseteq Mention
      BY GoIdleType DEF MemoryType, Status, memory
    <3>2. abort' \in Nat
      BY GoIdleType DEF MemoryType, memory
    <3>3. turns' \in Nat
      BY DEF MemoryType, memory
    <3>4. fired' \subseteq Nat
      BY DEF MemoryType, memory
    <3>5. QED
      BY <3>1, <3>2, <3>3, <3>4 DEF MemoryType
  <2>3. StoreType'
    BY EnqueueType, WrittenType, RejectedType DEF StoreType, Status
  <2>4. ControlType'
    BY GotoType DEF ControlType, Control, Owners
  <2>5. QED
    BY <2>1, <2>2, <2>3, <2>4
<1>5. CASE Crash
  <2>1. FlagsType'
    BY <1>5 DEF Crash, GoIdle, FlagsType
  <2>2. MemoryType'
    <3>1. status' \in Status /\ abort' \in Nat /\ thinking' \subseteq Mention
      BY <1>5, GoIdleType DEF Crash
    <3>2. turns' \in Nat /\ fired' \subseteq Nat
      BY <1>5 DEF Crash, MemoryType
    <3>3. QED
      BY <3>1, <3>2 DEF MemoryType
  <2>3. StoreType'
    <3>1. lockq # <<>> => Head(lockq) \in Write
      BY DEF StoreType
    <3>2. disk' \in Status
      BY <1>5, <3>1 DEF Crash, StoreType, Write
    <3>3. QED
      BY <1>5, <3>2 DEF Crash, StoreType
  <2>4. ControlType'
    BY <1>5 DEF Crash, ControlType, Control
  <2>5. QED
    BY <2>1, <2>2, <2>3, <2>4
<1>6. CASE Recover
  <2>1. FlagsType'
    BY <1>6 DEF Recover, FlagsType, memory
  <2>2. MemoryType' /\ StoreType' /\ ControlType'
    BY <1>6 DEF Recover, MemoryType, StoreType, ControlType, Status, memory
  <2>3. QED
    BY <2>1, <2>2
<1>7. CASE UNCHANGED vars
  <2>1. FlagsType'
    BY <1>7 DEF vars, FlagsType
  <2>2. MemoryType' /\ StoreType' /\ ControlType'
    BY <1>7 DEF vars, MemoryType, StoreType, ControlType
  <2>3. QED
    BY <2>1, <2>2
<1>8. QED
  BY <1>1, <1>2, <1>3, <1>4, <1>5, <1>6, <1>7 DEF Next

\* Every variable keeps its type (session.ts, session-store.ts, recovery.ts).
THEOREM TypeCorrect == SafeSpec => []TypeOK
BY TypeInit, TypeStep, PTL DEF SafeSpec

-----------------------------------------------------------------------------
(* Mutual exclusion of agent loops.                                        *)

\* A handler in the loop keeps the status non-idle, and is the only one.
LoopInv ==
  /\ OneLoop
  /\ \A m \in Mention : InLoop(m) => status # "idle"

LEMMA LoopInvStep ==
  ASSUME TypeOK, LoopInv, [Next]_vars
  PROVE  LoopInv'
<1> USE TaskFacts DEF TypeOK, LoopInv, OneLoop, InLoop
<1>1. ASSUME NEW m \in Mention, Mentioned(m) PROVE LoopInv'
  BY <1>1, GotoType DEF Mentioned, Control
<1>2. ASSUME NEW m \in Mention,
             QueueMention(m) \/ ClearRecord(m) \/ LeaveLoop(m) \/ Unwind(m)
      PROVE  LoopInv'
  BY <1>2, GotoType
  DEF QueueMention, ClearRecord, LeaveLoop, Unwind, Control, memory
<1>3. ASSUME NEW m \in Mention, StartLoop(m) PROVE LoopInv'
  BY <1>3, GotoType DEF StartLoop, Control
<1>4. ASSUME NEW m \in Mention, BeginTurn(m) \/ NextTurn(m) PROVE LoopInv'
  BY <1>4, GotoType DEF BeginTurn, NextTurn, Control
<1>5. ASSUME NEW m \in Mention, FinishLoop(m) \/ TurnThrows(m) PROVE LoopInv'
  BY <1>5, GotoType DEF FinishLoop, TurnThrows, GoIdle, Control
<1>6. ASSUME NEW m \in Mention, KickoffThrows(m) \/ StatusWriteRejected(m)
      PROVE  LoopInv'
  BY <1>6, GotoType DEF KickoffThrows, StatusWriteRejected, GoIdle, Control
<1>7. ASSUME NEW s \in Stop,
             StopAccepted(s) \/ StopIdle(s) \/ StopStep(s) \/ StopWriteRejected(s)
      PROVE  LoopInv'
  BY <1>7, GotoType
  DEF StopAccepted, StopIdle, StopStep, StopFires, StopPosted,
      StopWriteRejected, Control, memory
<1>8. CASE Crash
  BY <1>8 DEF Crash, Settled
<1>9. CASE Recover
  BY <1>9 DEF Recover, memory
<1>10. CASE UNCHANGED vars
  BY <1>10 DEF vars
<1>11. QED
  BY <1>1, <1>2, <1>3, <1>4, <1>5, <1>6, <1>7, <1>8, <1>9, <1>10
  DEF Next, MentionStep, MentionFault

\* At most one agent loop runs in a thread at a time, whatever fails: the
\* status check of startOrQueue (session.ts:92-97) is a lock.
THEOREM LoopMutualExclusion == SafeSpec => []OneLoop
<1>1. Init => LoopInv
  BY TaskFacts DEF Init, LoopInv, OneLoop, InLoop
<1>2. LoopInv => OneLoop
  BY DEF LoopInv
<1>3. QED
  BY <1>1, <1>2, LoopInvStep, TypeCorrect, PTL DEF SafeSpec

-----------------------------------------------------------------------------
(* No phantom turn.                                                        *)

\* Whoever made the status non-idle is still in the loop.
OwnedInv == status # "idle" => \E m \in Mention : InLoop(m)

LEMMA OwnedInvStep ==
  ASSUME "mkdir" \notin Faults, TypeOK, LoopInv, OwnedInv, [Next]_vars
  PROVE  OwnedInv'
<1> USE TaskFacts DEF TypeOK, LoopInv, OneLoop, OwnedInv, InLoop
<1>1. ASSUME NEW m \in Mention, Mentioned(m) PROVE OwnedInv'
  BY <1>1, GotoType DEF Mentioned, Control
<1>2. ASSUME NEW m \in Mention,
             QueueMention(m) \/ ClearRecord(m) \/ LeaveLoop(m) \/ Unwind(m)
      PROVE  OwnedInv'
  BY <1>2, GotoType
  DEF QueueMention, ClearRecord, LeaveLoop, Unwind, Control, memory
<1>3. ASSUME NEW m \in Mention, StartLoop(m) \/ BeginTurn(m) \/ NextTurn(m)
      PROVE  OwnedInv'
  BY <1>3, GotoType DEF StartLoop, BeginTurn, NextTurn, Control
<1>4. ASSUME NEW m \in Mention, FinishLoop(m) \/ TurnThrows(m) PROVE OwnedInv'
  BY <1>4 DEF FinishLoop, TurnThrows, GoIdle
<1>5. ASSUME NEW m \in Mention, KickoffThrows(m) \/ StatusWriteRejected(m)
      PROVE  OwnedInv'
  BY <1>5, GotoType DEF KickoffThrows, StatusWriteRejected, WriteRejected, Control
<1>6. ASSUME NEW s \in Stop,
             StopAccepted(s) \/ StopIdle(s) \/ StopStep(s) \/ StopWriteRejected(s)
      PROVE  OwnedInv'
  BY <1>6, GotoType
  DEF StopAccepted, StopIdle, StopStep, StopFires, StopPosted,
      StopWriteRejected, Control, memory
<1>7. CASE Crash
  BY <1>7 DEF Crash, GoIdle
<1>8. CASE Recover
  BY <1>8 DEF Recover, memory
<1>9. CASE UNCHANGED vars
  BY <1>9 DEF vars
<1>10. QED
  BY <1>1, <1>2, <1>3, <1>4, <1>5, <1>6, <1>7, <1>8, <1>9
  DEF Next, MentionStep, MentionFault

\* As long as a status write cannot reject, the status is non-idle exactly while
\* a handler runs the loop: a mention never queues behind a turn nobody runs.
THEOREM NoPhantom ==
  ASSUME "mkdir" \notin Faults
  PROVE  SafeSpec => []NoPhantomTurn
<1>1. Init => LoopInv /\ OwnedInv
  BY TaskFacts DEF Init, LoopInv, OneLoop, OwnedInv, InLoop
<1>2. LoopInv /\ OwnedInv => NoPhantomTurn
  BY DEF LoopInv, OwnedInv, NoPhantomTurn, Owners
<1>3. QED
  BY <1>1, <1>2, LoopInvStep, OwnedInvStep, TypeCorrect, PTL DEF SafeSpec

-----------------------------------------------------------------------------
(* The persisted status settles at idle.                                   *)

\* The status session.json will have once the chained writes are through.
FinalStatus == IF lockq = <<>> THEN disk ELSE lockq[Len(lockq)].status

LEMMA EnqueueFinal ==
  ASSUME StoreType, NEW t \in Task, NEW st \in Status, Enqueue(t, st)
  PROVE  FinalStatus' = st
BY DEF StoreType, Enqueue, FinalStatus, Write

LEMMA WrittenFinal ==
  ASSUME "write" \notin Faults, StoreType,
         NEW t \in Task, NEW st \in Status, Written(t, st)
  PROVE  FinalStatus' = FinalStatus
<1>1. /\ lockq # <<>> /\ lockq' = Tail(lockq)
      /\ disk' = Head(lockq).status
  BY DEF Written
<1>2. /\ Len(lockq) \in Nat \ {0}
      /\ Len(<<>>) = 0
      /\ Head(lockq) = lockq[1]
      /\ Len(Tail(lockq)) = Len(lockq) - 1
      /\ \A i \in 1 .. Len(Tail(lockq)) : Tail(lockq)[i] = lockq[i + 1]
  BY <1>1, EmptySeq, HeadTailProperties DEF StoreType
<1>3. CASE Len(lockq) = 1
  <2>1. Tail(lockq) = <<>>
    BY <1>1, <1>3 DEF StoreType
  <2>2. QED
    BY <1>1, <1>2, <1>3, <2>1 DEF FinalStatus
<1>4. CASE Len(lockq) # 1
  <2>1. Len(Tail(lockq)) # 0
    BY <1>2, <1>4
  <2>2. Tail(lockq) # <<>>
    BY <1>2, <2>1
  <2>3. Tail(lockq)[Len(lockq) - 1] = lockq[Len(lockq)]
    BY <1>2, <1>4
  <2>4. QED
    BY <1>1, <1>2, <2>2, <2>3 DEF FinalStatus
<1>5. QED
  BY <1>3, <1>4

\* A non-idle status that is or will be on disk has a handler that has yet to
\* enqueue the clearing write; while the tenant is down there is no handler.
Clearer(m) == InLoop(m) \/ pc[m] = "cleaning"
RestInv ==
  /\ up => (FinalStatus # "idle" => \E m \in Mention : Clearer(m))
  /\ ~up => lockq = <<>> /\ \A t \in Task : Settled(t)

LEMMA RestInvStep ==
  ASSUME "mkdir" \notin Faults, "write" \notin Faults,
         TypeOK, LoopInv, OwnedInv, RestInv, [Next]_vars
  PROVE  RestInv'
<1> USE TaskFacts DEF TypeOK, RestInv, Clearer, InLoop, Settled
<1>1. ASSUME NEW m \in Mention,
             Mentioned(m) \/ QueueMention(m) \/ Unwind(m) \/ KickoffThrows(m)
      PROVE  RestInv'
  <2>1. FinalStatus' = FinalStatus
    BY <1>1 DEF Mentioned, QueueMention, Unwind, KickoffThrows, FinalStatus
  <2>2. QED
    BY <1>1, <2>1, GotoType
    DEF Mentioned, QueueMention, Unwind, KickoffThrows, Control
<1>2. ASSUME NEW m \in Mention, StartLoop(m) \/ NextTurn(m) PROVE RestInv'
  BY <1>2, GotoType DEF StartLoop, NextTurn, Control
<1>3. ASSUME NEW m \in Mention, BeginTurn(m) PROVE RestInv'
  BY <1>3, GotoType DEF BeginTurn, Control
<1>4. ASSUME NEW m \in Mention, FinishLoop(m) \/ TurnThrows(m) PROVE RestInv'
  BY <1>4, GotoType DEF FinishLoop, TurnThrows, Control
<1>5. ASSUME NEW m \in Mention, ClearRecord(m) PROVE RestInv'
  <2>1. FinalStatus' = "idle"
    BY <1>5, EnqueueFinal DEF ClearRecord, Status
  <2>2. QED
    BY <1>5, <2>1 DEF ClearRecord
<1>6. ASSUME NEW m \in Mention, LeaveLoop(m) PROVE RestInv'
  <2>1. FinalStatus' = FinalStatus
    BY <1>6, WrittenFinal DEF LeaveLoop, Status
  <2>2. QED
    BY <1>6, <2>1, GotoType DEF LeaveLoop, Control
<1>7. ASSUME NEW m \in Mention, StatusWriteRejected(m) PROVE RestInv'
  BY <1>7 DEF StatusWriteRejected, WriteRejected
<1>8. ASSUME NEW s \in Stop, StopAccepted(s) PROVE RestInv'
  <2>1. \E m \in Mention : InLoop(m)
    BY <1>8 DEF StopAccepted, OwnedInv
  <2>2. QED
    BY <1>8, <2>1, GotoType DEF StopAccepted, Control
<1>9. ASSUME NEW s \in Stop, StopFires(s) PROVE RestInv'
  <2>1. FinalStatus' = FinalStatus
    BY <1>9, WrittenFinal DEF StopFires, Status
  <2>2. QED
    BY <1>9, <2>1, GotoType DEF StopFires, Control
<1>10. ASSUME NEW s \in Stop,
              StopIdle(s) \/ StopPosted(s) \/ StopWriteRejected(s)
       PROVE  RestInv'
  <2>1. FinalStatus' = FinalStatus
    BY <1>10
    DEF StopIdle, StopPosted, StopWriteRejected, WriteRejected, FinalStatus
  <2>2. QED
    BY <1>10, <2>1, GotoType
    DEF StopIdle, StopPosted, StopWriteRejected, WriteRejected, Control
<1>11. CASE Crash
  BY <1>11 DEF Crash
<1>12. CASE Recover
  BY <1>12 DEF Recover, FinalStatus
<1>13. CASE UNCHANGED vars
  BY <1>13 DEF vars, FinalStatus
<1>14. QED
  BY <1>1, <1>2, <1>3, <1>4, <1>5, <1>6, <1>7, <1>8, <1>9, <1>10, <1>11,
     <1>12, <1>13
  DEF Next, MentionStep, MentionFault, StopStep

\* As long as session.json can be written, no running or stopping marker is left
\* behind once the handlers have returned, however a /stop, the end of the turn
\* and the next mention interleave (session.ts:129 and 142-152).
THEOREM SettlesIdle ==
  ASSUME "mkdir" \notin Faults, "write" \notin Faults
  PROVE  SafeSpec => []IdleAtRest
<1>1. Init => LoopInv /\ OwnedInv /\ RestInv
  BY TaskFacts
  DEF Init, LoopInv, OneLoop, OwnedInv, RestInv, InLoop, FinalStatus
<1>2. TypeOK /\ RestInv => IdleAtRest
  BY DEF RestInv, IdleAtRest, AtRest, Clearer, InLoop, Settled, FinalStatus
<1>3. QED
  BY <1>1, <1>2, LoopInvStep, OwnedInvStep, RestInvStep, TypeCorrect, PTL
  DEF SafeSpec

-----------------------------------------------------------------------------
(* A /stop aborts the loop it was accepted for.                            *)

\* The handlers that wait for a status write are those in the lock chain: whose
\* write it is and what it says tell the await, and nobody has two.
Waiting == {"starting", "restarting", "closing", "stopWriting"}
Awaited(w) == \/ /\ w.by \in Mention
                 /\ pc[w.by] \in IF w.status = "idle" THEN {"closing"}
                                                      ELSE {"starting", "restarting"}
              \/ w.by \in Stop /\ pc[w.by] = "stopWriting"
Chained(t) == \E i \in 1 .. Len(lockq) : lockq[i].by = t
ChainInv ==
  /\ \A i \in 1 .. Len(lockq) : Awaited(lockq[i])
  /\ \A i, j \in 1 .. Len(lockq) : i < j => lockq[i].by # lockq[j].by
  /\ \A t \in Task : pc[t] \in Waiting => Chained(t)

\* t's write comes before u's.
Ahead(t, u) ==
  \E i, j \in 1 .. Len(lockq) : i < j /\ lockq[i].by = t /\ lockq[j].by = u

\* How a step moves t, as far as the chain can tell.
Moves(t) == \A u \in Task \ {t} : pc'[u] = pc[u]

LEMMA EntryBy ==
  ASSUME StoreType
  PROVE  \A i \in 1 .. Len(lockq) : lockq[i] \in Write /\ lockq[i].by \in Task
<1>1. \A i \in 1 .. Len(lockq) : lockq[i] \in Write
  BY DEF StoreType
<1>2. QED
  BY <1>1 DEF Write

LEMMA AwaitedWaits == \A w : Awaited(w) => pc[w.by] \in Waiting
BY DEF Awaited, Waiting

LEMMA ChainUnmoved ==
  ASSUME ChainInv, lockq' = lockq, NEW t \in Task, Moves(t),
         pc[t] \notin Waiting, pc'[t] \notin Waiting, StoreType
  PROVE  ChainInv' /\ \A u, v \in Task : Ahead(u, v) => Ahead(u, v)'
<1> USE DEF ChainInv, StoreType
<1>1. \A i \in 1 .. Len(lockq) : lockq[i].by \in Task
  BY EntryBy
<1>2. \A i \in 1 .. Len(lockq) : lockq[i].by # t
  BY AwaitedWaits
<1>3. \A i \in 1 .. Len(lockq') : Awaited(lockq[i])'
  BY <1>1, <1>2 DEF Awaited, Moves
<1>4. \A u \in Task : pc'[u] \in Waiting => Chained(u)'
  BY DEF Moves, Chained
<1>5. QED
  BY <1>3, <1>4 DEF Ahead

\* The handler t chains a write and waits for it, behind all the others.
LEMMA ChainJoined ==
  ASSUME ChainInv, StoreType, NEW t \in Task, NEW st \in Status, Enqueue(t, st), Moves(t),
         pc[t] \notin Waiting, Awaited([by |-> t, status |-> st])'
  PROVE  /\ ChainInv'
         /\ \A u, v \in Task : Ahead(u, v) => Ahead(u, v)'
         /\ \A u \in Task : pc[u] \in Waiting => Ahead(u, t)'
<1> USE DEF ChainInv, StoreType
<1> DEFINE w == [by |-> t, status |-> st]
<1>0. PICK n \in Nat : n = Len(lockq)
  OBVIOUS
<1>1. /\ n \in Nat /\ Len(lockq') = n + 1
      /\ \A i \in 1 .. n : lockq'[i] = lockq[i]
      /\ lockq'[n + 1] = w /\ w.by = t
  <2>1. w \in Write
    BY DEF Write
  <2>2. lockq' = Append(lockq, w)
    BY DEF Enqueue
  <2>3. QED
    BY <1>0, <2>1, <2>2, AppendProperties
<1>2. \A i \in 1 .. n : lockq[i].by \in Task /\ lockq[i].by # t
  BY <1>0, EntryBy, AwaitedWaits
<1> HIDE DEF w
<1>3. \A i \in 1 .. n + 1 : Awaited(lockq[i])'
  <2>1. ASSUME NEW i \in 1 .. n PROVE Awaited(lockq[i])'
    BY <1>0, <1>1, <1>2, <2>1 DEF Awaited, Moves
  <2>2. Awaited(lockq[n + 1])'
    BY <1>1 DEF w, Awaited
  <2>3. QED
    BY <1>1, <2>1, <2>2
<1>4. \A i, j \in 1 .. n + 1 : i < j => lockq'[i].by # lockq'[j].by
  BY <1>0, <1>1, <1>2
<1>5. \A u \in Task : pc'[u] \in Waiting => Chained(u)'
  <2>1. Chained(t)'
    BY <1>1 DEF Chained
  <2>2. ASSUME NEW u \in Task \ {t}, pc'[u] \in Waiting PROVE Chained(u)'
    <3>1. PICK i \in 1 .. n : lockq[i].by = u
      BY <1>0, <2>2 DEF Moves, Chained
    <3>2. i \in 1 .. n + 1 /\ lockq'[i].by = u
      BY <1>1, <3>1
    <3>3. QED
      BY <1>1, <3>2 DEF Chained
  <2>3. QED
    BY <2>1, <2>2
<1>6. ASSUME NEW u \in Task, NEW v \in Task, Ahead(u, v) PROVE Ahead(u, v)'
  <2>1. PICK i, j \in 1 .. n : i < j /\ lockq[i].by = u /\ lockq[j].by = v
    BY <1>0, <1>6 DEF Ahead
  <2>2. i \in 1 .. n + 1 /\ j \in 1 .. n + 1
    BY <1>1
  <2>3. QED
    BY <1>1, <2>1, <2>2 DEF Ahead
<1>7. ASSUME NEW u \in Task, pc[u] \in Waiting PROVE Ahead(u, t)'
  <2>1. PICK i \in 1 .. n : lockq[i].by = u
    BY <1>0, <1>7 DEF Chained
  <2>2. i \in 1 .. n + 1 /\ n + 1 \in 1 .. n + 1 /\ i < n + 1
    BY <1>1
  <2>3. QED
    BY <1>1, <2>1, <2>2 DEF Ahead
<1>8. QED
  BY <1>1, <1>3, <1>4, <1>5, <1>6, <1>7

\* The handler whose write is at the head resumes; nobody was ahead of it.
LEMMA ChainLeft ==
  ASSUME ChainInv, StoreType, NEW t \in Task, lockq # <<>>, Head(lockq).by = t,
         lockq' = Tail(lockq), Moves(t), pc'[t] \notin Waiting
  PROVE  /\ ChainInv'
         /\ \A u \in Task : ~Ahead(u, t)
         /\ \A u \in Task \ {t}, v \in Task : Ahead(u, v) => Ahead(u, v)'
<1> USE DEF ChainInv, StoreType
<1>0. PICK n \in Nat : n = Len(lockq)
  OBVIOUS
<1>1. /\ n \in Nat \ {0} /\ lockq[1].by = t
      /\ Len(lockq') = n - 1
      /\ \A i \in 1 .. n - 1 : lockq'[i] = lockq[i + 1]
  BY <1>0, HeadTailProperties
<1>2. \A i \in 1 .. n : lockq[i].by \in Task /\ (i # 1 => lockq[i].by # t)
  <2>1. \A i \in 1 .. n : lockq[i].by \in Task
    BY <1>0, EntryBy
  <2>2. ASSUME NEW i \in 1 .. n, i # 1 PROVE lockq[i].by # t
    BY <1>0, <1>1, <2>2
  <2>3. QED
    BY <2>1, <2>2
<1>3. \A i \in 1 .. n - 1 : Awaited(lockq[i])'
  <2> SUFFICES ASSUME NEW i \in 1 .. n - 1 PROVE Awaited(lockq[i])'
    OBVIOUS
  <2>1. i + 1 \in 1 .. n /\ i + 1 # 1
    BY <1>1
  <2>2. Awaited(lockq[i + 1]) /\ lockq[i + 1].by # t /\ lockq[i + 1].by \in Task
    BY <1>0, <1>2, <2>1
  <2>3. QED
    BY <1>1, <2>2 DEF Awaited, Moves
<1>4. \A i, j \in 1 .. n - 1 : i < j => lockq'[i].by # lockq'[j].by
  <2> SUFFICES ASSUME NEW i \in 1 .. n - 1, NEW j \in 1 .. n - 1, i < j
               PROVE  lockq'[i].by # lockq'[j].by
    OBVIOUS
  <2>1. i + 1 \in 1 .. n /\ j + 1 \in 1 .. n /\ i + 1 < j + 1
    BY <1>1
  <2>2. QED
    BY <1>0, <1>1, <2>1
<1>5. \A u \in Task : pc'[u] \in Waiting => Chained(u)'
  <2> SUFFICES ASSUME NEW u \in Task, pc'[u] \in Waiting PROVE Chained(u)'
    OBVIOUS
  <2>1. u # t /\ pc[u] \in Waiting
    BY DEF Moves
  <2>2. PICK i \in 1 .. n : lockq[i].by = u
    BY <1>0, <2>1 DEF Chained
  <2>3. i # 1
    BY <1>1, <2>1, <2>2
  <2>4. i - 1 \in 1 .. n - 1 /\ (i - 1) + 1 = i
    BY <1>1, <2>3
  <2>5. lockq'[i - 1].by = u
    BY <1>1, <2>2, <2>4
  <2>6. QED
    BY <1>1, <2>4, <2>5 DEF Chained
<1>6. ASSUME NEW u \in Task, Ahead(u, t) PROVE FALSE
  <2>1. PICK i, j \in 1 .. n : i < j /\ lockq[j].by = t
    BY <1>0, <1>6 DEF Ahead
  <2>2. j # 1
    BY <2>1
  <2>3. QED
    BY <1>2, <2>1, <2>2
<1>7. ASSUME NEW u \in Task \ {t}, NEW v \in Task, Ahead(u, v) PROVE Ahead(u, v)'
  <2>1. PICK i, j \in 1 .. n : i < j /\ lockq[i].by = u /\ lockq[j].by = v
    BY <1>0, <1>7 DEF Ahead
  <2>2. i # 1
    BY <1>0, <1>1, <2>1
  <2>3. /\ i - 1 \in 1 .. n - 1 /\ (i - 1) + 1 = i
        /\ j - 1 \in 1 .. n - 1 /\ (j - 1) + 1 = j
        /\ i - 1 < j - 1
    BY <1>1, <2>1, <2>2
  <2>4. lockq'[i - 1].by = u /\ lockq'[j - 1].by = v
    BY <1>1, <2>1, <2>3
  <2>5. QED
    BY <1>1, <2>3, <2>4 DEF Ahead
<1>8. QED
  BY <1>1, <1>3, <1>4, <1>5, <1>6, <1>7

\* A controller exists from the first turn of a loop to the loop's end.
AbortInv ==
  /\ status = "idle" => abort = 0
  /\ \A m \in Mention : /\ pc[m] = "starting" => abort = 0
                        /\ pc[m] = "turn" => abort # 0

\* A loop that a waiting /stop did not see has its first write behind the /stop's, and
\* no controller before that.  A /stop accepted between two turns has its write behind
\* that of the next turn, whose controller it will find.
StopInv ==
  /\ \A s \in Stop, m \in Mention :
       pc[s] = "stopWriting" /\ InLoop(m) /\ m \notin target[s] =>
         pc[m] = "starting" /\ Ahead(s, m)
  /\ \A m \in Mention :
       pc[m] \in {"starting", "restarting"} /\ status = "stopping" =>
         \E s \in Stop : pc[s] = "stopWriting" /\ Ahead(m, s)
  /\ StoppingTurnIsAborted

LEMMA GotoMoves ==
  ASSUME ControlType, NEW t \in Task, NEW l, Goto(t, l)
  PROVE  Moves(t) /\ pc'[t] = l
BY DEF ControlType, Goto, Moves

LEMMA AbortInvStep ==
  ASSUME "mkdir" \notin Faults, TypeOK, LoopInv, AbortInv, [Next]_vars
  PROVE  AbortInv'
<1> USE TaskFacts DEF TypeOK, MemoryType, LoopInv, OneLoop, AbortInv, InLoop, Moves
<1>1. ASSUME NEW m \in Mention,
             Mentioned(m) \/ QueueMention(m) \/ StartLoop(m) \/ NextTurn(m)
             \/ ClearRecord(m) \/ LeaveLoop(m) \/ Unwind(m) \/ KickoffThrows(m)
      PROVE  AbortInv'
  BY <1>1, GotoMoves
  DEF Mentioned, QueueMention, StartLoop, NextTurn, ClearRecord, LeaveLoop, Unwind,
      KickoffThrows, memory
<1>2. ASSUME NEW m \in Mention, BeginTurn(m) PROVE AbortInv'
  BY <1>2, GotoMoves DEF BeginTurn
<1>3. ASSUME NEW m \in Mention, FinishLoop(m) \/ TurnThrows(m) PROVE AbortInv'
  BY <1>3, GotoMoves DEF FinishLoop, TurnThrows, GoIdle
<1>4. ASSUME NEW m \in Mention, StatusWriteRejected(m) PROVE AbortInv'
  BY <1>4 DEF StatusWriteRejected, WriteRejected
<1>5. ASSUME NEW s \in Stop,
             StopAccepted(s) \/ StopIdle(s) \/ StopStep(s) \/ StopWriteRejected(s)
      PROVE  AbortInv'
  BY <1>5, GotoMoves
  DEF StopAccepted, StopIdle, StopStep, StopFires, StopPosted, StopWriteRejected, memory
<1>6. CASE Crash
  BY <1>6 DEF Crash, GoIdle, Settled
<1>7. CASE Recover \/ UNCHANGED vars
  BY <1>7 DEF Recover, memory, vars
<1>8. QED
  BY <1>1, <1>2, <1>3, <1>4, <1>5, <1>6, <1>7 DEF Next, MentionStep, MentionFault

LEMMA StopInvStep ==
  ASSUME "mkdir" \notin Faults, TypeOK, LoopInv, AbortInv, ChainInv, StopInv, [Next]_vars
  PROVE  ChainInv' /\ StopInv'
<1> USE TaskFacts DEF TypeOK
<1> DEFINE Kept == \A t, u \in Task : Ahead(t, u) => Ahead(t, u)'
<1>1. ASSUME NEW m \in Mention,
             Mentioned(m) \/ QueueMention(m) \/ Unwind(m) \/ KickoffThrows(m)
      PROVE  ChainInv' /\ StopInv'
  <2>1. /\ Moves(m) /\ ~InLoop(m)' /\ pc[m] \notin Waiting /\ pc'[m] \notin Waiting
        /\ UNCHANGED <<lockq, status, abort, fired, target>>
    BY <1>1, GotoMoves
    DEF Mentioned, QueueMention, Unwind, KickoffThrows, memory, InLoop, Waiting
  <2>2. ChainInv' /\ Kept
    BY <2>1, ChainUnmoved
  <2>3. QED
    BY <2>1, <2>2 DEF StopInv, StoppingTurnIsAborted, InLoop, Moves
<1>2. ASSUME NEW m \in Mention, StartLoop(m) PROVE ChainInv' /\ StopInv'
  <2>1. /\ Moves(m) /\ pc'[m] = "starting" /\ pc[m] \notin Waiting
        /\ status' = "running" /\ target' = target
    BY <1>2, GotoMoves DEF StartLoop, Waiting
  <2>2. Awaited([by |-> m, status |-> "running"])'
    BY <2>1 DEF Awaited
  <2>3. ChainInv' /\ Kept /\ \A u \in Task : pc[u] \in Waiting => Ahead(u, m)'
    BY <1>2, <2>1, <2>2, ChainJoined DEF StartLoop, Status
  <2>4. QED
    BY <2>1, <2>3 DEF StopInv, StoppingTurnIsAborted, InLoop, Moves, Waiting
<1>3. ASSUME NEW m \in Mention, BeginTurn(m) PROVE ChainInv' /\ StopInv'
  <2>1. /\ Moves(m) /\ pc'[m] = "turn" /\ pc[m] \in {"starting", "restarting"}
        /\ UNCHANGED <<status, target, fired>>
    BY <1>3, GotoMoves DEF BeginTurn
  <2>2. /\ ChainInv' /\ \A u \in Task : ~Ahead(u, m)
        /\ \A u \in Task \ {m}, v \in Task : Ahead(u, v) => Ahead(u, v)'
    BY <1>3, <2>1, ChainLeft DEF BeginTurn, Written, Waiting
  <2>3. \A n \in Mention \ {m} : ~InLoop(n)
    BY <2>1 DEF LoopInv, OneLoop, InLoop
  <2>4. QED
    BY <2>1, <2>2, <2>3 DEF StopInv, StoppingTurnIsAborted, InLoop, Moves
<1>4. ASSUME NEW m \in Mention, NextTurn(m) PROVE ChainInv' /\ StopInv'
  <2>1. /\ Moves(m) /\ pc[m] = "turn" /\ pc'[m] = "restarting" /\ pc[m] \notin Waiting
        /\ status' = "running" /\ target' = target
    BY <1>4, GotoMoves DEF NextTurn, Waiting
  <2>2. Awaited([by |-> m, status |-> "running"])'
    BY <2>1 DEF Awaited
  <2>3. ChainInv' /\ Kept
    BY <1>4, <2>1, <2>2, ChainJoined DEF NextTurn, Status
  <2>4. QED
    BY <2>1, <2>3 DEF StopInv, StoppingTurnIsAborted, InLoop, Moves
<1>5. ASSUME NEW m \in Mention, FinishLoop(m) \/ TurnThrows(m) PROVE ChainInv' /\ StopInv'
  <2>1. /\ Moves(m) /\ pc[m] = "turn" /\ pc'[m] = "cleaning" /\ lockq' = lockq
        /\ status' = "idle"
    BY <1>5, GotoMoves DEF FinishLoop, TurnThrows, GoIdle
  <2>2. ChainInv'
    BY <2>1, ChainUnmoved DEF Waiting
  <2>3. \A n \in Mention : ~InLoop(n)'
    BY <2>1 DEF LoopInv, OneLoop, InLoop, Moves
  <2>4. QED
    BY <2>1, <2>2, <2>3 DEF StopInv, StoppingTurnIsAborted, InLoop
<1>6. ASSUME NEW m \in Mention, ClearRecord(m) PROVE ChainInv' /\ StopInv'
  <2>1. /\ Moves(m) /\ pc'[m] = "closing" /\ pc[m] \notin Waiting
        /\ UNCHANGED <<status, abort, fired, target>>
    BY <1>6, GotoMoves DEF ClearRecord, Waiting, memory
  <2>2. Awaited([by |-> m, status |-> "idle"])'
    BY <2>1 DEF Awaited
  <2>3. ChainInv' /\ Kept
    BY <1>6, <2>1, <2>2, ChainJoined DEF ClearRecord, Status
  <2>4. QED
    BY <2>1, <2>3 DEF StopInv, StoppingTurnIsAborted, InLoop, Moves
<1>7. ASSUME NEW m \in Mention, LeaveLoop(m) PROVE ChainInv' /\ StopInv'
  <2>1. /\ Moves(m) /\ pc[m] = "closing" /\ pc'[m] \in {"unwinding", "done"}
        /\ UNCHANGED <<status, abort, fired, target>>
    BY <1>7, GotoMoves DEF LeaveLoop
  <2>2. /\ ChainInv'
        /\ \A u \in Task \ {m}, v \in Task : Ahead(u, v) => Ahead(u, v)'
    BY <1>7, <2>1, ChainLeft DEF LeaveLoop, Written, Waiting
  <2>3. QED
    BY <2>1, <2>2 DEF StopInv, StoppingTurnIsAborted, InLoop, Moves
<1>8. ASSUME NEW m \in Mention, StatusWriteRejected(m) PROVE FALSE
  BY <1>8 DEF StatusWriteRejected, WriteRejected
<1>9. ASSUME NEW s \in Stop, StopAccepted(s) PROVE ChainInv' /\ StopInv'
  <2>1. /\ Moves(s) /\ pc'[s] = "stopWriting" /\ pc[s] \notin Waiting
        /\ target' = [target EXCEPT ![s] = Owners] /\ abort # 0
        /\ UNCHANGED <<abort, fired>>
    BY <1>9, GotoMoves DEF StopAccepted, Waiting
  <2>2. Awaited([by |-> s, status |-> "stopping"])'
    BY <2>1 DEF Awaited
  <2>3. ChainInv' /\ Kept /\ \A u \in Task : pc[u] \in Waiting => Ahead(u, s)'
    BY <1>9, <2>1, <2>2, ChainJoined DEF StopAccepted, Status
  <2>4. \A m \in Mention : InLoop(m) => m \in target'[s]
    BY <2>1 DEF Owners, ControlType
  <2>5. \A r \in Stop \ {s} : target'[r] = target[r]
    BY <2>1 DEF ControlType
  <2>6. QED
    BY <2>1, <2>3, <2>4, <2>5 DEF StopInv, StoppingTurnIsAborted, InLoop, Moves, Waiting
<1>10. ASSUME NEW s \in Stop, StopFires(s) PROVE ChainInv' /\ StopInv'
  <2>1. /\ Moves(s) /\ pc[s] = "stopWriting" /\ pc'[s] \in {"done", "failed"}
        /\ UNCHANGED <<status, abort, target>> /\ fired \subseteq fired'
        /\ abort # 0 => abort \in fired'
    BY <1>10, GotoMoves DEF StopFires, memory
  <2>2. /\ ChainInv' /\ \A u \in Task : ~Ahead(u, s)
        /\ \A u \in Task \ {s}, v \in Task : Ahead(u, v) => Ahead(u, v)'
    BY <1>10, <2>1, ChainLeft DEF StopFires, Written, Waiting
  <2>3. QED
    BY <2>1, <2>2 DEF StopInv, AbortInv, StoppingTurnIsAborted, InLoop, Moves
<1>11. ASSUME NEW s \in Stop, StopIdle(s) \/ StopPosted(s) PROVE ChainInv' /\ StopInv'
  <2>1. /\ Moves(s) /\ pc[s] \in {"new", "posting"} /\ pc'[s] \in {"posting", "done"}
        /\ UNCHANGED <<lockq, status, abort, fired, target>>
    BY <1>11, GotoMoves DEF StopIdle, StopPosted, memory
  <2>2. ChainInv' /\ Kept
    BY <2>1, ChainUnmoved DEF Waiting
  <2>3. QED
    BY <2>1, <2>2 DEF StopInv, StoppingTurnIsAborted, InLoop, Moves
<1>12. ASSUME NEW s \in Stop, StopWriteRejected(s) PROVE FALSE
  BY <1>12 DEF StopWriteRejected, WriteRejected
<1>13. CASE Crash
  <2>1. /\ \A t \in Task : pc'[t] \notin Waiting \cup {"turn"}
        /\ lockq' = <<>> /\ status' = "idle"
    BY <1>13 DEF Crash, GoIdle, Settled, Waiting
  <2>2. QED
    BY <2>1 DEF ChainInv, StopInv, StoppingTurnIsAborted, InLoop, Waiting
<1>14. CASE Recover \/ UNCHANGED vars
  <2>1. UNCHANGED <<lockq, pc, status, abort, fired, target>>
    BY <1>14 DEF Recover, memory, vars
  <2>2. QED
    BY <2>1
    DEF ChainInv, Awaited, Chained, StopInv, Ahead, StoppingTurnIsAborted, InLoop
<1>15. QED
  BY <1>1, <1>2, <1>3, <1>4, <1>5, <1>6, <1>7, <1>8, <1>9, <1>10, <1>11, <1>12, <1>13,
     <1>14
  DEF Next, MentionStep, MentionFault, StopStep

\* A /stop aborts only the loop it was accepted for, and a turn that runs on in state
\* stopping is aborted or about to be (signalStop, session.ts:141-154): although the
\* /stop reads the controller again after its write, the chain of writes keeps a loop
\* it did not see from having one by then.  Writes may fail, but not reject.
THEOREM StopsHold ==
  ASSUME "mkdir" \notin Faults
  PROVE  SafeSpec => StopHolds
<1>1. Init => LoopInv /\ AbortInv /\ ChainInv /\ StopInv
  BY TaskFacts
  DEF Init, LoopInv, OneLoop, AbortInv, ChainInv, StopInv, StoppingTurnIsAborted, InLoop,
      Waiting
<1> DEFINE Step == /\ \A s \in Stop : StopFires(s) /\ fired' # fired => Owners \subseteq target[s]
                   /\ StoppingTurnIsAborted'
<1>2. TypeOK /\ LoopInv /\ AbortInv /\ ChainInv /\ StopInv /\ [Next]_vars => Step
  <2> SUFFICES ASSUME TypeOK, LoopInv, AbortInv, ChainInv, StopInv, [Next]_vars PROVE Step
    OBVIOUS
  <2>1. ASSUME NEW s \in Stop, StopFires(s), fired' # fired, NEW m \in Owners
        PROVE  m \in target[s]
    <3>1. pc[s] = "stopWriting" /\ abort # 0
      BY <2>1 DEF StopFires
    <3>2. m \in Mention /\ InLoop(m)
      BY <2>1 DEF Owners
    <3>3. QED
      BY <3>1, <3>2 DEF StopInv, AbortInv
  <2>2. StoppingTurnIsAborted'
    BY StopInvStep DEF StopInv
  <2>3. QED
    BY <2>1, <2>2
<1>3. SafeSpec => [](TypeOK /\ LoopInv /\ AbortInv /\ ChainInv /\ StopInv)
  BY <1>1, LoopInvStep, AbortInvStep, StopInvStep, TypeCorrect, PTL DEF SafeSpec
<1>4. SafeSpec => [][Step]_vars
  BY <1>2, <1>3, PTL DEF SafeSpec
<1>5. QED
  BY <1>4 DEF StopHolds

-----------------------------------------------------------------------------
(* The scheduler implements the ownership promise.                         *)

\* Nothing is queued while nobody runs the loop.
QueueInv == status = "idle" => pending = FALSE

LEMMA QueueInvStep ==
  ASSUME TypeOK, QueueInv, [Next]_vars
  PROVE  QueueInv'
<1> USE DEF QueueInv
<1>1. ASSUME NEW m \in Mention, Mentioned(m) \/ MentionStep(m) PROVE QueueInv'
  BY <1>1
  DEF Mentioned, MentionStep, QueueMention, StartLoop, BeginTurn, NextTurn,
      FinishLoop, ClearRecord, LeaveLoop, Unwind, GoIdle, memory
<1>2. ASSUME NEW m \in Mention, MentionFault(m) PROVE QueueInv'
  BY <1>2
  DEF MentionFault, KickoffThrows, TurnThrows, StatusWriteRejected, GoIdle
<1>3. ASSUME NEW s \in Stop,
             StopAccepted(s) \/ StopIdle(s) \/ StopStep(s) \/ StopWriteRejected(s)
      PROVE  QueueInv'
  BY <1>3
  DEF StopAccepted, StopIdle, StopStep, StopFires, StopPosted,
      StopWriteRejected, memory
<1>4. CASE Crash \/ Recover \/ UNCHANGED vars
  BY <1>4 DEF Crash, Recover, GoIdle, memory, vars
<1>5. QED
  BY <1>1, <1>2, <1>3, <1>4 DEF Next

\* Owner names the handler in the loop, before a step and after it.
LEMMA OwnerIs ==
  ASSUME LoopInv
  PROVE  /\ \A m \in Mention : InLoop(m) => Owner = m
         /\ (\A m \in Mention : ~InLoop(m)) => Owner = NoOwner
BY DEF LoopInv, OneLoop, Owner, Owners

LEMMA OwnerIsNext ==
  ASSUME LoopInv'
  PROVE  /\ \A m \in Mention : InLoop(m)' => Owner' = m
         /\ (\A m \in Mention : ~InLoop(m)') => Owner' = NoOwner
BY DEF LoopInv, OneLoop, Owner, Owners

LEMMA OwnerStays ==
  ASSUME LoopInv, LoopInv', \A m \in Mention : InLoop(m)' <=> InLoop(m)
  PROVE  Owner' = Owner
BY OwnerIs, OwnerIsNext

LEMMA OwnershipStep ==
  ASSUME "mkdir" \notin Faults, TypeOK, LoopInv, LoopInv', OwnedInv, QueueInv,
         [Next]_vars
  PROVE  [Ownership!Next]_(Ownership!vars)
<1> USE TaskFacts DEF TypeOK, Ownership!Next, Ownership!vars
<1>1. ASSUME NEW m \in Mention,
             Mentioned(m) \/ KickoffThrows(m) \/ ClearRecord(m) \/ Unwind(m)
             \/ LeaveLoop(m) \/ BeginTurn(m)
      PROVE  UNCHANGED Ownership!vars
  <2> USE <1>1 DEF Mentioned, KickoffThrows, ClearRecord, Unwind, LeaveLoop,
        BeginTurn
  <2>1. \A n \in Mention : InLoop(n)' <=> InLoop(n)
    BY GotoType DEF InLoop, Control
  <2>2. Failed' = Failed
    BY GotoType DEF Failed, Control
  <2>3. pending' = pending
    BY DEF memory
  <2>4. QED
    BY <2>1, <2>2, <2>3, OwnerStays
<1>2. ASSUME NEW m \in Mention, QueueMention(m) PROVE Ownership!Fold
  <2>1. \A n \in Mention : InLoop(n)' <=> InLoop(n)
    BY <1>2, GotoType DEF QueueMention, InLoop, Control
  <2>2. Failed' = Failed
    BY <1>2, GotoType DEF QueueMention, Failed, Control
  <2>3. Owner # NoOwner
    BY <1>2, OwnerIs, OwnerAssumption DEF QueueMention, OwnedInv
  <2>4. QED
    BY <1>2, <2>1, <2>2, <2>3, OwnerStays DEF QueueMention, Ownership!Fold
<1>3. ASSUME NEW m \in Mention, StartLoop(m) PROVE Ownership!Claim(m)
  <2>1. Failed' = Failed
    BY <1>3, GotoType DEF StartLoop, Failed, Control
  <2>2. Owner = NoOwner
    BY <1>3, OwnerIs DEF StartLoop, LoopInv
  <2>3. Owner' = m
    BY <1>3, GotoType, OwnerIsNext DEF StartLoop, InLoop, Control
  <2>4. QED
    BY <1>3, <2>1, <2>2, <2>3 DEF StartLoop, Ownership!Claim
<1>4. ASSUME NEW m \in Mention, NextTurn(m) PROVE Ownership!Drain
  <2>1. \A n \in Mention : InLoop(n)' <=> InLoop(n)
    BY <1>4, GotoType DEF NextTurn, InLoop, Control
  <2>2. Failed' = Failed
    BY <1>4, GotoType DEF NextTurn, Failed, Control
  <2>3. Owner # NoOwner
    BY <1>4, OwnerIs, OwnerAssumption DEF NextTurn, InLoop
  <2>4. QED
    BY <1>4, <2>1, <2>2, <2>3, OwnerStays DEF NextTurn, Ownership!Drain
<1>5. ASSUME NEW m \in Mention, FinishLoop(m) PROVE Ownership!Release
  <2>1. Failed' = Failed
    BY <1>5, GotoType DEF FinishLoop, Failed, Control
  <2>2. Owner # NoOwner
    BY <1>5, OwnerIs, OwnerAssumption DEF FinishLoop, InLoop
  <2>3. Owner' = NoOwner
    BY <1>5, GotoType, OwnerIsNext
    DEF FinishLoop, LoopInv, OneLoop, InLoop, Control
  <2>4. QED
    BY <1>5, <2>1, <2>2, <2>3
    DEF FinishLoop, GoIdle, FlagsType, Ownership!Release
<1>6. ASSUME NEW m \in Mention, TurnThrows(m) PROVE Ownership!Fail
  <2>1. Failed' = TRUE
    BY <1>6 DEF TurnThrows, Failed
  <2>2. Owner' = NoOwner
    BY <1>6, GotoType, OwnerIsNext
    DEF TurnThrows, LoopInv, OneLoop, InLoop, Control
  <2>3. QED
    BY <1>6, <2>1, <2>2 DEF TurnThrows, GoIdle, Ownership!Fail
<1>7. ASSUME NEW m \in Mention, StatusWriteRejected(m) PROVE FALSE
  BY <1>7 DEF StatusWriteRejected, WriteRejected
<1>8. ASSUME NEW s \in Stop, StopAccepted(s) PROVE Ownership!Drain
  <2>1. \A n \in Mention : InLoop(n)' <=> InLoop(n)
    BY <1>8, GotoType DEF StopAccepted, InLoop, Control
  <2>2. Failed' = Failed
    BY <1>8, GotoType DEF StopAccepted, Failed, Control
  <2>3. Owner # NoOwner
    BY <1>8, OwnerIs, OwnerAssumption DEF StopAccepted, OwnedInv
  <2>4. QED
    BY <1>8, <2>1, <2>2, <2>3, OwnerStays DEF StopAccepted, Ownership!Drain
<1>9. ASSUME NEW s \in Stop,
             StopIdle(s) \/ StopFires(s) \/ StopPosted(s) \/ StopWriteRejected(s)
      PROVE  UNCHANGED Ownership!vars
  <2> USE <1>9 DEF StopIdle, StopFires, StopPosted, StopWriteRejected
  <2>1. \A n \in Mention : InLoop(n)' <=> InLoop(n)
    BY GotoType DEF InLoop, Control
  <2>2. Failed' = Failed
    BY GotoType DEF Failed, Control
  <2>3. pending' = pending
    BY DEF memory
  <2>4. QED
    BY <2>1, <2>2, <2>3, OwnerStays
<1>10. CASE Crash
  <2>1. \A n \in Mention : ~InLoop(n)'
    BY <1>10 DEF Crash, InLoop, Settled
  <2>2. Owner' = NoOwner
    BY <2>1, OwnerIsNext
  <2>3. CASE \A t \in Task : Settled(t)
    <3>1. \A n \in Mention : ~InLoop(n)
      BY <2>3 DEF Settled, InLoop
    <3>2. Owner = NoOwner /\ pending = FALSE
      BY <3>1, OwnerIs DEF OwnedInv, QueueInv
    <3>3. Failed' = Failed
      BY <1>10, <2>3 DEF Crash, Failed, ControlType
    <3>4. QED
      BY <1>10, <2>2, <3>2, <3>3 DEF Crash, GoIdle
  <2>4. CASE ~\A t \in Task : Settled(t)
    <3>1. Failed' = TRUE
      BY <1>10, <2>4 DEF Crash, Failed, ControlType
    <3>2. QED
      BY <1>10, <2>2, <3>1 DEF Crash, GoIdle, Ownership!Fail
  <2>5. QED
    BY <2>3, <2>4
<1>11. CASE Recover \/ UNCHANGED vars
  <2>1. pc' = pc /\ threw' = threw /\ pending' = pending
    BY <1>11 DEF Recover, memory, vars
  <2>2. Owner' = Owner
    BY <2>1, OwnerStays DEF InLoop
  <2>3. QED
    BY <2>1, <2>2 DEF Failed
<1>12. QED
  BY <1>1, <1>2, <1>3, <1>4, <1>5, <1>6, <1>7, <1>8, <1>9, <1>10, <1>11
  DEF Next, MentionStep, MentionFault, StopStep

\* As long as a status write cannot reject, the awaits, the flags and the lock
\* of startOrQueue and signalStop implement the ownership promise: claim, fold,
\* drain and release, and only a failure gives up a loop with mentions queued.
THEOREM SchedulerImplementsOwnership ==
  ASSUME "mkdir" \notin Faults
  PROVE  SafeSpec => Ownership!SafeSpec
<1>1. Init => LoopInv /\ OwnedInv /\ QueueInv
  BY TaskFacts DEF Init, LoopInv, OneLoop, OwnedInv, QueueInv, InLoop
<1>2. Init => Ownership!Init
  BY TaskFacts DEF Init, Ownership!Init, Owner, Owners, InLoop, Failed
<1>3. QED
  BY <1>1, <1>2, LoopInvStep, OwnedInvStep, QueueInvStep, OwnershipStep,
     TypeCorrect, PTL
  DEF SafeSpec, Ownership!SafeSpec

\* The behaviours of a disk that takes every status write, which the run
\* SessionSafety checks, are among those the theorems above are about.
COROLLARY SteadyIsSafe == SteadySpec => SafeSpec
<1>1. SteadyNext => Next
  BY DEF SteadyNext, Next, MentionFault
<1>2. QED
  BY <1>1, PTL DEF SteadySpec, SafeSpec

-----------------------------------------------------------------------------
(* Reactions: what its steps do to the session.  It only adds steps of     *)
(* Slack, so what is shown above about a step of Session holds for it.     *)

SlackType ==
  /\ adding \subseteq Mention /\ shown \subseteq Mention
  /\ overtaken \subseteq Mention /\ refused \subseteq Mention
  /\ removing \in [Mention -> SUBSET Mention]

\* A step of the composition is a step of the session, or leaves it alone.
LEMMA SessionSteps ==
  ASSUME [ReactionsNext]_allVars
  PROVE  [Next]_vars /\ up' = up
<1>1. ASSUME NEW m \in Mention, MentionReacts(m) PROVE Next /\ up' = up
  <2>1. Mentioned(m) \/ MentionStep(m) \/ MentionFault(m)
    BY <1>1 DEF MentionReacts, MarkThinking, ClearThinkingDone, MentionStep, MentionFault
  <2>2. up' = up
    BY <2>1
    DEF Mentioned, MentionStep, MentionFault, QueueMention, StartLoop, BeginTurn, NextTurn,
        FinishLoop, ClearRecord, LeaveLoop, Unwind, KickoffThrows, TurnThrows,
        StatusWriteRejected
  <2>3. QED
    BY <2>1, <2>2 DEF Next
<1>2. ASSUME NEW m \in Mention, SlackAdds(m) PROVE UNCHANGED vars /\ up' = up
  BY <1>2 DEF SlackAdds, vars
<1>3. ASSUME NEW m \in Mention, NEW r \in Mention, SlackRemoves(m, r) \/ SlackRefuses(m, r)
      PROVE  UNCHANGED vars /\ up' = up
  BY <1>3 DEF SlackRemoves, SlackRefuses, vars
<1>4. ASSUME NEW s \in Stop,
             StopAccepted(s) \/ StopIdle(s) \/ StopStep(s) \/ StopWriteRejected(s)
      PROVE  Next /\ up' = up
  BY <1>4
  DEF Next, StopAccepted, StopIdle, StopStep, StopFires, StopPosted, StopWriteRejected
<1>5. ASSUME UNCHANGED allVars PROVE UNCHANGED vars /\ up' = up
  BY <1>5 DEF allVars, vars
<1>6. QED
  BY <1>1, <1>2, <1>3, <1>4, <1>5 DEF ReactionsNext

LEMMA SlackTypeStep ==
  ASSUME TypeOK, SlackType, [ReactionsNext]_allVars
  PROVE  SlackType'
<1> USE DEF SlackType
<1>1. thinking \subseteq Mention
  BY DEF TypeOK, MemoryType
<1>2. ASSUME NEW m \in Mention, MentionReacts(m) PROVE SlackType'
  BY <1>1, <1>2 DEF MentionReacts, MarkThinking, ClearThinkingDone, Detach, slack
<1>3. ASSUME NEW m \in Mention, SlackAdds(m) PROVE SlackType'
  BY <1>3 DEF SlackAdds
<1>4. ASSUME NEW m \in Mention, NEW r \in Mention, SlackRemoves(m, r) \/ SlackRefuses(m, r)
      PROVE  SlackType'
  BY <1>4 DEF SlackRemoves, SlackRefuses
<1>5. CASE UNCHANGED slack
  BY <1>5 DEF slack
<1>6. QED
  BY <1>2, <1>3, <1>4, <1>5 DEF ReactionsNext, allVars

-----------------------------------------------------------------------------
(* What the session's list keeps.                                          *)

\* While no turn is under way the list holds only mentions on their way to
\* startOrQueue: whoever resets the status empties the list in the same step.
ThinkingInv == status = "idle" => \A r \in thinking : pc[r] = "resolving"

LEMMA ThinkingInvStep ==
  ASSUME TypeOK, LoopInv, ThinkingInv, [Next]_vars, up' = up, up
  PROVE  ThinkingInv'
<1> USE TaskFacts DEF TypeOK, MemoryType, ThinkingInv
<1>1. ASSUME NEW m \in Mention, Mentioned(m) PROVE ThinkingInv'
  BY <1>1, GotoType DEF Mentioned, Control
<1>2. ASSUME NEW m \in Mention, QueueMention(m) \/ StartLoop(m) \/ NextTurn(m)
      PROVE  ThinkingInv'
  BY <1>2 DEF QueueMention, StartLoop, NextTurn
<1>3. ASSUME NEW m \in Mention,
             BeginTurn(m) \/ ClearRecord(m) \/ LeaveLoop(m) \/ Unwind(m)
      PROVE  ThinkingInv'
  BY <1>3, GotoType DEF BeginTurn, ClearRecord, LeaveLoop, Unwind, Control, memory
<1>4. ASSUME NEW m \in Mention, FinishLoop(m) \/ MentionFault(m)
      PROVE  ThinkingInv'
  BY <1>4
  DEF FinishLoop, MentionFault, KickoffThrows, TurnThrows, StatusWriteRejected, GoIdle
<1>5. ASSUME NEW s \in Stop,
             StopAccepted(s) \/ StopIdle(s) \/ StopStep(s) \/ StopWriteRejected(s)
      PROVE  ThinkingInv'
  BY <1>5, GotoType
  DEF StopAccepted, StopIdle, StopStep, StopFires, StopPosted, StopWriteRejected,
      Control, memory
<1>6. CASE UNCHANGED vars
  BY <1>6 DEF vars
<1>7. QED
  BY <1>1, <1>2, <1>3, <1>4, <1>5, <1>6 DEF Next, MentionStep, Crash, Recover

-----------------------------------------------------------------------------
(* What Slack is still asked to do.                                        *)

LEMMA TrackedStep ==
  ASSUME SlackType, ReactionTracked, [ReactionsNext]_allVars
  PROVE  ReactionTracked'
<1> USE DEF SlackType, ReactionTracked, Beyond
<1>1. ASSUME NEW m \in Mention, MarkThinking(m) PROVE ReactionTracked'
  BY <1>1 DEF MarkThinking, Mentioned
<1>2. ASSUME NEW m \in Mention, Detach(m), UNCHANGED <<adding, shown, overtaken, refused>>
      PROVE  ReactionTracked'
  <2> SUFFICES ASSUME NEW r \in shown \cup adding, r \notin thinking' \cup Beyond
               PROVE  \E n \in Mention : r \in removing'[n]
    BY <1>2
  <2>1. CASE r \in thinking
    BY <1>2, <2>1 DEF Detach
  <2>2. CASE r \notin thinking
    <3>1. PICK n \in Mention : r \in removing[n]
      BY <2>2
    <3>2. r \in removing'[n]
      BY <1>2, <3>1 DEF Detach
    <3>3. QED
      BY <3>2
  <2>3. QED
    BY <2>1, <2>2
<1>3. ASSUME UNCHANGED slack, UNCHANGED thinking PROVE ReactionTracked'
  BY <1>3 DEF slack
<1>4. ASSUME NEW m \in Mention, MentionReacts(m) PROVE ReactionTracked'
  <2>1. ASSUME ClearThinkingDone(m) \/ QueueMention(m) \/ StartLoop(m)
                 \/ BeginTurn(m) \/ NextTurn(m)
        PROVE  UNCHANGED thinking
    BY <2>1
    DEF ClearThinkingDone, ClearRecord, Unwind, QueueMention, StartLoop, BeginTurn,
        NextTurn, memory
  <2>2. QED
    BY <1>1, <1>2, <1>3, <1>4, <2>1 DEF MentionReacts
<1>5. ASSUME NEW m \in Mention, SlackAdds(m) PROVE ReactionTracked'
  BY <1>5 DEF SlackAdds, vars
<1>6. ASSUME NEW m \in Mention, NEW q \in Mention, SlackRemoves(m, q) \/ SlackRefuses(m, q)
      PROVE  ReactionTracked'
  <2> SUFFICES ASSUME NEW r \in shown' \cup adding', r \notin thinking' \cup Beyond'
               PROVE  \E n \in Mention : r \in removing'[n]
    OBVIOUS
  <2>1. r # q /\ r \in shown \cup adding /\ r \notin thinking \cup Beyond
    BY <1>6 DEF SlackRemoves, SlackRefuses, vars
  <2>2. PICK n \in Mention : r \in removing[n]
    BY <2>1
  <2>3. r \in removing'[n]
    BY <1>6, <2>1, <2>2 DEF SlackRemoves, SlackRefuses
  <2>4. QED
    BY <2>3
<1>7. ASSUME NEW s \in Stop,
             StopAccepted(s) \/ StopIdle(s) \/ StopStep(s) \/ StopWriteRejected(s)
      PROVE  UNCHANGED thinking
  BY <1>7
  DEF StopAccepted, StopIdle, StopStep, StopFires, StopPosted, StopWriteRejected, memory
<1>8. CASE UNCHANGED allVars
  BY <1>3, <1>8 DEF allVars, vars
<1>9. QED
  BY <1>3, <1>4, <1>5, <1>6, <1>7, <1>8 DEF ReactionsNext

\* No reaction is lost sight of: what Slack shows or is about to show is on the
\* session's list, being removed, was overtaken by its own removal, or Slack has
\* refused to remove it; and once the handlers have returned nothing else is left (session.ts markThinking and
\* clearThinking, handler.ts).  Every failure is allowed, a rejected status write
\* included; only the process must live.
THEOREM ReactionsAreAccounted == ReactionsSafeSpec => []ReactionsAccounted
<1> DEFINE Inv == /\ TypeOK /\ LoopInv /\ SlackType
                  /\ up /\ ThinkingInv /\ ReactionTracked
<1>1. ReactionsInit => Inv
  <2>1. Init => TypeOK /\ LoopInv /\ up /\ ThinkingInv
    BY TypeInit, TaskFacts DEF Init, LoopInv, OneLoop, InLoop, ThinkingInv
  <2>2. ReactionsInit => SlackType /\ ReactionTracked
    BY DEF ReactionsInit, SlackType, ReactionTracked, Beyond
  <2>3. QED
    BY <2>1, <2>2 DEF ReactionsInit
<1>2. Inv /\ [ReactionsNext]_allVars => Inv'
  <2> SUFFICES ASSUME Inv, [ReactionsNext]_allVars PROVE Inv'
    OBVIOUS
  <2>1. [Next]_vars /\ up' = up
    BY SessionSteps
  <2>2. TypeOK'
    BY <2>1, TypeStep
  <2>3. LoopInv'
    BY <2>1, LoopInvStep
  <2>4. ThinkingInv' /\ up'
    BY <2>1, ThinkingInvStep
  <2>5. SlackType' /\ ReactionTracked'
    BY SlackTypeStep, TrackedStep
  <2>6. QED
    BY <2>2, <2>3, <2>4, <2>5
<1>3. Inv => ReactionsAccounted
  <2> SUFFICES ASSUME Inv PROVE ReactionsAccounted
    OBVIOUS
  <2>1. ASSUME \A m \in Mention : Settled(m), NothingInFlight, ~PhantomTurn
        PROVE  shown \subseteq Beyond
    <3>1. Owners = {}
      BY <2>1 DEF Owners, InLoop, Settled
    <3>2. status = "idle"
      BY <2>1, <3>1 DEF PhantomTurn
    <3>3. thinking = {}
      BY <2>1, <3>2 DEF ThinkingInv, Settled, TypeOK, MemoryType
    <3>4. QED
      BY <2>1, <3>3 DEF NothingInFlight, ReactionTracked
  <2>2. QED
    BY <2>1 DEF ReactionsAccounted, NoOrphanReaction
<1>4. QED
  BY <1>1, <1>2, <1>3, PTL DEF ReactionsSafeSpec

-----------------------------------------------------------------------------
(* Conversation: no turn starts without a prompt.                          *)

\* The last of finitely many positions.
LEMMA LastOf ==
  ASSUME NEW n \in Nat, NEW T, T \subseteq 1 .. n, T # {}
  PROVE  \E i \in T : \A j \in T : j <= i
<1> DEFINE D == {n - i : i \in T}
           R == OpToRel(<, Nat)
<1>1. D \subseteq Nat /\ D # {}
  <2>1. \A i \in T : i \in Nat /\ n - i \in Nat
    OBVIOUS
  <2>2. PICK i \in T : TRUE
    OBVIOUS
  <2>3. QED
    BY <2>1, <2>2
<1>2. IsWellFoundedOn(R, Nat)
  BY NatLessThanWellFounded
<1>3. \A a, b \in Nat : a < b => <<a, b>> \in R
  BY DEF OpToRel
<1> HIDE DEF R
<1>4. PICK d \in D : \A e \in D : ~(<<e, d>> \in R)
  BY <1>1, <1>2, WFMin
<1>5. PICK i \in T : d = n - i
  OBVIOUS
<1>6. ASSUME NEW j \in T PROVE j <= i
  <2>1. n - j \in D /\ n - j \in Nat /\ d \in Nat
    BY <1>1
  <2>2. ~(n - j < d)
    BY <1>3, <1>4, <2>1
  <2>3. QED
    BY <1>5, <2>1, <2>2
<1>7. QED
  BY <1>6

\* collectUserTurn finds something wherever there is a message with text: the trailing
\* ones with content, or else the last one with text.
LEMMA CollectFinds ==
  ASSUME NEW l \in Seq(Message \cup {Reply}), NEW k \in 1 .. Len(l), l[k] \in Text
  PROVE  CollectUserTurn(l) # {}
<1> DEFINE trailing == CollectTrailing(l)
           users == {i \in DOMAIN l : l[i] \in Text}
<1>1. Len(l) \in Nat /\ DOMAIN l = 1 .. Len(l)
  OBVIOUS
<1>2. users \subseteq 1 .. Len(l) /\ users # {}
  BY <1>1
<1>3. PICK i \in users : \A j \in users : j <= i
  BY <1>1, <1>2, LastOf
<1>4. {l[n] : n \in {j \in users : \A m \in users : m <= j}} # {}
  BY <1>3
<1>5. CollectUserTurn(l) = IF trailing # {} THEN trailing
                           ELSE {l[n] : n \in {j \in users : \A m \in users : m <= j}}
  BY DEF CollectUserTurn
<1>6. QED
  BY <1>4, <1>5

ConvType ==
  /\ log \in Seq(Message \cup {Reply})
  /\ dpc \in [Delete \cup Plain -> {"new", "tearing", "done"}]

\* A message that has arrived is in the log until a /delete.
Logged(x) == \E i \in 1 .. Len(log) : log[i] = x
LoggedInv ==
  (\A d \in Delete : dpc[d] # "done") =>
    /\ \A m \in Mention : pc[m] # "new" => Logged(m)
    /\ \A p \in Plain : dpc[p] = "done" => Logged(p)

LEMMA RecordFacts ==
  ASSUME ConvType, NEW x \in Message \cup {Reply}, Record(x)
  PROVE  /\ log' \in Seq(Message \cup {Reply})
         /\ Logged(x)' /\ \A y : Logged(y) => Logged(y)'
<1>1. /\ log' \in Seq(Message \cup {Reply}) /\ Len(log) \in Nat /\ Len(log') = Len(log) + 1
      /\ log'[Len(log) + 1] = x
      /\ \A i \in 1 .. Len(log) : log'[i] = log[i]
  BY AppendProperties DEF ConvType, Record
<1>2. Logged(x)'
  <2>1. Len(log) + 1 \in 1 .. Len(log')
    BY <1>1
  <2>2. QED
    BY <1>1, <2>1 DEF Logged
<1>3. ASSUME NEW y, Logged(y) PROVE Logged(y)'
  <2>1. PICK i \in 1 .. Len(log) : log[i] = y
    BY <1>3 DEF Logged
  <2>2. i \in 1 .. Len(log') /\ log'[i] = y
    BY <1>1, <2>1
  <2>3. QED
    BY <2>2 DEF Logged
<1>4. QED
  BY <1>1, <1>2, <1>3

\* Only Mentioned takes a handler out of "new".
LEMMA NewHandlers ==
  ASSUME ControlType, NEW m \in Mention,
         \/ BeginTurn(m) \/ NextTurn(m) \/ FinishLoop(m) \/ TurnThrows(m) \/ QueueMention(m)
         \/ StartLoop(m) \/ ClearRecord(m) \/ LeaveLoop(m) \/ Unwind(m) \/ KickoffThrows(m)
  PROVE  Next /\ \A n \in Mention : pc[n] = "new" => pc'[n] = "new"
<1>1. Next
  BY DEF Next, MentionStep, MentionFault
<1>2. pc[m] # "new" /\ \E l : Goto(m, l)
  BY DEF BeginTurn, NextTurn, FinishLoop, TurnThrows, QueueMention, StartLoop, ClearRecord,
         LeaveLoop, Unwind, KickoffThrows
<1>3. QED
  BY <1>1, <1>2 DEF Goto, ControlType

\* The handlers' steps never touch the log; a /delete empties it and says so.
LEMMA ConvStep ==
  ASSUME TypeOK, ConvType, LoggedInv, [ConvNext]_cvars
  PROVE  TypeOK' /\ ConvType' /\ LoggedInv'
<1> USE DEF LoggedInv
<1>1. ASSUME NEW m \in Mention, ConvMentioned(m) PROVE TypeOK' /\ ConvType' /\ LoggedInv'
  <2>1. TypeOK'
    BY <1>1, TypeStep DEF ConvMentioned, Next
  <2>2. \A n \in Mention \ {m} : pc'[n] = pc[n]
    BY <1>1 DEF ConvMentioned, Mentioned, Goto, TypeOK, ControlType
  <2>3. ConvType' /\ Logged(m)' /\ \A y : Logged(y) => Logged(y)'
    BY <1>1, RecordFacts DEF ConvMentioned, ConvType, Message
  <2>4. dpc' = dpc
    BY <1>1 DEF ConvMentioned
  <2>5. QED
    BY <2>1, <2>2, <2>3, <2>4
<1>2. ASSUME NEW m \in Mention, ConvBeginTurn(m) \/ ConvEndTurn(m) \/ ConvOther(m)
      PROVE  TypeOK' /\ ConvType' /\ LoggedInv'
  <2>1. Next /\ \A n \in Mention : pc[n] = "new" => pc'[n] = "new"
    BY <1>2, NewHandlers DEF ConvBeginTurn, ConvEndTurn, ConvOther, TypeOK
  <2>2. UNCHANGED <<log, dpc>>
    BY <1>2 DEF ConvBeginTurn, ConvEndTurn, ConvOther, convo
  <2>3. QED
    BY <2>1, <2>2, TypeStep DEF ConvType, Logged
<1>3. ASSUME NEW m \in Mention, Collect(m) \/ TurnRecords(m)
      PROVE  TypeOK' /\ ConvType' /\ LoggedInv'
  <2>1. UNCHANGED vars /\ UNCHANGED dpc
    BY <1>3 DEF Collect, TurnRecords
  <2>2. TypeOK' /\ pc' = pc
    BY <2>1, TypeStep DEF vars
  <2>3. log' \in Seq(Message \cup {Reply}) /\ \A y : Logged(y) => Logged(y)'
    <3>1. CASE Collect(m)
      BY <3>1 DEF Collect, ConvType, Logged
    <3>2. CASE TurnRecords(m)
      BY <3>2, RecordFacts DEF TurnRecords
    <3>3. QED
      BY <1>3, <3>1, <3>2
  <2>4. QED
    BY <2>1, <2>2, <2>3 DEF ConvType
<1>4. ASSUME NEW s \in Stop, ConvStop(s) PROVE TypeOK' /\ ConvType' /\ LoggedInv'
  <2>1. Next /\ UNCHANGED <<log, dpc>>
    BY <1>4 DEF ConvStop, Next, convo
  <2>2. \A n \in Mention : pc'[n] = pc[n]
    BY <1>4, TaskFacts
    DEF ConvStop, StopAccepted, StopIdle, StopStep, StopFires, StopPosted, Goto, TypeOK,
        ControlType
  <2>3. QED
    BY <2>1, <2>2, TypeStep DEF ConvType, Logged
<1>5. ASSUME NEW p \in Plain, PlainArrives(p) PROVE TypeOK' /\ ConvType' /\ LoggedInv'
  <2>1. UNCHANGED vars /\ dpc' = [dpc EXCEPT ![p] = "done"]
    BY <1>5 DEF PlainArrives
  <2>2. TypeOK' /\ pc' = pc
    BY <2>1, TypeStep DEF vars
  <2>3. log' \in Seq(Message \cup {Reply}) /\ \A y : Logged(y) => Logged(y)'
    BY <1>5, RecordFacts DEF PlainArrives, Message
  <2>4. /\ \A d \in Delete : dpc'[d] = dpc[d]
        /\ \A q \in Plain \ {p} : dpc'[q] = dpc[q]
    BY <2>1, ConversationAssumption DEF ConvType
  <2>5. Logged(p)'
    BY <1>5, RecordFacts DEF PlainArrives, Message
  <2>6. QED
    BY <2>1, <2>2, <2>3, <2>4, <2>5 DEF ConvType
<1>6. ASSUME NEW d \in Delete, DeleteArrives(d) PROVE TypeOK' /\ ConvType' /\ LoggedInv'
  <2>1. UNCHANGED vars /\ log' = log /\ dpc' = [dpc EXCEPT ![d] = "tearing"] /\ dpc[d] = "new"
    BY <1>6 DEF DeleteArrives
  <2>2. TypeOK' /\ pc' = pc
    BY <2>1, TypeStep DEF vars
  <2>3. /\ \A e \in Delete : dpc[e] = "done" => dpc'[e] = "done"
        /\ \A q \in Plain : dpc'[q] = dpc[q]
    BY <2>1, ConversationAssumption DEF ConvType
  <2>4. QED
    BY <2>1, <2>2, <2>3 DEF ConvType, Logged
<1>7. ASSUME NEW d \in Delete, DeleteRemoves(d) PROVE TypeOK' /\ ConvType' /\ LoggedInv'
  <2>1. dpc'[d] = "done" /\ ConvType'
    BY <1>7 DEF DeleteRemoves, ConvType
  <2>2. TypeOK'
    BY <1>7
    DEF DeleteRemoves, memory, TypeOK, FlagsType, MemoryType, StoreType, ControlType, Status
  <2>3. QED
    BY <2>1, <2>2
<1>8. CASE UNCHANGED cvars
  <2>1. TypeOK'
    BY <1>8, TypeStep DEF cvars
  <2>2. UNCHANGED <<pc, log, dpc>>
    BY <1>8 DEF cvars, vars, convo
  <2>3. QED
    BY <2>1, <2>2 DEF ConvType, Logged
<1>9. QED
  BY <1>1, <1>2, <1>3, <1>4, <1>5, <1>6, <1>7, <1>8 DEF ConvNext

\* Once somebody has written text in a thread, no turn starts with the "(no user
\* message)" placeholder unless a /delete has taken the log away: messages are recorded
\* before any handler commits to a turn (handler.ts:93-95, sdk-turn.ts:93), and
\* collectUserTurn finds what is new or falls back to the last text.
THEOREM PromptIsNeverEmpty == ConvSafeSpec => []PromptNotEmpty
<1>1. ConvInit => TypeOK /\ ConvType /\ LoggedInv
  BY TypeInit, TaskFacts DEF ConvInit, Init, ConvType, LoggedInv
<1>2. TypeOK /\ ConvType /\ LoggedInv => PromptNotEmpty
  <2> SUFFICES ASSUME TypeOK, ConvType, LoggedInv, \A d \in Delete : dpc[d] # "done",
                      NEW x \in Text, Arrived(x)
               PROVE  CollectUserTurn(log) # {}
    BY DEF PromptNotEmpty
  <2>1. PICK i \in 1 .. Len(log) : log[i] = x
    BY DEF LoggedInv, Logged, Arrived, Text, Message
  <2>2. QED
    BY <2>1, CollectFinds DEF ConvType
<1>3. QED
  BY <1>1, <1>2, ConvStep, PTL DEF ConvSafeSpec
=============================================================================
