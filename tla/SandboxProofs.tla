---------------------------- MODULE SandboxProofs ----------------------------
(***************************************************************************)
(* Theorems about Sandbox for any number of ensures, boxes, volumes and    *)
(* mishaps and any choice of providers.                                    *)
(***************************************************************************)
EXTENDS Sandbox, TLAPS

Rec == [prov : Provider, id : Nat, tok : Nat, vol : Nat]
Box == [prov : Provider, id : Nat, st : {"booting", "up", "dead"}, tok : Nat, vol : Nat]
Vol == [prov : Provider, id : Nat]
OpStates == {"idle", "image", "inspect", "load", "clear", "fresh", "verify", "adopt", "reattach",
             "probe", "resave", "volume", "create", "running", "health", "save"}
OpRec == [pc : OpStates, p : Rec \cup {None}, id : Nat, tok : Nat, vol : Nat]
RmRec == [pc : {"idle", "load", "clear", "rm", "vol"}, wipe : BOOLEAN,
          p : Rec \cup {None}, s : Rec \cup {None}, known : SUBSET Nat]

SandboxType ==
  /\ provider \in Provider /\ made \in Nat
  /\ mem \in Rec \cup {None} /\ disk \in Rec \cup {None}
  /\ boxes \subseteq Box /\ vols \subseteq Vol
  /\ inFlight \in Op \cup {None} /\ op \in [Op -> OpRec] /\ ensured \in BOOLEAN
  /\ ep # None => ep \in [p : Rec, pc : {"verify", "clear"}]
  /\ rm \in RmRec

-----------------------------------------------------------------------------
(* Types.                                                                  *)

LEMMA Blank == NoOp \in OpRec /\ NoRemove \in RmRec
<1>1. NoOp \in OpRec
  BY DEF NoOp, OpRec, OpStates
<1>2. NoRemove \in RmRec
  BY DEF NoRemove, RmRec
<1>3. QED
  BY <1>1, <1>2

LEMMA TypeInit == Init => SandboxType
<1> SUFFICES ASSUME Init PROVE SandboxType
  OBVIOUS
<1>1. op \in [Op -> OpRec] /\ rm \in RmRec
  BY Blank DEF Init
<1>2. ensured \in BOOLEAN
  BY DEF Init
<1>3. QED
  BY <1>1, <1>2 DEF Init, SandboxType

\* The steps of one ensure by what they do to its control.
LEMMA OpTypes ==
  ASSUME SandboxType, NEW o \in Op
  PROVE  /\ op[o] \in OpRec /\ op[o].p \in Rec \cup {None} /\ op[o].vol \in Nat
         /\ \A l \in OpStates : Goto(o, l) => op' \in [Op -> OpRec]
         /\ Settle(o) => op' \in [Op -> OpRec] /\ inFlight' \in Op \cup {None}
         /\ InHand(o) \in Rec
         /\ \A id \in Nat : Token(o, id) \in Nat
<1>1. op[o] \in OpRec
  BY DEF SandboxType
<1>2. ASSUME NEW l \in OpStates, Goto(o, l) PROVE op' \in [Op -> OpRec]
  <2>1. [op[o] EXCEPT !.pc = l] \in OpRec
    BY <1>1 DEF OpRec
  <2>2. QED
    BY <1>2, <2>1 DEF Goto, SandboxType
<1>3. ASSUME Settle(o) PROVE op' \in [Op -> OpRec] /\ inFlight' \in Op \cup {None}
  <2>1. NoOp \in OpRec
    BY DEF NoOp, OpRec, OpStates
  <2>2. QED
    BY <1>3, <2>1 DEF Settle, SandboxType
<1>4. InHand(o) \in Rec
  BY <1>1 DEF InHand, Record, Rec, OpRec, SandboxType
<1>5. ASSUME NEW id \in Nat PROVE Token(o, id) \in Nat
  BY <1>1 DEF Token, OpRec, Rec
<1>6. QED
  BY <1>1, <1>2, <1>3, <1>4, <1>5 DEF OpRec

LEMMA TypeStarts ==
  ASSUME SandboxType, NEW o \in Op, NEW vol \in Nat, NEW l \in OpStates, StartsBox(o, vol, l)
  PROVE  made' \in Nat /\ boxes' \subseteq Box /\ op' \in [Op -> OpRec]
<1>1. made' = made + 1 /\ made' \in Nat
  BY DEF StartsBox, SandboxType
<1> DEFINE id == made + 1
           t == Token(o, id)
<1>2. id \in Nat /\ t \in Nat /\ op[o] \in OpRec
  BY <1>1, OpTypes DEF SandboxType
<1>3. /\ boxes' = boxes \cup {NewBox(id, t, vol)}
      /\ op' = [op EXCEPT ![o] = [@ EXCEPT !.pc = l, !.id = id, !.tok = t, !.vol = vol]]
  BY <1>1 DEF StartsBox
<1> HIDE DEF id, t
<1>4. NewBox(id, t, vol) \in Box
  BY <1>2 DEF NewBox, Box, SandboxType
<1>5. [op[o] EXCEPT !.pc = l, !.id = id, !.tok = t, !.vol = vol] \in OpRec
  BY <1>2 DEF OpRec
<1>6. QED
  BY <1>1, <1>3, <1>4, <1>5 DEF SandboxType

LEMMA TypeMakes ==
  ASSUME SandboxType, NEW o \in Op, MakesVolume(o)
  PROVE  made' \in Nat /\ vols' \subseteq Vol /\ op' \in [Op -> OpRec]
<1>1. made' = made + 1 /\ made' \in Nat
  BY DEF MakesVolume, SandboxType
<1> DEFINE id == made + 1
<1>2. id \in Nat /\ op[o] \in OpRec
  BY <1>1 DEF SandboxType
<1>3. /\ vols' = vols \cup {[prov |-> provider, id |-> id]}
      /\ op' = [op EXCEPT ![o].pc = "create", ![o].vol = id]
  BY <1>1 DEF MakesVolume
<1> HIDE DEF id
<1>4. [op[o] EXCEPT !.pc = "create", !.vol = id] \in OpRec
  BY <1>2 DEF OpRec, OpStates
<1>5. [prov |-> provider, id |-> id] \in Vol
  BY <1>2 DEF Vol, SandboxType
<1>6. QED
  BY <1>1, <1>3, <1>4, <1>5 DEF SandboxType

LEMMA TypeLoads ==
  ASSUME SandboxType, NEW o \in Op, LoadRecord(o) \/ ClearRecord(o)
  PROVE  SandboxType'
<1>1. op[o] \in OpRec
  BY OpTypes
<1>2. CASE LoadRecord(o)
  <2>1. \A l \in OpStates : [op[o] EXCEPT !.p = disk, !.pc = l] \in OpRec
    BY <1>1 DEF OpRec, SandboxType
  <2>2. op' \in [Op -> OpRec]
    BY <1>2, <2>1 DEF LoadRecord, OpStates, SandboxType
  <2>3. QED
    BY <1>2, <2>2 DEF LoadRecord, Waits, proc, world, ghosts, SandboxType
<1>3. CASE ClearRecord(o)
  <2>1. [op[o] EXCEPT !.p = None, !.pc = "fresh"] \in OpRec
    BY <1>1 DEF OpRec, OpStates
  <2>2. op' \in [Op -> OpRec]
    BY <1>3, <2>1 DEF ClearRecord, Clears, SandboxType
  <2>3. QED
    BY <1>3, <2>2 DEF ClearRecord, Clears, Waits, proc, world, ghosts, SandboxType
<1>4. QED
  BY <1>2, <1>3

LEMMA TypeDocker ==
  ASSUME SandboxType, NEW o \in Op, DockerStep(o)
  PROVE  SandboxType'
<1>1. CASE DockerImage(o)
  BY <1>1, OpTypes DEF DockerImage, Waits, Throws, world, ghosts, OpStates, SandboxType
<1>2. CASE DockerInspect(o)
  BY <1>2, OpTypes DEF DockerInspect, Waits, Returns, proc, world, ghosts, OpStates, SandboxType
<1>3. CASE DockerVerify(o)
  BY <1>3, OpTypes DEF DockerVerify, Waits, VerifyRest, world, ghosts, OpStates, SandboxType
<1>4. CASE DockerAdopt(o)
  BY <1>4, OpTypes DEF DockerAdopt, Returns, Throws, proc, world, ghosts, SandboxType
<1>5. CASE DockerScrub(o)
  BY <1>5, OpTypes DEF DockerScrub, Destroys, Waits, proc, ghosts, OpStates, SandboxType
<1>6. CASE DockerVolume(o)
  <2>1. made' \in Nat /\ vols' \subseteq Vol /\ op' \in [Op -> OpRec] /\ inFlight' \in Op \cup {None}
    BY <1>6, OpTypes, TypeMakes DEF DockerVolume, MakesVolume, Waits, Throws, OpStates, SandboxType
  <2>2. ensured' = ensured
    BY <1>6 DEF DockerVolume, MakesVolume, Waits, Throws
  <2>3. QED
    BY <1>6, <2>1, <2>2 DEF DockerVolume, VolumeRest, ghosts, SandboxType
<1>7. CASE DockerRun(o)
  <2>1. made' \in Nat /\ boxes' \subseteq Box /\ op' \in [Op -> OpRec]
    <3>1. ASSUME NEW v \in vols, StartsBox(o, v.id, "health")
          PROVE  made' \in Nat /\ boxes' \subseteq Box /\ op' \in [Op -> OpRec]
      BY <3>1, TypeStarts DEF Vol, OpStates, SandboxType
    <3>2. ASSUME StartsBox(o, made', "health")
          PROVE  made' \in Nat /\ boxes' \subseteq Box /\ op' \in [Op -> OpRec]
      <4>1. made' \in Nat
        BY <3>2 DEF StartsBox, SandboxType
      <4>2. QED
        BY <3>2, <4>1, TypeStarts DEF OpStates
    <3>3. ASSUME StartFails(o)
          PROVE  made' \in Nat /\ boxes' \subseteq Box /\ op' \in [Op -> OpRec]
      BY <3>3, OpTypes DEF StartFails, Throws, SandboxType
    <3>4. QED
      BY <1>7, <3>1, <3>2, <3>3 DEF DockerRun, VolOf
  <2>2. vols' \subseteq Vol
    BY <1>7, <2>1 DEF DockerRun, Vol, SandboxType
  <2>3. inFlight' \in Op \cup {None} /\ ensured' = ensured
    BY <1>7, OpTypes DEF DockerRun, StartsBox, StartFails, Throws, Waits, SandboxType
  <2>4. QED
    BY <1>7, <2>1, <2>2, <2>3 DEF DockerRun, StartRest, ghosts, SandboxType
<1>8. CASE DockerHealth(o)
  BY <1>8, OpTypes DEF DockerHealth, Waits, Throws, proc, world, ghosts, OpStates, SandboxType
<1>9. CASE DockerSave(o)
  BY <1>9, OpTypes DEF DockerSave, Saves, Returns, SaveRest, proc, world, SandboxType
<1>10. QED
  BY <1>1, <1>2, <1>3, <1>4, <1>5, <1>6, <1>7, <1>8, <1>9 DEF DockerStep

LEMMA TypeFly ==
  ASSUME SandboxType, NEW o \in Op, FlyStep(o)
  PROVE  SandboxType'
<1>1. CASE FlyVerify(o)
  <2>1. op' \in [Op -> OpRec] /\ inFlight' \in Op \cup {None} /\ ensured' \in BOOLEAN
    <3>1. Returns(o) \/ ((\E l \in OpStates : Goto(o, l)) /\ Waits)
      BY <1>1 DEF FlyVerify, OpStates
    <3>2. QED
      BY <3>1, OpTypes DEF Waits, Returns, SandboxType
  <2>2. mem' \in Rec \cup {None}
    BY <1>1, OpTypes DEF FlyVerify, SandboxType
  <2>3. QED
    BY <1>1, <2>1, <2>2 DEF FlyVerify, VerifyRest, world, ghosts, SandboxType
<1>2. CASE FlyProbe(o)
  BY <1>2, OpTypes DEF FlyProbe, Waits, world, OpStates, SandboxType
<1>3. CASE FlyScrub(o)
  BY <1>3, OpTypes DEF FlyScrub, Destroys, Waits, proc, ghosts, OpStates, SandboxType
<1>4. CASE FlyVolume(o)
  <2>1. made' \in Nat /\ vols' \subseteq Vol /\ op' \in [Op -> OpRec] /\ inFlight' \in Op \cup {None}
    BY <1>4, OpTypes, TypeMakes DEF FlyVolume, MakesVolume, Waits, Throws, SandboxType
  <2>2. ensured' = ensured
    BY <1>4 DEF FlyVolume, MakesVolume, Waits, Throws
  <2>3. QED
    BY <1>4, <2>1, <2>2 DEF FlyVolume, VolumeRest, ghosts, SandboxType
<1>5. CASE FlyMachine(o)
  <2> DEFINE vol == IF op[o].p = None THEN op[o].vol ELSE op[o].p.vol
  <2>1. vol \in Nat
    BY OpTypes DEF Rec
  <2>2. \/ /\ StartsBox(o, vol, "save") /\ vols' = vols
           /\ mem' = Record(made', Token(o, made'), vol)
        \/ StartFails(o) /\ mem' = mem /\ vols' \subseteq vols
    BY <1>5 DEF FlyMachine
  <2> HIDE DEF vol
  <2>3. /\ made' \in Nat /\ boxes' \subseteq Box /\ op' \in [Op -> OpRec]
        /\ inFlight' \in Op \cup {None} /\ ensured' = ensured
    <3>1. CASE StartsBox(o, vol, "save")
      BY <3>1, <2>1, TypeStarts DEF StartsBox, Waits, OpStates, SandboxType
    <3>2. CASE StartFails(o)
      BY <3>2, OpTypes DEF StartFails, Throws, SandboxType
    <3>3. QED
      BY <2>2, <3>1, <3>2
  <2>4. mem' \in Rec \cup {None}
    BY <2>1, <2>2, <2>3, OpTypes DEF Record, Rec, SandboxType
  <2>5. vols' \subseteq Vol
    BY <2>2 DEF SandboxType
  <2>6. QED
    BY <1>5, <2>3, <2>4, <2>5 DEF FlyMachine, StartRest, ghosts, SandboxType
<1>6. CASE FlySave(o)
  BY <1>6, OpTypes DEF FlySave, Saves, Returns, Waits, SaveRest, proc, world, OpStates, SandboxType
<1>7. CASE FlyHealth(o)
  BY <1>7, OpTypes DEF FlyHealth, Returns, Throws, proc, world, ghosts, SandboxType
<1>8. QED
  BY <1>1, <1>2, <1>3, <1>4, <1>5, <1>6, <1>7 DEF FlyStep

LEMMA TypeEcs ==
  ASSUME SandboxType, NEW o \in Op, EcsStep(o)
  PROVE  SandboxType'
<1>1. CASE EcsVerify(o)
  <2>1. op' \in [Op -> OpRec] /\ inFlight' \in Op \cup {None} /\ ensured' \in BOOLEAN
    <3>1. Returns(o) \/ ((\E l \in OpStates : Goto(o, l)) /\ Waits)
      BY <1>1 DEF EcsVerify, OpStates
    <3>2. QED
      BY <3>1, OpTypes DEF Waits, Returns, SandboxType
  <2>2. mem' \in Rec \cup {None}
    BY <1>1, OpTypes DEF EcsVerify, SandboxType
  <2>3. QED
    BY <1>1, <2>1, <2>2 DEF EcsVerify, VerifyRest, world, ghosts, SandboxType
<1>2. CASE EcsRunTask(o)
  <2>1. /\ made' \in Nat /\ boxes' \subseteq Box /\ op' \in [Op -> OpRec]
        /\ inFlight' \in Op \cup {None} /\ ensured' = ensured
    <3>1. CASE StartsBox(o, 0, "running")
      BY <3>1, TypeStarts DEF StartsBox, Waits, OpStates, SandboxType
    <3>2. CASE StartFails(o)
      BY <3>2, OpTypes DEF StartFails, Throws, SandboxType
    <3>3. QED
      BY <1>2, <3>1, <3>2 DEF EcsRunTask
  <2>2. QED
    BY <1>2, <2>1 DEF EcsRunTask, StartRest, ghosts, SandboxType
<1>3. CASE EcsTaskRunning(o)
  BY <1>3, OpTypes DEF EcsTaskRunning, Waits, Throws, proc, world, ghosts, OpStates, SandboxType
<1>4. CASE EcsSave(o)
  BY <1>4, OpTypes DEF EcsSave, Saves, Returns, Waits, SaveRest, proc, world, OpStates, SandboxType
<1>5. CASE EcsHealth(o)
  BY <1>5, OpTypes DEF EcsHealth, Returns, Throws, proc, world, ghosts, SandboxType
<1>6. QED
  BY <1>1, <1>2, <1>3, <1>4, <1>5 DEF EcsStep

LEMMA TypeStep == SandboxType /\ [Next]_vars => SandboxType'
<1> SUFFICES ASSUME SandboxType, [Next]_vars PROVE SandboxType'
  OBVIOUS
<1>1. CASE UNCHANGED vars
  BY <1>1 DEF vars, proc, world, ghosts, SandboxType
<1>2. ASSUME NEW o \in Op, EnsureContainer(o) PROVE SandboxType'
  BY <1>2, OpTypes DEF EnsureContainer, proc, world, OpStates, SandboxType
<1>3. ASSUME NEW o \in Op, EnsureStep(o) PROVE SandboxType'
  BY <1>3, TypeLoads, TypeDocker, TypeFly, TypeEcs DEF EnsureStep
<1>4. CASE Lookup
  BY <1>4 DEF Lookup, proc, world, SandboxType
<1>5. CASE LookupVerified
  BY <1>5 DEF LookupVerified, proc, world, SandboxType
<1>6. CASE LookupClears
  BY <1>6 DEF LookupClears, proc, world, SandboxType
<1>7. CASE Delete
  <2> DEFINE k == {b.id : b \in Mine \cap UNION {BoxOf(r) : r \in {mem, disk} \ {None}}}
  <2>1. k \in SUBSET Nat
    BY DEF Mine, Box, SandboxType
  <2>2. rm' = [NoRemove EXCEPT !.pc = "load", !.wipe = TRUE, !.known = k]
    BY <1>7 DEF Delete
  <2> HIDE DEF k
  <2>3. rm' \in RmRec
    BY <2>1, <2>2, Blank DEF RmRec
  <2>4. QED
    BY <1>7, <2>3 DEF Delete, world, SandboxType
<1>8. CASE RemoveStep
  <2>1. rm' \in RmRec
    <3>1. CASE WipeThread
      BY <3>1 DEF WipeThread, RmRec, SandboxType
    <3>2. CASE RemoveLoads
      BY <3>2 DEF RemoveLoads, RmRec, SandboxType
    <3>3. CASE RemoveClears \/ RemoveBox \/ RemoveVolume
      BY <3>3 DEF RemoveClears, Clears, RemoveBox, RemoveVolume, RmRec, SandboxType
    <3>4. QED
      BY <1>8, <3>1, <3>2, <3>3 DEF RemoveStep
  <2>2. mem' \in Rec \cup {None} /\ disk' \in Rec \cup {None}
    BY <1>8
       DEF RemoveStep, WipeThread, RemoveLoads, RemoveClears, Clears, RemoveBox, RemoveVolume, SandboxType
  <2>3. boxes' \subseteq Box /\ vols' \subseteq Vol
    BY <1>8
       DEF RemoveStep, WipeThread, RemoveLoads, RemoveClears, Clears, RemoveBox, RemoveVolume, world,
           SandboxType
  <2>4. UNCHANGED <<provider, made, inFlight, op, ensured, ep>>
    BY <1>8 DEF RemoveStep, WipeThread, RemoveLoads, RemoveClears, Clears, RemoveBox, RemoveVolume, proc
  <2>5. QED
    BY <2>1, <2>2, <2>3, <2>4 DEF SandboxType
<1>9. CASE ReapStep
  <2>1. boxes' \subseteq boxes /\ vols' \subseteq vols
    BY <1>9 DEF ReapStep, ReapLists, ReapCompares, ReapDestroys, world
  <2>2. UNCHANGED <<provider, made, mem, disk, inFlight, op, ensured, ep, rm>>
    BY <1>9 DEF ReapStep, ReapLists, ReapCompares, ReapDestroys, proc
  <2>3. QED
    BY <2>1, <2>2 DEF SandboxType
<1>10. CASE Restart
  BY <1>10, Blank DEF Restart, world, SandboxType
<1>11. ASSUME NEW b \in boxes, Boots(b) \/ Dies(b) PROVE SandboxType'
  <2>1. boxes' \subseteq Box
    BY <1>11 DEF Boots, Dies, Box, SandboxType
  <2>2. QED
    BY <1>11, <2>1 DEF Boots, Dies, proc, ghosts, SandboxType
<1>12. ASSUME NEW v \in vols, Lost(v) PROVE SandboxType'
  BY <1>12 DEF Lost, SandboxType
<1>13. QED
  BY <1>1, <1>2, <1>3, <1>4, <1>5, <1>6, <1>7, <1>8, <1>9, <1>10, <1>11, <1>12 DEF Next

-----------------------------------------------------------------------------
(* Identities: a number names one box, and no record is wrong about it.    *)

Started == {"health", "save", "running"}

\* What a record says of the box with its number, and an ensure of its own.
Tells(r, bs, n) ==
  /\ r.id <= n /\ r.vol <= n
  /\ r.prov # "docker" =>
       \A b \in bs : b.prov = r.prov /\ b.id = r.id => b.tok = r.tok /\ b.vol = r.vol
OpTells(t, prov, bs, n) ==
  /\ t.p # None => Tells(t.p, bs, n) /\ (t.pc # "clear" => t.p.prov = prov)
  /\ t.id <= n /\ t.vol <= n
  /\ t.pc \notin Started => t.id = 0
  /\ \A b \in bs : b.id = t.id => b.prov = prov /\ b.tok = t.tok /\ b.vol = t.vol

IdInv ==
  /\ \A b \in boxes : b.id \in 1 .. made /\ b.vol <= made
  /\ \A b, c \in boxes : b.id = c.id => b = c
  /\ \A v \in vols : v.id <= made
  /\ \A i \in rm.known : i <= made

RecordsTell ==
  /\ mem # None => Tells(mem, boxes, made) /\ mem.prov = provider
  /\ disk # None => Tells(disk, boxes, made)
  /\ ep # None => Tells(ep.p, boxes, made) /\ (ep.pc = "verify" => ep.p.prov = provider)
  /\ \A o \in Op : OpTells(op[o], provider, boxes, made)

OneVolume == \A v, w \in vols : v.prov = "docker" /\ w.prov = "docker" => v = w

\* A box is another one's later state.
Same(b, c) == c.prov = b.prov /\ c.id = b.id /\ c.tok = b.tok /\ c.vol = b.vol
NoNewBox == \A c \in boxes' : \E b \in boxes : Same(b, c)
NewBoxBy(o) ==
  \E vol \in 0 .. made', l \in Started :
    /\ EnsureStep(o) /\ StartsBox(o, vol, l) /\ UNCHANGED <<provider, disk>>
    /\ op[o].pc \in {"create", "fresh"} /\ vols \subseteq vols'
    /\ provider = "docker" => BoxOf(ByName) = {} /\ l = "health"
    /\ provider = "fly" => l = "save" /\ vol = IF op[o].p = None THEN op[o].vol ELSE op[o].p.vol
    /\ provider # "ecs" => op[o].pc = "create" /\ [prov |-> provider, id |-> vol] \in vols'

LEMMA KnownStep ==
  ASSUME SandboxType, IdInv, [Next]_vars
  PROVE  (\A i \in rm'.known : i <= made) /\ (rm'.known # rm.known => rm'.known = {} \/ Delete)
<1>1. CASE Delete
  BY <1>1 DEF Delete, NoRemove, Mine, IdInv, SandboxType, Box
<1>2. CASE Restart
  BY <1>2 DEF Restart, NoRemove
<1>3. CASE RemoveStep
  BY <1>3
     DEF RemoveStep, WipeThread, RemoveLoads, RemoveClears, Clears, RemoveBox, RemoveVolume, IdInv,
         SandboxType, RmRec
<1>4. CASE UNCHANGED rm
  BY <1>4 DEF IdInv
<1>5. QED
  <2>1. Delete \/ Restart \/ RemoveStep \/ UNCHANGED rm
    <3>1. ASSUME NEW o \in Op, EnsureStep(o) PROVE UNCHANGED rm
      BY <3>1
         DEF EnsureStep, LoadRecord, ClearRecord, Clears, DockerStep, FlyStep, EcsStep, DockerImage,
             DockerInspect, DockerVerify, DockerAdopt, DockerScrub, Destroys, DockerVolume, DockerRun,
             DockerHealth, DockerSave, FlyVerify, FlyProbe, FlyScrub, FlyVolume, FlyMachine, FlySave,
             FlyHealth, EcsVerify, EcsRunTask, EcsTaskRunning, EcsSave, EcsHealth, VerifyRest, VolumeRest,
             StartRest, SaveRest
    <3>2. QED
      BY <3>1
         DEF Next, vars, EnsureContainer, Lookup, LookupVerified, LookupClears, ReapStep, ReapLists,
             ReapCompares, ReapDestroys, Boots, Dies, Lost
  <2>2. QED
    BY <1>1, <1>2, <1>3, <1>4, <2>1

LEMMA BoxStep ==
  ASSUME SandboxType, IdInv, \A o \in Op : OpTells(op[o], provider, boxes, made), [Next]_vars
  PROVE  \/ boxes' \subseteq boxes
         \/ \E b \in boxes : Boots(b) \/ Dies(b)
         \/ \E o \in Op : NewBoxBy(o)
<1>1. ASSUME NEW o \in Op, EnsureStep(o) PROVE boxes' \subseteq boxes \/ NewBoxBy(o)
  <2>1. CASE DockerRun(o)
    <3>1. ASSUME NEW v \in VolOf(ByName), StartsBox(o, v.id, "health"), UNCHANGED vols, BoxOf(ByName) = {}
          PROVE  NewBoxBy(o)
      <4>1. v.id \in 0 .. made' /\ v \in vols /\ v = [prov |-> provider, id |-> v.id]
        BY <3>1 DEF StartsBox, IdInv, Vol, VolOf, ByName, Record, SandboxType
      <4>2. QED
        BY <1>1, <2>1, <3>1, <4>1 DEF DockerRun, NewBoxBy, Started, StartRest
    <3>2. ASSUME StartsBox(o, made', "health"), BoxOf(ByName) = {},
                 vols' = vols \cup {[prov |-> "docker", id |-> made']}
          PROVE  NewBoxBy(o)
      <4>1. made' \in 0 .. made'
        BY <3>2 DEF StartsBox, SandboxType
      <4>2. QED
        BY <1>1, <2>1, <3>2, <4>1 DEF DockerRun, NewBoxBy, Started, StartRest
    <3>3. QED
      BY <2>1, <3>1, <3>2 DEF DockerRun, StartFails
  <2>2. CASE FlyMachine(o)
    <3> DEFINE vol == IF op[o].p = None THEN op[o].vol ELSE op[o].p.vol
    <3>1. vol \in Nat /\ vol <= made
      BY OpTypes DEF OpTells, Tells, Rec
    <3>2. \/ StartsBox(o, vol, "save") /\ UNCHANGED vols /\ [prov |-> "fly", id |-> vol] \in vols
          \/ boxes' = boxes
      BY <2>2 DEF FlyMachine, StartFails
    <3>3. vol = IF op[o].p = None THEN op[o].vol ELSE op[o].p.vol
      OBVIOUS
    <3> HIDE DEF vol
    <3>4. ASSUME StartsBox(o, vol, "save") PROVE vol \in 0 .. made'
      BY <3>1, <3>4 DEF StartsBox, SandboxType
    <3>5. QED
      BY <1>1, <2>2, <3>2, <3>3, <3>4 DEF FlyMachine, NewBoxBy, Started, StartRest
  <2>3. CASE EcsRunTask(o)
    <3>1. ASSUME StartsBox(o, 0, "running") PROVE 0 \in 0 .. made'
      BY <3>1 DEF StartsBox, SandboxType
    <3>2. QED
      BY <1>1, <2>3, <3>1 DEF EcsRunTask, NewBoxBy, Started, StartRest, StartFails
  <2>4. CASE ~(DockerRun(o) \/ FlyMachine(o) \/ EcsRunTask(o))
    BY <1>1, <2>4
       DEF EnsureStep, LoadRecord, ClearRecord, Clears, DockerStep, FlyStep, EcsStep, DockerImage,
           DockerInspect, DockerVerify, DockerAdopt, DockerScrub, Destroys, DockerVolume, DockerHealth,
           DockerSave, FlyVerify, FlyProbe, FlyScrub, FlyVolume, FlySave, FlyHealth, EcsVerify,
           EcsTaskRunning, EcsSave, EcsHealth, VerifyRest, VolumeRest, SaveRest, world
  <2>5. QED
    BY <2>1, <2>2, <2>3, <2>4
<1>2. (\E o \in Op : EnsureStep(o)) \/ (\E b \in boxes : Boots(b) \/ Dies(b)) \/ boxes' \subseteq boxes
  BY
     DEF Next, vars, world, EnsureContainer, Lookup, LookupVerified, LookupClears, Delete, RemoveStep,
         WipeThread, RemoveLoads, RemoveClears, Clears, RemoveBox, RemoveVolume, ReapStep, ReapLists,
         ReapCompares, ReapDestroys, Restart, Lost
<1>3. QED
  BY <1>1, <1>2

\* No step of an ensure but these touches a volume or draws a number.
LEMMA MadeStep ==
  ASSUME SandboxType, [Next]_vars
  PROVE  /\ made' \in {made, made + 1}
         /\ \A v \in vols' : v \in vols \/ (v = [prov |-> provider, id |-> made + 1] /\ made' = made + 1)
<1>1. ASSUME NEW o \in Op, EnsureStep(o)
      PROVE  /\ made' \in {made, made + 1}
             /\ \A v \in vols' : v \in vols \/ (v = [prov |-> provider, id |-> made + 1] /\ made' = made + 1)
  <2>1. CASE DockerVolume(o) \/ DockerRun(o)
    BY <2>1
       DEF DockerVolume, DockerRun, MakesVolume, StartsBox, StartFails, Budget
  <2>2. CASE FlyVolume(o)
    BY <2>2 DEF FlyVolume, MakesVolume
  <2>3. CASE FlyMachine(o)
    BY <2>3 DEF FlyMachine, StartsBox, StartFails
  <2>4. CASE EcsRunTask(o)
    BY <2>4 DEF EcsRunTask, StartsBox, StartFails
  <2>5. CASE ~(DockerVolume(o) \/ DockerRun(o) \/ FlyVolume(o) \/ FlyMachine(o) \/ EcsRunTask(o))
    BY <1>1, <2>5
       DEF EnsureStep, LoadRecord, ClearRecord, Clears, DockerStep, FlyStep, EcsStep, DockerImage,
           DockerInspect, DockerVerify, DockerAdopt, DockerScrub, Destroys, DockerHealth, DockerSave,
           FlyVerify, FlyProbe, FlyScrub, FlySave, FlyHealth, EcsVerify, EcsTaskRunning, EcsSave, EcsHealth,
           VerifyRest, SaveRest, proc, world
  <2>6. QED
    BY <2>1, <2>2, <2>3, <2>4, <2>5
<1>2. (\E o \in Op : EnsureStep(o)) \/ (made' = made /\ vols' \subseteq vols)
  BY
     DEF Next, vars, proc, world, EnsureContainer, Lookup, LookupVerified, LookupClears, Delete, RemoveStep,
         WipeThread, RemoveLoads, RemoveClears, Clears, RemoveBox, RemoveVolume, ReapStep, ReapLists,
         ReapCompares, ReapDestroys, Restart, Lost, Boots, Dies
<1>3. QED
  BY <1>1, <1>2

LEMMA IdStep ==
  ASSUME SandboxType, IdInv, \A o \in Op : OpTells(op[o], provider, boxes, made), [Next]_vars
  PROVE  IdInv' /\ (NoNewBox \/ \E o \in Op : NewBoxBy(o))
<1>1. made' \in {made, made + 1} /\ made \in Nat
  BY MadeStep DEF SandboxType
<1>2. \A v \in vols' : v.id <= made'
  BY <1>1, MadeStep DEF IdInv, SandboxType, Vol
<1>3. \A i \in rm'.known : i <= made'
  <2>1. \A i \in rm'.known : i <= made /\ i \in Nat
    BY KnownStep, TypeStep DEF SandboxType, RmRec
  <2>2. QED
    BY <1>1, <2>1
<1> DEFINE Apart == \A b, c \in boxes' : b.id = c.id => b = c
           Low == \A b \in boxes' : b.id \in 1 .. made' /\ b.vol <= made'
<1>4. ASSUME boxes' \subseteq boxes PROVE Low /\ Apart /\ NoNewBox
  BY <1>1, <1>4 DEF IdInv, NoNewBox, Same, SandboxType, Box
<1>5. ASSUME NEW b \in boxes, Boots(b) \/ Dies(b) PROVE Low /\ Apart /\ NoNewBox
  <2>1. PICK st : boxes' = (boxes \ {b}) \cup {[b EXCEPT !.st = st]}
    BY <1>5 DEF Boots, Dies
  <2> DEFINE c == [b EXCEPT !.st = st]
  <2>2. /\ boxes' = (boxes \ {b}) \cup {c}
        /\ c.id = b.id /\ c.prov = b.prov /\ c.tok = b.tok /\ c.vol = b.vol
    BY <2>1 DEF SandboxType, Box
  <2> HIDE DEF c
  <2>3. Low
    BY <1>1, <2>1, <2>2 DEF IdInv, SandboxType, Box
  <2>4. Apart
    BY <2>1, <2>2 DEF IdInv
  <2>5. NoNewBox
    BY <2>1, <2>2 DEF NoNewBox, Same
  <2>6. QED
    BY <2>3, <2>4, <2>5
<1>6. ASSUME NEW o \in Op, NewBoxBy(o) PROVE Low /\ Apart
  <2> DEFINE t == Token(o, made')
  <2>1. PICK vol \in 0 .. made' : /\ made' = made + 1
                                  /\ boxes' = boxes \cup {NewBox(made', t, vol)}
    BY <1>6 DEF NewBoxBy, StartsBox
  <2> DEFINE c == NewBox(made', t, vol)
  <2>2. boxes' = boxes \cup {c} /\ c.id = made + 1 /\ c.vol = vol
    BY <2>1 DEF NewBox
  <2> HIDE DEF c
  <2>3. Low
    BY <1>1, <2>1, <2>2 DEF IdInv, SandboxType, Box
  <2>4. Apart
    BY <1>1, <2>1, <2>2 DEF IdInv, SandboxType, Box
  <2>5. QED
    BY <2>3, <2>4
<1>7. Low /\ Apart /\ (NoNewBox \/ \E o \in Op : NewBoxBy(o))
  BY <1>4, <1>5, <1>6, BoxStep
<1>8. QED
  BY <1>2, <1>3, <1>7 DEF IdInv

LEMMA Grow ==
  ASSUME SandboxType, IdInv, RecordsTell, [Next]_vars
  PROVE  /\ \A r \in Rec : Tells(r, boxes, made) => Tells(r, boxes', made')
         /\ \A t \in OpRec, prov \in Provider :
              OpTells(t, prov, boxes, made) => OpTells(t, prov, boxes', made')
<1>1. /\ made' \in {made, made + 1} /\ made \in Nat
      /\ NoNewBox \/ \E o \in Op : NewBoxBy(o)
  BY MadeStep, IdStep DEF SandboxType, RecordsTell
<1>2. CASE NoNewBox
  <2>1. ASSUME NEW r \in Rec, Tells(r, boxes, made) PROVE Tells(r, boxes', made')
    BY <1>1, <1>2, <2>1 DEF NoNewBox, Same, Tells, Rec
  <2>2. ASSUME NEW t \in OpRec, NEW prov \in Provider, OpTells(t, prov, boxes, made)
        PROVE  OpTells(t, prov, boxes', made')
    <3>1. t.p # None => Tells(t.p, boxes', made')
      BY <2>1, <2>2 DEF OpTells, OpRec
    <3>2. t.id <= made' /\ t.vol <= made'
      BY <1>1, <2>2 DEF OpTells, OpRec
    <3>3. QED
      BY <1>2, <2>2, <3>1, <3>2 DEF OpTells, NoNewBox, Same
  <2>3. QED
    BY <2>1, <2>2
<1>3. ASSUME NEW o \in Op, NewBoxBy(o)
      PROVE  /\ \A r \in Rec : Tells(r, boxes, made) => Tells(r, boxes', made')
             /\ \A t \in OpRec, prov \in Provider :
                  OpTells(t, prov, boxes, made) => OpTells(t, prov, boxes', made')
  <2>1. made' = made + 1 /\ \A b \in boxes' : b \in boxes \/ b.id = made + 1
    BY <1>3 DEF NewBoxBy, StartsBox, NewBox
  <2>2. ASSUME NEW r \in Rec, Tells(r, boxes, made) PROVE Tells(r, boxes', made')
    BY <1>1, <2>1, <2>2 DEF Tells, Rec
  <2>3. ASSUME NEW t \in OpRec, NEW prov \in Provider, OpTells(t, prov, boxes, made)
        PROVE  OpTells(t, prov, boxes', made')
    <3>1. t.p # None => Tells(t.p, boxes', made')
      BY <2>2, <2>3 DEF OpTells, OpRec
    <3>2. t.id <= made' /\ t.vol <= made' /\ t.id # made + 1
      BY <1>1, <2>1, <2>3 DEF OpTells, OpRec
    <3>3. QED
      BY <2>1, <2>3, <3>1, <3>2 DEF OpTells
  <2>4. QED
    BY <2>2, <2>3
<1>4. QED
  BY <1>1, <1>2, <1>3

\* An ensure touches itself alone, and neither the lookup nor the removal.
LEMMA EnsureFrame ==
  ASSUME SandboxType, NEW o \in Op, EnsureStep(o)
  PROVE  /\ UNCHANGED <<provider, ep, rm, reap, old>>
         /\ op[o].pc # "idle" /\ \A q \in Op \ {o} : op'[q] = op[q]
<1>0. op[o].pc # "idle"
  BY
     DEF EnsureStep, LoadRecord, ClearRecord, Clears, DockerStep, FlyStep, EcsStep, DockerImage,
         DockerInspect, DockerVerify, DockerAdopt, DockerScrub, Destroys, DockerVolume, DockerRun,
         DockerHealth, DockerSave, FlyVerify, FlyProbe, FlyScrub, FlyVolume, FlyMachine, FlySave, FlyHealth,
         EcsVerify, EcsRunTask, EcsTaskRunning, EcsSave, EcsHealth, FoundAlive, FoundDead
<1>1. CASE LoadRecord(o) \/ ClearRecord(o)
  BY <1>0, <1>1 DEF LoadRecord, ClearRecord, Clears, SandboxType, proc, ghosts
<1>2. CASE DockerStep(o)
  BY <1>0, <1>2
     DEF DockerStep, DockerImage, DockerInspect, DockerVerify, DockerAdopt, DockerScrub, Destroys,
         DockerVolume, DockerRun, DockerHealth, DockerSave, VerifyRest, VolumeRest, StartRest, SaveRest,
         StartFails, StartsBox, MakesVolume, Returns, Throws, Settle, Goto, SandboxType, proc, ghosts
<1>3. CASE FlyStep(o)
  BY <1>0, <1>3
     DEF FlyStep, FlyVerify, FlyProbe, FlyScrub, Destroys, FlyVolume, FlyMachine, FlySave, FlyHealth,
         VerifyRest, VolumeRest, StartRest, SaveRest, StartFails, StartsBox, MakesVolume, Returns, Throws,
         Settle, Goto, SandboxType, proc, ghosts
<1>4. CASE EcsStep(o)
  BY <1>0, <1>4
     DEF EcsStep, EcsVerify, EcsRunTask, EcsTaskRunning, EcsSave, EcsHealth,
         VerifyRest, StartRest, SaveRest, StartFails,
         StartsBox, Returns, Throws, Settle, Goto, SandboxType, proc, ghosts
<1>5. QED
  BY <1>1, <1>2, <1>3, <1>4 DEF EnsureStep

\* What one ensure does to the records and to itself.
LEMMA EnsureWrites ==
  ASSUME SandboxType, IdInv, RecordsTell, NEW o \in Op, EnsureStep(o), [Next]_vars
  PROVE  /\ UNCHANGED <<provider, ep, rm, reap, old>>
         /\ \A q \in Op \ {o} : op'[q] = op[q]
         /\ mem' # None => \/ mem' = mem
                           \/ mem' \in Rec /\ mem'.prov = provider /\ Tells(mem', boxes', made')
         /\ disk' # None => \/ disk' = disk
                            \/ disk' \in Rec /\ Tells(disk', boxes', made')
         /\ OpTells(op'[o], provider, boxes', made')
<1>1. UNCHANGED <<provider, ep, rm, reap, old>> /\ \A q \in Op \ {o} : op'[q] = op[q]
  BY EnsureFrame
<1> DEFINE Fits(r) == r \in Rec /\ r.prov = provider /\ Tells(r, boxes', made')
<1>2. /\ op[o] \in OpRec /\ OpTells(op[o], provider, boxes, made) /\ provider \in Provider
      /\ op[o].p # None => op[o].p \in Rec /\ Tells(op[o].p, boxes', made')
      /\ op[o].p # None /\ op[o].pc # "clear" => op[o].p.prov = provider
  BY Grow DEF OpTells, OpRec, RecordsTell, SandboxType
<1>3. Fits(InHand(o))
  <2>1. InHand(o) \in Rec /\ InHand(o).prov = provider
    BY OpTypes DEF InHand, Record
  <2>2. Tells(InHand(o), boxes, made)
    BY <1>2 DEF OpTells, InHand, Record, Tells
  <2>3. QED
    BY <2>1, <2>2, Grow
<1>4. ASSUME NEW l \in OpStates, l \in Started <=> op[o].pc \in Started, op[o].pc # "clear", Goto(o, l)
      PROVE  OpTells(op'[o], provider, boxes', made')
  <2> DEFINE t == [op[o] EXCEPT !.pc = l]
  <2>1. op'[o] = t /\ t \in OpRec
    BY <1>2, <1>4 DEF Goto, OpRec, SandboxType
  <2>2. t.p = op[o].p /\ t.id = op[o].id /\ t.tok = op[o].tok /\ t.vol = op[o].vol /\ t.pc = l
    BY <1>2 DEF OpRec
  <2> HIDE DEF t
  <2>3. OpTells(t, provider, boxes, made)
    BY <1>2, <1>4, <2>2 DEF OpTells
  <2>4. QED
    BY <1>2, <2>1, <2>3, Grow
<1>5. ASSUME Settle(o) PROVE OpTells(op'[o], provider, boxes', made')
  <2>1. op'[o] = NoOp
    BY <1>5 DEF Settle, SandboxType
  <2>2. IdInv' /\ made' \in Nat
    BY IdStep, TypeStep DEF RecordsTell, SandboxType
  <2>3. QED
    BY <2>1, <2>2 DEF OpTells, NoOp, IdInv, Started
<1>6. ASSUME MakesVolume(o), op[o].pc = "volume" PROVE OpTells(op'[o], provider, boxes', made')
  <2> DEFINE t == [op[o] EXCEPT !.pc = "create", !.vol = made']
  <2>1. op'[o] = t /\ made' = made + 1 /\ made \in Nat
    BY <1>6 DEF MakesVolume, SandboxType
  <2>2. t.p = op[o].p /\ t.id = op[o].id /\ t.tok = op[o].tok /\ t.vol = made' /\ t.pc = "create"
    BY <1>2 DEF OpRec
  <2> HIDE DEF t
  <2>3. op[o].id = 0 /\ IdInv'
    BY <1>2, <1>6, IdStep DEF OpTells, Started, RecordsTell
  <2>4. QED
    BY <1>2, <1>6, <2>1, <2>2, <2>3 DEF OpTells, Started, IdInv
<1>7. ASSUME NEW vol \in 0 .. made', NEW l \in Started, StartsBox(o, vol, l), op[o].pc # "clear"
      PROVE  /\ OpTells(op'[o], provider, boxes', made')
             /\ Fits(Record(made', Token(o, made'), vol))
  <2> DEFINE n == made'
             k == Token(o, made')
             t == [op[o] EXCEPT !.pc = l, !.id = n, !.tok = k, !.vol = vol]
             r == Record(n, k, vol)
             c == NewBox(n, k, vol)
  <2>1. n = made + 1 /\ made \in Nat /\ n \in Nat /\ k \in Nat
    BY <1>7, OpTypes DEF StartsBox, SandboxType
  <2>2. op'[o] = t /\ boxes' = boxes \cup {c}
    BY <1>7 DEF StartsBox, SandboxType
  <2>3. t.p = op[o].p /\ t.id = n /\ t.tok = k /\ t.vol = vol /\ t.pc = l
    BY <1>2, <2>1 DEF OpRec
  <2>4. r \in Rec /\ r.prov = provider /\ r.id = n /\ r.tok = k /\ r.vol = vol
    BY <1>2, <2>1 DEF Record, Rec
  <2>5. c.id = n /\ c.prov = provider /\ c.tok = k /\ c.vol = vol
    BY DEF NewBox
  <2>6. \A b \in boxes : b.id # n
    BY <2>1 DEF IdInv, SandboxType, Box
  <2>7. made' = n
    OBVIOUS
  <2> HIDE DEF n, k, t, r, c
  <2>8. OpTells(t, provider, boxes', n)
    BY <1>2, <1>7, <2>1, <2>2, <2>3, <2>5, <2>6, <2>7 DEF OpTells, Started
  <2>9. Tells(r, boxes', n)
    BY <1>7, <2>1, <2>2, <2>4, <2>5, <2>6, <2>7 DEF Tells
  <2>10. QED
    BY <2>2, <2>4, <2>7, <2>8, <2>9 DEF n, k, r
<1> HIDE DEF Fits
<1> DEFINE Mem == mem' # None => mem' = mem \/ Fits(mem')
           Disk == disk' # None => \/ disk' = disk
                                   \/ disk' \in Rec /\ Tells(disk', boxes', made')
           Own == OpTells(op'[o], provider, boxes', made')
<1>8. Disk
  <2>1. UNCHANGED disk \/ disk' = None \/ disk' = InHand(o) \/ (op[o].pc = "resave" /\ disk' = op[o].p)
    <3>1. CASE LoadRecord(o) \/ ClearRecord(o)
      BY <3>1 DEF LoadRecord, ClearRecord, Clears
    <3>2. CASE DockerStep(o)
      BY <3>2
         DEF DockerStep, DockerImage, DockerInspect, DockerVerify, DockerAdopt, DockerScrub, Destroys,
             DockerVolume, DockerRun, DockerHealth, DockerSave, VerifyRest, VolumeRest, StartRest, Saves
    <3>3. CASE FlyStep(o)
      BY <3>3
         DEF FlyStep, FlyVerify, FlyProbe, FlyScrub, Destroys, FlyVolume, FlyMachine, FlySave, FlyHealth,
             VerifyRest, VolumeRest, StartRest, Saves
    <3>4. CASE EcsStep(o)
      BY <3>4
         DEF EcsStep, EcsVerify, EcsRunTask, EcsTaskRunning, EcsSave, EcsHealth, VerifyRest, StartRest, Saves
    <3>5. QED
      BY <3>1, <3>2, <3>3, <3>4 DEF EnsureStep
  <2>2. QED
    BY <1>2, <1>3, <2>1 DEF Fits
<1>9. CASE LoadRecord(o)
  <2>1. PICK l \in {"fresh", "verify", "clear"} :
          op'[o] = [op[o] EXCEPT !.p = disk, !.pc = l] /\ (disk # None /\ l # "clear" => disk.prov = provider)
    BY <1>9 DEF LoadRecord, SandboxType
  <2> DEFINE t == [op[o] EXCEPT !.p = disk, !.pc = l]
  <2>2. t \in OpRec /\ t.p = disk /\ t.id = op[o].id /\ t.tok = op[o].tok /\ t.vol = op[o].vol /\ t.pc = l
    BY <1>2 DEF OpRec, OpStates, SandboxType
  <2>3. op'[o] = t
    BY <2>1
  <2> HIDE DEF t
  <2>4. op[o].id = 0
    BY <1>2, <1>9 DEF LoadRecord, OpTells, Started
  <2>5. OpTells(t, provider, boxes, made)
    BY <1>2, <2>1, <2>2, <2>4 DEF OpTells, RecordsTell, Started
  <2>6. Own
    BY <1>2, <2>2, <2>3, <2>5, Grow
  <2>7. QED
    BY <1>1, <1>8, <1>9, <2>6 DEF LoadRecord
<1>10. CASE ClearRecord(o)
  <2> DEFINE t == [op[o] EXCEPT !.p = None, !.pc = "fresh"]
  <2>1. t \in OpRec /\ t.p = None /\ t.id = op[o].id /\ t.tok = op[o].tok /\ t.vol = op[o].vol /\ t.pc = "fresh"
    BY <1>2 DEF OpRec, OpStates
  <2>2. op'[o] = t
    BY <1>10 DEF ClearRecord, Clears, SandboxType
  <2> HIDE DEF t
  <2>3. op[o].id = 0
    BY <1>2, <1>10 DEF ClearRecord, Clears, OpTells, Started
  <2>4. OpTells(t, provider, boxes, made)
    BY <1>2, <2>1, <2>3 DEF OpTells, Started
  <2>5. Own
    BY <1>2, <2>1, <2>2, <2>4, Grow
  <2>6. QED
    BY <1>1, <1>8, <1>10, <2>5 DEF ClearRecord, Clears
<1>11. CASE DockerStep(o)
  <2>1. CASE DockerImage(o)
    BY <1>1, <1>4, <1>5, <1>8, <2>1 DEF DockerImage, Throws, OpStates, Started
  <2>2. CASE DockerInspect(o)
    BY <1>1, <1>4, <1>5, <1>8, <2>2 DEF DockerInspect, Returns, OpStates, Started
  <2>3. CASE DockerVerify(o)
    BY <1>1, <1>4, <1>8, <2>3 DEF DockerVerify, FoundAlive, FoundDead, OpStates, Started
  <2>4. CASE DockerAdopt(o)
    BY <1>1, <1>2, <1>5, <1>8, <2>4 DEF DockerAdopt, Returns, Throws, Fits
  <2>5. CASE DockerScrub(o)
    BY <1>1, <1>4, <1>8, <2>5 DEF DockerScrub, Destroys, OpStates, Started
  <2>6. CASE DockerVolume(o)
    BY <1>1, <1>4, <1>5, <1>6, <1>8, <2>6 DEF DockerVolume, Throws, VolumeRest, OpStates, Started
  <2>7. CASE DockerRun(o)
    <3>1. ASSUME NEW v \in vols, StartsBox(o, v.id, "health") PROVE Own
      <4>1. v.id \in 0 .. made'
        BY <3>1 DEF StartsBox, IdInv, Vol, SandboxType
      <4>2. QED
        BY <2>7, <1>7, <3>1, <4>1 DEF DockerRun, Started
    <3>2. ASSUME StartsBox(o, made', "health") PROVE Own
      <4>1. made' \in 0 .. made'
        BY <3>2 DEF StartsBox, SandboxType
      <4>2. QED
        BY <2>7, <1>7, <3>2, <4>1 DEF DockerRun, Started
    <3>3. Own
      BY <1>5, <2>7, <3>1, <3>2 DEF DockerRun, VolOf, StartFails, Throws
    <3>4. QED
      BY <1>1, <1>8, <2>7, <3>3 DEF DockerRun
  <2>8. CASE DockerHealth(o)
    BY <1>1, <1>3, <1>4, <1>5, <1>8, <2>8 DEF DockerHealth, Throws, OpStates, Started, Fits
  <2>9. CASE DockerSave(o)
    BY <1>1, <1>5, <1>8, <2>9 DEF DockerSave, Returns, SaveRest
  <2>10. QED
    BY <1>11, <2>1, <2>2, <2>3, <2>4, <2>5, <2>6, <2>7, <2>8, <2>9 DEF DockerStep
<1>12. CASE FlyStep(o)
  <2>1. CASE FlyVerify(o)
    <3>1. Own
      BY <1>4, <1>5, <2>1 DEF FlyVerify, FoundAlive, FoundDead, Returns, OpStates, Started
    <3>2. Mem
      BY <1>2, <2>1 DEF FlyVerify, FoundAlive, Fits
    <3>3. QED
      BY <1>1, <1>8, <3>1, <3>2 DEF Fits
  <2>2. CASE FlyProbe(o)
    BY <1>1, <1>4, <1>8, <2>2 DEF FlyProbe, OpStates, Started
  <2>3. CASE FlyScrub(o)
    BY <1>1, <1>4, <1>8, <2>3 DEF FlyScrub, Destroys, OpStates, Started
  <2>4. CASE FlyVolume(o)
    BY <1>1, <1>5, <1>6, <1>8, <2>4 DEF FlyVolume, Throws, VolumeRest
  <2>5. CASE FlyMachine(o)
    <3> DEFINE vol == IF op[o].p = None THEN op[o].vol ELSE op[o].p.vol
    <3>1. vol \in Nat /\ vol <= made
      BY <1>2, OpTypes DEF OpTells, Tells, Rec, RecordsTell
    <3>2. \/ StartsBox(o, vol, "save") /\ mem' = Record(made', Token(o, made'), vol)
          \/ StartFails(o) /\ mem' = mem
      BY <2>5 DEF FlyMachine
    <3> HIDE DEF vol
    <3>3. ASSUME StartsBox(o, vol, "save") PROVE vol \in 0 .. made'
      BY <3>1, <3>3 DEF StartsBox, SandboxType
    <3>4. Own /\ Mem
      BY <1>5, <1>7, <2>5, <3>2, <3>3 DEF FlyMachine, StartFails, Throws, Started
    <3>5. QED
      BY <1>1, <1>8, <3>4 DEF Fits
  <2>6. CASE FlySave(o)
    <3>1. Own
      BY <1>4, <1>5, <2>6 DEF FlySave, Returns, OpStates, Started
    <3>2. QED
      BY <1>1, <1>8, <2>6, <3>1 DEF FlySave, SaveRest
  <2>7. CASE FlyHealth(o)
    BY <1>1, <1>5, <1>8, <2>7 DEF FlyHealth, Returns, Throws
  <2>8. QED
    BY <1>12, <2>1, <2>2, <2>3, <2>4, <2>5, <2>6, <2>7 DEF FlyStep
<1>13. CASE EcsStep(o)
  <2>1. CASE EcsVerify(o)
    <3>1. Own
      BY <1>4, <1>5, <2>1 DEF EcsVerify, FoundAlive, FoundDead, Returns, OpStates, Started
    <3>2. Mem
      BY <1>2, <2>1 DEF EcsVerify, FoundAlive, Fits
    <3>3. QED
      BY <1>1, <1>8, <3>1, <3>2 DEF Fits
  <2>2. CASE EcsRunTask(o)
    <3>1. ASSUME StartsBox(o, 0, "running") PROVE 0 \in 0 .. made'
      BY <3>1 DEF StartsBox, SandboxType
    <3>2. Own
      BY <1>5, <1>7, <2>2, <3>1 DEF EcsRunTask, StartFails, Throws, Started
    <3>3. QED
      BY <1>1, <1>8, <2>2, <3>2 DEF EcsRunTask
  <2>3. CASE EcsTaskRunning(o)
    <3>1. Own
      BY <1>4, <1>5, <2>3 DEF EcsTaskRunning, Throws, OpStates, Started
    <3>2. QED
      BY <1>1, <1>3, <1>8, <2>3, <3>1 DEF EcsTaskRunning, Fits
  <2>4. CASE EcsSave(o)
    <3>1. Own
      BY <1>4, <1>5, <2>4 DEF EcsSave, Returns, OpStates, Started
    <3>2. QED
      BY <1>1, <1>8, <2>4, <3>1 DEF EcsSave, SaveRest
  <2>5. CASE EcsHealth(o)
    BY <1>1, <1>5, <1>8, <2>5 DEF EcsHealth, Returns, Throws
  <2>6. QED
    BY <1>13, <2>1, <2>2, <2>3, <2>4, <2>5 DEF EcsStep
<1>14. QED
  BY <1>9, <1>10, <1>11, <1>12, <1>13 DEF EnsureStep

LEMMA RecordsStep ==
  ASSUME SandboxType, IdInv, RecordsTell, [Next]_vars
  PROVE  RecordsTell'
<1>1. /\ \A r \in Rec : Tells(r, boxes, made) => Tells(r, boxes', made')
      /\ \A t \in OpRec, prov \in Provider :
           OpTells(t, prov, boxes, made) => OpTells(t, prov, boxes', made')
  BY Grow
<1>2. /\ mem # None => mem \in Rec /\ Tells(mem, boxes', made') /\ mem.prov = provider
      /\ disk # None => disk \in Rec /\ Tells(disk, boxes', made')
      /\ ep # None => ep.p \in Rec /\ Tells(ep.p, boxes', made')
      /\ \A q \in Op : OpTells(op[q], provider, boxes', made')
  BY <1>1 DEF RecordsTell, SandboxType
<1>3. ASSUME NEW o \in Op, EnsureStep(o) PROVE RecordsTell'
  <2>1. /\ UNCHANGED <<provider, ep>> /\ \A q \in Op \ {o} : op'[q] = op[q]
        /\ mem' # None => \/ mem' = mem
                          \/ mem'.prov = provider /\ Tells(mem', boxes', made')
        /\ disk' # None => disk' = disk \/ Tells(disk', boxes', made')
        /\ OpTells(op'[o], provider, boxes', made')
    BY <1>3, EnsureWrites
  <2>2. \A q \in Op : OpTells(op'[q], provider, boxes', made')
    BY <1>2, <2>1
  <2>3. QED
    BY <1>2, <2>1, <2>2 DEF RecordsTell
<1>4. ASSUME NEW o \in Op, EnsureContainer(o) PROVE RecordsTell'
  <2>1. \A q \in Op : OpTells(op'[q], provider, boxes', made')
    <3>1. \A q \in Op \ {o} : op'[q] = op[q]
      BY <1>4 DEF EnsureContainer, Goto, SandboxType
    <3>2. ASSUME NEW l \in {"image", "load"}, Goto(o, l) PROVE OpTells(op'[o], provider, boxes', made')
      <4> DEFINE t == [op[o] EXCEPT !.pc = l]
      <4>1. op[o] \in OpRec /\ op'[o] = t /\ op[o].pc = "idle"
        BY <1>4, <3>2 DEF Goto, EnsureContainer, SandboxType
      <4>2. t.p = op[o].p /\ t.id = op[o].id /\ t.tok = op[o].tok /\ t.vol = op[o].vol /\ t.pc = l
        BY <4>1 DEF OpRec
      <4> HIDE DEF t
      <4>3. QED
        BY <1>2, <4>1, <4>2 DEF OpTells, Started
    <3>3. op' = op \/ Goto(o, "image") \/ Goto(o, "load")
      BY <1>4 DEF EnsureContainer
    <3>4. QED
      BY <1>2, <3>1, <3>2, <3>3
  <2>2. QED
    BY <1>2, <1>4, <2>1 DEF EnsureContainer, proc, RecordsTell
<1>5. CASE Lookup
  BY <1>2, <1>5 DEF Lookup, proc, RecordsTell
<1>6. CASE LookupVerified
  <2>1. ep.p \in Rec /\ Tells(ep.p, boxes', made') /\ ep.p.prov = provider
    BY <1>2, <1>6 DEF LookupVerified, RecordsTell
  <2>2. mem' # None => Tells(mem', boxes', made') /\ mem'.prov = provider
    BY <1>2, <1>6, <2>1 DEF LookupVerified
  <2>3. ep' # None => Tells(ep'.p, boxes', made') /\ (ep'.pc = "verify" => ep'.p.prov = provider)
    BY <1>6, <2>1 DEF LookupVerified, SandboxType
  <2>4. QED
    BY <1>2, <1>6, <2>2, <2>3 DEF LookupVerified, proc, RecordsTell
<1>7. CASE LookupClears
  BY <1>2, <1>7 DEF LookupClears, proc, RecordsTell
<1>8. CASE Restart
  <2>1. \A q \in Op : op'[q] = NoOp
    BY <1>8 DEF Restart
  <2>2. IdInv' /\ made' \in Nat
    BY IdStep, TypeStep DEF RecordsTell, SandboxType
  <2>3. OpTells(NoOp, provider', boxes', made')
    BY <2>2 DEF OpTells, NoOp, IdInv, Started
  <2>4. QED
    BY <1>2, <1>8, <2>1, <2>3 DEF Restart, RecordsTell
<1>9. CASE /\ UNCHANGED <<provider, ep, op>>
           /\ mem' \in {None, mem} /\ disk' \in {None, disk}
  BY <1>2, <1>9 DEF RecordsTell
<1>10. \/ (\E o \in Op : EnsureContainer(o) \/ EnsureStep(o))
       \/ Lookup \/ LookupVerified \/ LookupClears \/ Restart
       \/ UNCHANGED <<provider, ep, op>> /\ mem' \in {None, mem} /\ disk' \in {None, disk}
  BY
     DEF Next, vars, proc, Delete, RemoveStep, WipeThread, RemoveLoads, RemoveClears, Clears, RemoveBox,
         RemoveVolume, ReapStep, ReapLists, ReapCompares, ReapDestroys, Boots, Dies, Lost
<1>11. QED
  BY <1>3, <1>4, <1>5, <1>6, <1>7, <1>8, <1>9, <1>10

LEMMA OneVolumeStep ==
  ASSUME SandboxType, OneVolume, [Next]_vars
  PROVE  OneVolume'
<1>1. ASSUME vols' \subseteq vols PROVE OneVolume'
  BY <1>1 DEF OneVolume
<1>2. ASSUME provider = "docker" => VolOf(ByName) = {},
             NEW i, vols' \subseteq vols \cup {[prov |-> provider, id |-> i]}
      PROVE  OneVolume'
  <2>1. \A v \in vols' : v \in vols \/ v = [prov |-> provider, id |-> i]
    BY <1>2
  <2>2. CASE provider = "docker"
    <3>1. \A v \in vols : v.prov # "docker"
      BY <1>2, <2>2 DEF VolOf, ByName, Record
    <3>2. QED
      BY <2>1, <3>1 DEF OneVolume
  <2>3. CASE provider # "docker"
    <3>1. \A v \in vols' : v.prov = "docker" => v \in vols
      BY <2>1, <2>3
    <3>2. QED
      BY <3>1 DEF OneVolume
  <2>4. QED
    BY <2>2, <2>3
<1>3. ASSUME NEW o \in Op, DockerVolume(o) \/ DockerRun(o) PROVE OneVolume'
  <2>1. provider = "docker"
    BY <1>3 DEF DockerVolume, DockerRun
  <2>2. \/ vols' = vols
        \/ VolOf(ByName) = {} /\ vols' = vols \cup {[prov |-> provider, id |-> made']}
    BY <1>3, <2>1 DEF DockerVolume, DockerRun, MakesVolume, StartFails
  <2>3. QED
    BY <1>1, <1>2, <2>1, <2>2
<1>4. ASSUME NEW o \in Op, FlyVolume(o) PROVE OneVolume'
  BY <1>1, <1>2, <1>4 DEF FlyVolume, MakesVolume
<1>5. vols' \subseteq vols \/ \E o \in Op : DockerVolume(o) \/ DockerRun(o) \/ FlyVolume(o)
  <2>1. ASSUME NEW o \in Op, EnsureStep(o)
        PROVE  vols' \subseteq vols \/ DockerVolume(o) \/ DockerRun(o) \/ FlyVolume(o)
    <3>1. CASE FlyMachine(o)
      BY <3>1 DEF FlyMachine
    <3>2. CASE ~(DockerVolume(o) \/ DockerRun(o) \/ FlyVolume(o) \/ FlyMachine(o))
      BY <2>1, <3>2
         DEF EnsureStep, LoadRecord, ClearRecord, Clears, DockerStep, FlyStep, EcsStep, DockerImage,
             DockerInspect, DockerVerify, DockerAdopt, DockerScrub, Destroys, DockerHealth, DockerSave,
             FlyVerify, FlyProbe, FlyScrub, FlySave, FlyHealth, EcsVerify, EcsRunTask, EcsTaskRunning,
             EcsSave, EcsHealth, VerifyRest, SaveRest, world
    <3>3. QED
      BY <3>1, <3>2
  <2>2. (\E o \in Op : EnsureStep(o)) \/ vols' \subseteq vols
    BY
       DEF Next, vars, world, EnsureContainer, Lookup, LookupVerified, LookupClears, Delete, RemoveStep,
           WipeThread, RemoveLoads, RemoveClears, Clears, RemoveBox, RemoveVolume, ReapStep, ReapLists,
           ReapCompares, ReapDestroys, Restart, Lost, Boots, Dies
  <2>3. QED
    BY <2>1, <2>2
<1>6. QED
  BY <1>1, <1>3, <1>4, <1>5

-----------------------------------------------------------------------------
(* The flow of one ensure.  Without a /delete in between there is only one, *)
(* and where it stands tells what memory and the record are.                *)

Idle == \A o \in Op : op[o].pc = "idle"
Alone == "overlap" \notin strayed
Calm == Alone /\ (provider = "docker" => "lookup" \notin strayed)

\* Which provider has which steps, and which of them have a record in hand.
Lane(t, prov) ==
  /\ t.pc \in {"image", "inspect"} => prov = "docker"
  /\ t.pc = "running" => prov = "ecs"
  /\ t.pc = "probe" => prov = "fly"
  /\ t.pc = "resave" => prov # "docker"
  /\ t.pc \in {"fresh", "volume"} => t.p = None
  /\ t.pc \in {"verify", "adopt", "reattach", "probe", "resave"} => t.p # None

Making == {"fresh", "volume", "create", "running", "health", "save"}

Flow(t, prov, m, d, why) ==
  /\ t.pc \notin {"image", "inspect", "load"} /\ (t.pc = "health" => prov = "docker") =>
       t.p = d \/ (t.p = None /\ t.pc \in Making /\ "uncleared" \in why)
  /\ t.pc \notin {"image", "inspect", "save", "resave", "health"} => m = None
  /\ t.pc = "health" => (m = None <=> prov = "docker")
  /\ t.pc = "save" => m = [prov |-> prov, id |-> t.id, tok |-> t.tok, vol |-> t.vol]
  /\ t.pc = "resave" => m = t.p

AloneInv ==
  Alone =>
    /\ \A o \in Op : op[o].pc # "idle" => inFlight = o /\ Lane(op[o], provider)
    /\ Removing => /\ Idle /\ ep = None
                   /\ rm.pc # "load" => mem = None
                   /\ ~rm.wipe => disk = None

FlowInv ==
  Calm =>
    /\ \A o \in Op : op[o].pc # "idle" => Flow(op[o], provider, mem, disk, strayed)
    /\ mem # None /\ ~Removing /\ "unsaved" \notin strayed /\ (\A o \in Op : op[o].pc # "save") => mem = disk
    /\ provider # "docker" => ep = None /\ (ensured /\ mem = None /\ ~Removing => disk = None)

\* The ways an ensure goes on.
LEMMA OpMoves ==
  ASSUME SandboxType, NEW o \in Op
  PROVE  /\ \A l \in OpStates : Goto(o, l) =>
              /\ op'[o].pc = l /\ op'[o].p = op[o].p
              /\ op'[o].id = op[o].id /\ op'[o].tok = op[o].tok /\ op'[o].vol = op[o].vol
         /\ Settle(o) => op'[o].pc = "idle"
         /\ MakesVolume(o) => op'[o].pc = "create" /\ op'[o].p = op[o].p /\ op'[o].vol = made'
         /\ \A vol \in Nat, l \in OpStates : StartsBox(o, vol, l) =>
              /\ op'[o].pc = l /\ op'[o].p = op[o].p
              /\ op'[o].id = made' /\ op'[o].tok = Token(o, made') /\ op'[o].vol = vol
<1>1. op[o] \in OpRec
  BY DEF SandboxType
<1>2. ASSUME NEW l \in OpStates, Goto(o, l)
      PROVE  /\ op'[o].pc = l /\ op'[o].p = op[o].p
             /\ op'[o].id = op[o].id /\ op'[o].tok = op[o].tok /\ op'[o].vol = op[o].vol
  BY <1>1, <1>2 DEF Goto, SandboxType, OpRec
<1>3. ASSUME Settle(o) PROVE op'[o].pc = "idle"
  BY <1>3 DEF Settle, NoOp, SandboxType
<1>4. ASSUME MakesVolume(o) PROVE op'[o].pc = "create" /\ op'[o].p = op[o].p /\ op'[o].vol = made'
  <2>1. op'[o] = [op[o] EXCEPT !.pc = "create", !.vol = made']
    BY <1>4 DEF MakesVolume, SandboxType
  <2>2. QED
    BY <1>1, <2>1 DEF OpRec
<1>5. ASSUME NEW vol \in Nat, NEW l \in OpStates, StartsBox(o, vol, l)
      PROVE  /\ op'[o].pc = l /\ op'[o].p = op[o].p
             /\ op'[o].id = made' /\ op'[o].tok = Token(o, made') /\ op'[o].vol = vol
  <2> DEFINE n == made'
             k == Token(o, made')
  <2>1. op'[o] = [op[o] EXCEPT !.pc = l, !.id = n, !.tok = k, !.vol = vol]
    BY <1>5 DEF StartsBox, SandboxType
  <2> HIDE DEF n, k
  <2>2. op'[o].pc = l /\ op'[o].p = op[o].p /\ op'[o].id = n /\ op'[o].tok = k /\ op'[o].vol = vol
    BY <1>1, <2>1 DEF OpRec
  <2>3. QED
    BY <2>2 DEF n, k
<1>6. QED
  BY <1>2, <1>3, <1>4, <1>5

\* What excuses a loss is never forgotten, and the provider is one for life.
LEMMA StraysGrow ==
  ASSUME [Next]_vars
  PROVE  strayed \subseteq strayed' /\ (Restart \/ provider' = provider)
<1>1. ASSUME NEW o \in Op, EnsureStep(o) PROVE strayed \subseteq strayed' /\ provider' = provider
  <2>1. CASE FlyProbe(o) \/ ClearRecord(o)
    BY <2>1 DEF FlyProbe, ClearRecord, Clears, Strays
  <2>2. CASE DockerSave(o) \/ FlySave(o) \/ EcsSave(o)
    BY <2>2 DEF DockerSave, FlySave, EcsSave, Saves, SaveRest, Strays
  <2>3. CASE ~(FlyProbe(o) \/ ClearRecord(o) \/ DockerSave(o) \/ FlySave(o) \/ EcsSave(o))
    BY <1>1, <2>3
       DEF EnsureStep, LoadRecord, DockerStep, FlyStep, EcsStep, DockerImage, DockerInspect, DockerVerify,
           DockerAdopt, DockerScrub, Destroys, DockerVolume, DockerRun, DockerHealth, FlyVerify, FlyScrub,
           FlyVolume, FlyMachine, FlyHealth, EcsVerify, EcsRunTask, EcsTaskRunning, EcsHealth, VerifyRest,
           VolumeRest, StartRest, proc, ghosts
  <2>4. QED
    BY <2>1, <2>2, <2>3
<1>2. ASSUME NEW o \in Op, EnsureContainer(o) PROVE strayed \subseteq strayed' /\ provider' = provider
  BY <1>2 DEF EnsureContainer, Strays, proc
<1>3. CASE Lookup \/ LookupVerified \/ LookupClears \/ Delete
  BY <1>3 DEF Lookup, LookupVerified, LookupClears, Delete, Strays, proc
<1>4. CASE RemoveStep
  BY <1>4
     DEF RemoveStep, WipeThread, RemoveLoads, RemoveClears, Clears, RemoveBox, RemoveVolume, Strays, proc,
         ghosts
<1>5. CASE ReapStep
  BY <1>5 DEF ReapStep, ReapLists, ReapCompares, ReapDestroys, Strays, proc, ghosts
<1>6. CASE Restart
  BY <1>6 DEF Restart
<1>7. ASSUME NEW b \in boxes, Boots(b) \/ Dies(b) PROVE strayed \subseteq strayed' /\ provider' = provider
  BY <1>7 DEF Boots, Dies, proc, ghosts
<1>8. ASSUME NEW v \in vols, Lost(v) PROVE strayed \subseteq strayed' /\ provider' = provider
  BY <1>8 DEF Lost, Strays
<1>9. CASE UNCHANGED vars
  BY <1>9 DEF vars, proc, ghosts
<1>10. QED
  BY <1>1, <1>2, <1>3, <1>4, <1>5, <1>6, <1>7, <1>8, <1>9 DEF Next

LEMMA LaneEnsure ==
  ASSUME SandboxType, AloneInv, Alone, NEW o \in Op, EnsureStep(o)
  PROVE  /\ \A q \in Op \ {o} : op[q].pc = "idle"
         /\ Lane(op[o], provider) /\ ~Removing
         /\ op'[o].pc # "idle" => inFlight' = o /\ Lane(op'[o], provider)
<1>1. /\ op[o].pc # "idle" /\ inFlight = o /\ Lane(op[o], provider) /\ ~Removing
      /\ \A q \in Op \ {o} : op[q].pc = "idle"
  BY EnsureFrame DEF AloneInv, Idle
<1> DEFINE Goes == op'[o].pc # "idle" => inFlight' = o /\ Lane(op'[o], provider)
<1>2. ASSUME Settle(o) PROVE Goes
  BY <1>2, OpMoves
<1>3. CASE LoadRecord(o)
  <2>1. /\ op'[o].pc \in {"fresh", "verify", "clear"} /\ op'[o].p = disk
        /\ op'[o].pc = "fresh" => disk = None
        /\ op'[o].pc = "verify" => disk # None
    <3>1. op[o] \in OpRec
      BY DEF SandboxType
    <3>2. QED
      BY <1>3, <3>1 DEF LoadRecord, SandboxType, OpRec
  <2>2. QED
    BY <1>1, <1>3, <2>1 DEF LoadRecord, Waits, Lane
<1>4. CASE ClearRecord(o)
  <2>1. op'[o].pc = "fresh" /\ op'[o].p = None
    <3>1. op[o] \in OpRec
      BY DEF SandboxType
    <3>2. QED
      BY <1>4, <3>1 DEF ClearRecord, Clears, SandboxType, OpRec
  <2>2. QED
    BY <1>1, <1>4, <2>1 DEF ClearRecord, Clears, Waits, Lane
<1>5. CASE DockerRun(o) \/ FlyMachine(o) \/ EcsRunTask(o)
  <2>1. \/ Settle(o)
        \/ \E vol \in Nat, l \in Started : StartsBox(o, vol, l) /\ (l = "running" => provider = "ecs")
    <3>1. ASSUME StartsBox(o, made', "health") PROVE made' \in Nat
      BY <3>1 DEF StartsBox, SandboxType
    <3>2. CASE DockerRun(o)
      BY <3>1, <3>2 DEF DockerRun, VolOf, Vol, StartFails, Throws, SandboxType, Started
    <3>3. CASE FlyMachine(o)
      BY <3>3, OpTypes DEF FlyMachine, StartFails, Throws, Rec, Started
    <3>4. CASE EcsRunTask(o)
      BY <3>4 DEF EcsRunTask, StartFails, Throws, Started
    <3>5. QED
      BY <1>5, <3>2, <3>3, <3>4
  <2>2. ASSUME NEW vol \in Nat, NEW l \in Started, StartsBox(o, vol, l), l = "running" => provider = "ecs"
        PROVE  Goes
    <3>1. inFlight' = o /\ op'[o].pc = l
      BY <1>1, <2>2, OpMoves DEF StartsBox, Waits, Started, OpStates
    <3>2. QED
      BY <2>2, <3>1 DEF Lane, Started
  <2>3. QED
    BY <1>1, <1>2, <2>1, <2>2
<1>6. CASE DockerVolume(o) \/ FlyVolume(o)
  <2>1. Settle(o) \/ (MakesVolume(o) /\ inFlight' = o) \/ (Goto(o, "create") /\ inFlight' = o)
    BY <1>1, <1>6 DEF DockerVolume, FlyVolume, MakesVolume, Throws, Waits
  <2>2. QED
    BY <1>1, <1>2, <2>1, OpMoves DEF Lane, OpStates
<1>7. CASE DockerStep(o) /\ ~(DockerRun(o) \/ DockerVolume(o))
  <2>1. \/ Settle(o)
        \/ /\ inFlight' = o /\ provider = "docker"
           /\ \/ Goto(o, "inspect") \/ Goto(o, "load") \/ Goto(o, "clear") \/ Goto(o, "create")
              \/ Goto(o, "save") \/ (op[o].pc = "fresh" /\ Goto(o, "volume"))
              \/ (op[o].pc = "verify" /\ (Goto(o, "adopt") \/ Goto(o, "reattach")))
    BY <1>1, <1>7
       DEF DockerStep, DockerImage, DockerInspect, DockerVerify, DockerAdopt, DockerScrub, Destroys,
           DockerHealth, DockerSave, FoundAlive, FoundDead, Returns, Throws, Waits, Lane
  <2>2. QED
    BY <1>1, <1>2, <2>1, OpMoves DEF Lane, OpStates
<1>8. CASE FlyStep(o) /\ ~(FlyMachine(o) \/ FlyVolume(o))
  <2>1. \/ Settle(o)
        \/ /\ inFlight' = o /\ provider = "fly"
           /\ \/ Goto(o, "clear") \/ Goto(o, "create") \/ Goto(o, "health")
              \/ (op[o].pc = "fresh" /\ Goto(o, "volume"))
              \/ (op[o].pc = "verify" /\ (Goto(o, "resave") \/ Goto(o, "probe")))
              \/ (op[o].pc = "probe" /\ Goto(o, "reattach"))
    BY <1>1, <1>8
       DEF FlyStep, FlyVerify, FlyProbe, FlyScrub, Destroys, FlySave, FlyHealth, FoundAlive, FoundDead,
           Returns, Throws, Waits, Lane
  <2>2. QED
    BY <1>1, <1>2, <2>1, OpMoves DEF Lane, OpStates
<1>9. CASE EcsStep(o) /\ ~EcsRunTask(o)
  <2>1. \/ Settle(o)
        \/ /\ inFlight' = o /\ provider = "ecs"
           /\ \/ Goto(o, "create") \/ Goto(o, "save") \/ Goto(o, "health")
              \/ (op[o].pc = "verify" /\ Goto(o, "resave"))
    BY <1>1, <1>9
       DEF EcsStep, EcsVerify, EcsTaskRunning, EcsSave, EcsHealth, FoundAlive, FoundDead, Returns,
           Throws, Waits, Lane
  <2>2. QED
    BY <1>1, <1>2, <2>1, OpMoves DEF Lane, OpStates
<1>10. Goes
  BY <1>3, <1>4, <1>5, <1>6, <1>7, <1>8, <1>9 DEF EnsureStep, DockerStep, FlyStep, EcsStep
<1>11. QED
  BY <1>1, <1>10

LEMMA FlowEnsure ==
  ASSUME SandboxType, AloneInv, FlowInv, Calm, NEW o \in Op, EnsureStep(o), [Next]_vars
  PROVE  /\ op'[o].pc # "idle" => Flow(op'[o], provider, mem', disk', strayed')
         /\ mem' # None /\ op'[o].pc # "save" /\ "unsaved" \notin strayed' => mem' = disk'
         /\ provider # "docker" => (ensured' /\ mem' = None => disk' = None)
<1>1. op[o].pc # "idle" /\ strayed \subseteq strayed'
  BY EnsureFrame, StraysGrow
<1>2. /\ Flow(op[o], provider, mem, disk, strayed) /\ Lane(op[o], provider) /\ ~Removing
      /\ \A q \in Op \ {o} : op[q].pc = "idle"
      /\ mem # None /\ op[o].pc # "save" /\ "unsaved" \notin strayed' => mem = disk
      /\ provider # "docker" => (ensured /\ mem = None => disk = None)
  BY <1>1, LaneEnsure DEF FlowInv, Calm
<1>3. InHand(o) \in Rec /\ InHand(o) # None
      /\ InHand(o) = [prov |-> provider, id |-> op[o].id, tok |-> op[o].tok, vol |-> op[o].vol]
  BY OpTypes, SandboxAssumption DEF InHand, Record, Rec
<1> DEFINE Goes == op'[o].pc # "idle" => Flow(op'[o], provider, mem', disk', strayed')
           Agree == mem' # None /\ op'[o].pc # "save" /\ "unsaved" \notin strayed' => mem' = disk'
           Used == provider # "docker" => (ensured' /\ mem' = None => disk' = None)
<1>4. CASE LoadRecord(o)
  <2>1. /\ op'[o].pc \in {"fresh", "verify", "clear"} /\ op'[o].p = disk
        /\ op'[o].pc = "fresh" => disk = None
        /\ op'[o].pc = "verify" => disk # None
    <3>1. op[o] \in OpRec
      BY DEF SandboxType
    <3>2. QED
      BY <1>4, <3>1 DEF LoadRecord, SandboxType, OpRec
  <2>2. QED
    BY <1>1, <1>2, <1>4, <2>1 DEF LoadRecord, Waits, Flow, Lane, Making
<1>5. CASE ClearRecord(o)
  <2>1. op'[o].pc = "fresh" /\ op'[o].p = None
    <3>1. op[o] \in OpRec
      BY DEF SandboxType
    <3>2. QED
      BY <1>5, <3>1 DEF ClearRecord, Clears, SandboxType, OpRec
  <2>2. QED
    BY <1>1, <1>2, <1>5, <2>1 DEF ClearRecord, Clears, Strays, Waits, Flow, Lane, Making
<1>6. CASE DockerStep(o)
  <2>1. CASE DockerImage(o)
    <3>1. \/ (Goto(o, "inspect") /\ Waits)
          \/ (Goto(o, "load") /\ Waits /\ mem = None)
          \/ Settle(o) /\ UNCHANGED ensured
      BY <2>1 DEF DockerImage, Throws
    <3>2. QED
      BY <1>1, <1>2, <2>1, <3>1, OpMoves DEF DockerImage, Waits, Flow, Lane, Making, OpStates
  <2>2. CASE DockerInspect(o)
    <3>1. op[o].pc = "inspect" /\ UNCHANGED disk
      BY <2>2 DEF DockerInspect
    <3>2. \/ Settle(o) /\ UNCHANGED mem
          \/ (Goto(o, "load") /\ Waits /\ mem' = None)
      BY <2>2 DEF DockerInspect, Returns
    <3>3. QED
      BY <1>1, <1>2, <3>1, <3>2, OpMoves DEF Waits, Flow, Lane, Making, OpStates
  <2>3. CASE DockerVerify(o)
    BY <1>1, <1>2, <2>3, OpMoves DEF DockerVerify, FoundAlive, FoundDead, Waits, VerifyRest, Flow, Lane, Making, OpStates
  <2>4. CASE DockerAdopt(o)
    BY <1>1, <1>2, <2>4, OpMoves DEF DockerAdopt, Returns, Throws, Flow, Lane, Making
  <2>5. CASE DockerScrub(o)
    BY <1>1, <1>2, <2>5, OpMoves DEF DockerScrub, Destroys, Waits, Flow, Lane, Making, OpStates
  <2>6. CASE DockerVolume(o)
    BY <1>1, <1>2, <2>6, OpMoves DEF DockerVolume, MakesVolume, Throws, Waits, VolumeRest, Flow, Lane, Making, OpStates
  <2>7. CASE DockerRun(o)
    <3>1. \/ \E vol \in Nat : StartsBox(o, vol, "health")
          \/ Settle(o) /\ UNCHANGED ensured
      <4>1. ASSUME StartsBox(o, made', "health") PROVE made' \in Nat
        BY <4>1 DEF StartsBox, SandboxType
      <4>2. QED
        BY <2>7, <4>1 DEF DockerRun, VolOf, Vol, StartFails, Throws, SandboxType
    <3>2. QED
      BY <1>1, <1>2, <2>7, <3>1, OpMoves DEF DockerRun, StartRest, StartsBox, Waits, Flow, Lane, Making, OpStates
  <2>8. CASE DockerHealth(o)
    BY <1>1, <1>2, <1>3, <2>8, OpMoves DEF DockerHealth, Throws, Waits, Flow, Lane, Making, OpStates
  <2>9. CASE DockerSave(o)
    BY <1>1, <1>2, <1>3, <2>9, OpMoves DEF DockerSave, Saves, Strays, Returns, SaveRest, Flow, Lane, Making
  <2>10. QED
    BY <1>6, <2>1, <2>2, <2>3, <2>4, <2>5, <2>6, <2>7, <2>8, <2>9 DEF DockerStep
<1>7. CASE FlyStep(o)
  <2>1. CASE FlyVerify(o)
    <3>1. op[o].pc = "verify" /\ UNCHANGED disk /\ provider = "fly"
      BY <2>1 DEF FlyVerify, FoundAlive, FoundDead, VerifyRest
    <3>2. \/ (Goto(o, "probe") /\ Waits /\ UNCHANGED mem)
          \/ (Goto(o, "resave") /\ Waits /\ mem' = op[o].p)
          \/ Returns(o) /\ mem' = op[o].p
      BY <2>1 DEF FlyVerify
    <3>3. QED
      BY <1>1, <1>2, <3>1, <3>2, OpMoves DEF Waits, Returns, Flow, Lane, Making, OpStates
  <2>2. CASE FlyProbe(o)
    BY <1>1, <1>2, <2>2, OpMoves DEF FlyProbe, Waits, Flow, Lane, Making, OpStates
  <2>3. CASE FlyScrub(o)
    BY <1>1, <1>2, <2>3, OpMoves DEF FlyScrub, Destroys, Waits, Flow, Lane, Making, OpStates
  <2>4. CASE FlyVolume(o)
    BY <1>1, <1>2, <2>4, OpMoves DEF FlyVolume, MakesVolume, Throws, Waits, VolumeRest, Flow, Lane, Making
  <2>5. CASE FlyMachine(o)
    <3>1. \/ \E vol \in Nat : StartsBox(o, vol, "save") /\ mem' = Record(made', Token(o, made'), vol)
          \/ Settle(o) /\ UNCHANGED <<mem, ensured>>
      BY <2>5, OpTypes DEF FlyMachine, StartFails, Throws, Rec
    <3>2. UNCHANGED disk /\ op[o].pc = "create" /\ provider = "fly"
      BY <2>5 DEF FlyMachine, StartRest
    <3>3. CASE Settle(o) /\ UNCHANGED <<mem, ensured>>
      BY <1>2, <3>2, <3>3, OpMoves
    <3>4. ASSUME NEW vol \in Nat, StartsBox(o, vol, "save"), mem' = Record(made', Token(o, made'), vol)
          PROVE  Goes /\ Agree /\ Used
      <4>1. /\ op'[o].pc = "save" /\ op'[o].p = op[o].p
            /\ mem' = [prov |-> provider, id |-> op'[o].id, tok |-> op'[o].tok, vol |-> op'[o].vol]
        BY <3>4, OpMoves DEF Record, OpStates
      <4>2. mem' # None
        <5>1. made' \in Nat /\ Token(o, made') \in Nat
          BY <3>4, OpTypes DEF StartsBox, SandboxType
        <5>2. mem' \in Rec
          BY <3>4, <5>1 DEF Record, Rec, SandboxType
        <5>3. QED
          BY <5>2, SandboxAssumption DEF Rec
      <4>3. QED
        BY <1>1, <1>2, <3>2, <4>1, <4>2 DEF Flow, Making
    <3>5. QED
      BY <1>2, <3>1, <3>3, <3>4
  <2>6. CASE FlySave(o)
    BY <1>1, <1>2, <1>3, <2>6, OpMoves DEF FlySave, Saves, Strays, Returns, Waits, SaveRest, Flow, Lane, Making, OpStates
  <2>7. CASE FlyHealth(o)
    BY <1>1, <1>2, <2>7, OpMoves DEF FlyHealth, Returns, Throws, Flow, Lane, Making
  <2>8. QED
    BY <1>7, <2>1, <2>2, <2>3, <2>4, <2>5, <2>6, <2>7 DEF FlyStep
<1>8. CASE EcsStep(o)
  <2>1. CASE EcsVerify(o)
    <3>1. op[o].pc = "verify" /\ UNCHANGED disk /\ provider = "ecs"
      BY <2>1 DEF EcsVerify, FoundAlive, FoundDead, VerifyRest
    <3>2. \/ (Goto(o, "create") /\ Waits /\ UNCHANGED mem)
          \/ (Goto(o, "resave") /\ Waits /\ mem' = op[o].p)
          \/ Returns(o) /\ mem' = op[o].p
      BY <2>1 DEF EcsVerify
    <3>3. QED
      BY <1>1, <1>2, <3>1, <3>2, OpMoves DEF Waits, Returns, Flow, Lane, Making, OpStates
  <2>2. CASE EcsRunTask(o)
    <3>1. op[o].pc \in {"create", "fresh"} /\ provider = "ecs" /\ UNCHANGED <<mem, disk>>
      BY <2>2 DEF EcsRunTask, StartRest
    <3>2. \/ Settle(o) /\ UNCHANGED ensured
          \/ (op'[o].pc = "running" /\ op'[o].p = op[o].p /\ Waits)
      <4>1. CASE StartsBox(o, 0, "running")
        BY <4>1, OpMoves DEF StartsBox, OpStates
      <4>2. QED
        BY <2>2, <4>1 DEF EcsRunTask, StartFails, Throws
    <3>3. QED
      BY <1>1, <1>2, <3>1, <3>2, OpMoves DEF Waits, Flow, Lane, Making
  <2>3. CASE EcsTaskRunning(o)
    <3>1. op[o].pc = "running" /\ UNCHANGED disk
      BY <2>3 DEF EcsTaskRunning
    <3>2. \/ Settle(o) /\ UNCHANGED <<mem, ensured>>
          \/ (Goto(o, "save") /\ Waits /\ mem' = InHand(o))
      BY <2>3 DEF EcsTaskRunning, Throws
    <3>3. QED
      BY <1>1, <1>2, <1>3, <3>1, <3>2, OpMoves DEF Waits, Flow, Lane, Making, OpStates
  <2>4. CASE EcsSave(o)
    BY <1>1, <1>2, <1>3, <2>4, OpMoves DEF EcsSave, Saves, Strays, Returns, Waits, SaveRest, Flow, Lane, Making, OpStates
  <2>5. CASE EcsHealth(o)
    BY <1>1, <1>2, <2>5, OpMoves DEF EcsHealth, Returns, Throws, Flow, Lane, Making
  <2>6. QED
    BY <1>8, <2>1, <2>2, <2>3, <2>4, <2>5 DEF EcsStep
<1>9. Goes /\ Agree /\ Used
  BY <1>4, <1>5, <1>6, <1>7, <1>8 DEF EnsureStep
<1>10. QED
  BY <1>2, <1>9

\* The steps but those of an ensure, by what they may touch.
OtherStep ==
  \/ \E o \in Op : EnsureContainer(o)
  \/ Lookup \/ LookupVerified \/ LookupClears \/ Delete \/ RemoveStep \/ Restart
  \/ UNCHANGED <<provider, mem, disk, inFlight, op, ensured, ep, rm>>

LEMMA Others ==
  ASSUME [Next]_vars, \A o \in Op : ~EnsureStep(o)
  PROVE  OtherStep
BY DEF Next, vars, proc, ReapStep, ReapLists, ReapCompares, ReapDestroys, Boots, Dies, Lost, OtherStep

LEMMA Ensures ==
  ASSUME SandboxType, NEW o \in Op, EnsureContainer(o)
  PROVE  \/ UNCHANGED <<inFlight, op>> /\ mem # None
         \/ /\ inFlight' = o /\ \A q \in Op \ {o} : op'[q] = op[q]
            /\ UNCHANGED ensured
            /\ \/ op'[o].pc = "image" /\ provider = "docker"
               \/ op'[o].pc = "load" /\ mem = None
BY OpMoves DEF EnsureContainer, Goto, OpStates, SandboxType

LEMMA RemoveFrame ==
  ASSUME SandboxType, RemoveStep
  PROVE  /\ UNCHANGED <<provider, inFlight, op, ensured, ep>> /\ Removing
         /\ mem' = mem \/ mem' = None
         /\ disk' = disk \/ disk' = None
         /\ rm'.pc # "load" => mem' = None \/ (rm.pc # "load" /\ mem' = mem)
         /\ ~rm'.wipe => disk' = None \/ (~rm.wipe /\ disk' = disk)
<1>1. CASE WipeThread
  BY <1>1 DEF WipeThread, Removing, proc, SandboxType, RmRec
<1>2. CASE RemoveLoads
  BY <1>2 DEF RemoveLoads, Removing, proc, SandboxType, RmRec
<1>3. CASE RemoveClears
  BY <1>3 DEF RemoveClears, Clears, Removing, SandboxType, RmRec
<1>4. CASE RemoveBox \/ RemoveVolume
  BY <1>4 DEF RemoveBox, RemoveVolume, Removing, SandboxType, RmRec
<1>5. QED
  BY <1>1, <1>2, <1>3, <1>4 DEF RemoveStep

LEMMA AloneStep ==
  ASSUME SandboxType, AloneInv, [Next]_vars
  PROVE  AloneInv'
<1> SUFFICES ASSUME Alone' PROVE
      /\ \A o \in Op : op'[o].pc # "idle" => inFlight' = o /\ Lane(op'[o], provider')
      /\ Removing' => /\ Idle' /\ ep' = None
                      /\ rm'.pc # "load" => mem' = None
                      /\ ~rm'.wipe => disk' = None
  BY DEF AloneInv
<1> DEFINE Goal ==
      /\ \A o \in Op : op'[o].pc # "idle" => inFlight' = o /\ Lane(op'[o], provider')
      /\ Removing' => /\ Idle' /\ ep' = None
                      /\ rm'.pc # "load" => mem' = None
                      /\ ~rm'.wipe => disk' = None
<1>1. /\ Alone /\ "overlap" \notin strayed'
      /\ \A o \in Op : op[o].pc # "idle" => inFlight = o /\ Lane(op[o], provider)
      /\ Removing => /\ Idle /\ ep = None
                     /\ rm.pc # "load" => mem = None
                     /\ ~rm.wipe => disk = None
  BY StraysGrow DEF Alone, AloneInv
<1>2. ASSUME NEW o \in Op, EnsureStep(o) PROVE Goal
  <2>1. /\ \A q \in Op \ {o} : op'[q].pc = "idle"
        /\ op'[o].pc # "idle" => inFlight' = o /\ Lane(op'[o], provider)
        /\ ~Removing /\ UNCHANGED <<provider, rm>>
    BY <1>1, <1>2, LaneEnsure, EnsureFrame
  <2>2. QED
    BY <2>1 DEF Removing
<1>3. ASSUME NEW o \in Op, EnsureContainer(o) PROVE Goal
  <2>1. ~Removing /\ UNCHANGED <<provider, rm>>
    BY <1>1, <1>3 DEF EnsureContainer, Strays, proc
  <2>2. \A q \in Op : op[q].pc = "idle"
    BY <1>1, <1>3, SandboxAssumption DEF EnsureContainer
  <2>3. QED
    BY <1>1, <1>3, <2>1, <2>2, Ensures DEF Removing, Lane
<1>4. CASE Lookup
  BY <1>1, <1>4 DEF Lookup, Strays, Removing, proc
<1>5. CASE LookupVerified \/ LookupClears
  BY <1>1, <1>5 DEF LookupVerified, LookupClears, Removing, proc
<1>6. CASE Delete
  BY <1>1, <1>6 DEF Delete, Strays, Busy, NoRemove, Removing, Idle
<1>7. CASE RemoveStep
  BY <1>1, <1>7, RemoveFrame DEF Idle
<1>8. CASE Restart
  BY <1>8 DEF Restart, Removing, NoOp, NoRemove
<1>9. CASE UNCHANGED <<provider, mem, disk, inFlight, op, ensured, ep, rm>>
  BY <1>1, <1>9 DEF Removing, Idle
<1>10. QED
  BY <1>2, <1>3, <1>4, <1>5, <1>6, <1>7, <1>8, <1>9, Others DEF OtherStep

LEMMA FlowStep ==
  ASSUME SandboxType, AloneInv, FlowInv, [Next]_vars
  PROVE  FlowInv'
<1> DEFINE Goal ==
      /\ \A o \in Op : op'[o].pc # "idle" => Flow(op'[o], provider', mem', disk', strayed')
      /\ mem' # None /\ ~Removing' /\ "unsaved" \notin strayed' /\ (\A o \in Op : op'[o].pc # "save") =>
           mem' = disk'
      /\ provider' # "docker" => ep' = None /\ (ensured' /\ mem' = None /\ ~Removing' => disk' = None)
<1> SUFFICES ASSUME Calm' PROVE Goal
  BY DEF FlowInv
<1>1. CASE Restart
  BY <1>1 DEF Restart, Removing, NoOp, NoRemove
<1>2. CASE ~Restart
  <2>1. /\ Calm /\ Alone /\ provider' = provider /\ "overlap" \notin strayed'
        /\ provider = "docker" => "lookup" \notin strayed'
        /\ strayed \subseteq strayed'
    BY <1>2, StraysGrow DEF Calm, Alone
  <2>2. /\ \A o \in Op : op[o].pc # "idle" => Flow(op[o], provider, mem, disk, strayed)
        /\ mem # None /\ ~Removing /\ "unsaved" \notin strayed /\ (\A o \in Op : op[o].pc # "save") => mem = disk
        /\ provider # "docker" => ep = None /\ (ensured /\ mem = None /\ ~Removing => disk = None)
    BY <2>1 DEF FlowInv
  <2>3. /\ \A o \in Op : op[o].pc # "idle" => inFlight = o
        /\ Removing => /\ Idle /\ ep = None
                       /\ rm.pc # "load" => mem = None
                       /\ ~rm.wipe => disk = None
    BY <2>1 DEF AloneInv
  <2>4. ASSUME NEW o \in Op, EnsureStep(o) PROVE Goal
    <3>1. /\ op'[o].pc # "idle" => Flow(op'[o], provider, mem', disk', strayed')
          /\ mem' # None /\ op'[o].pc # "save" /\ "unsaved" \notin strayed' => mem' = disk'
          /\ provider # "docker" => (ensured' /\ mem' = None => disk' = None)
      BY <2>1, <2>4, FlowEnsure
    <3>2. ~Removing /\ UNCHANGED <<ep, rm>> /\ \A q \in Op \ {o} : op'[q].pc = "idle"
      BY <2>1, <2>4, LaneEnsure, EnsureFrame
    <3>3. QED
      BY <2>1, <2>2, <3>1, <3>2 DEF Removing
  <2>5. ASSUME NEW o \in Op, EnsureContainer(o) PROVE Goal
    <3>1. ~Removing /\ UNCHANGED <<ep, rm, mem, disk>>
      BY <2>1, <2>5 DEF EnsureContainer, Strays
    <3>2. \A q \in Op : op[q].pc = "idle"
      BY <2>3, <2>5, SandboxAssumption DEF EnsureContainer
    <3>3. \A q \in Op : op'[q].pc # "save"
      BY <2>5, <3>2, Ensures
    <3>4. QED
      BY <2>1, <2>2, <2>5, <3>1, <3>2, <3>3, Ensures DEF Removing, Flow
  <2>6. CASE Lookup
    BY <2>1, <2>2, <2>6 DEF Lookup, Strays, Removing, Flow
  <2>7. CASE LookupVerified
    <3>1. provider = "docker" /\ ~Removing /\ UNCHANGED <<disk, inFlight, op, ensured, rm>>
      BY <2>2, <2>3, <2>7 DEF LookupVerified
    <3>2. CASE UNCHANGED mem
      BY <2>1, <2>2, <3>1, <3>2 DEF Removing, Flow
    <3>3. CASE mem' # mem
      <4>1. mem' = disk /\ inFlight = None
        BY <2>1, <2>7, <3>1, <3>3 DEF LookupVerified, Strays
      <4>2. \A o \in Op : op[o].pc = "idle"
        BY <2>3, <4>1, SandboxAssumption
      <4>3. QED
        BY <2>1, <3>1, <4>1, <4>2 DEF Removing
    <3>4. QED
      BY <3>2, <3>3
  <2>8. CASE LookupClears
    <3>1. provider = "docker" /\ ~Removing /\ UNCHANGED <<mem, inFlight, op, ensured, rm>>
      BY <2>2, <2>3, <2>8 DEF LookupClears
    <3>2. CASE disk' = disk
      BY <2>1, <2>2, <3>1, <3>2 DEF Removing, Flow
    <3>3. CASE disk' # disk
      <4>1. mem = None /\ inFlight = None
        BY <2>1, <2>8, <3>1, <3>3 DEF LookupClears, Strays
      <4>2. \A o \in Op : op[o].pc = "idle"
        BY <2>3, <4>1, SandboxAssumption
      <4>3. QED
        BY <2>1, <3>1, <4>1, <4>2
    <3>4. QED
      BY <3>2, <3>3
  <2>9. CASE Delete
    BY <2>1, <2>2, <2>9 DEF Delete, Strays, Busy, NoRemove, Removing, Idle
  <2>10. CASE RemoveStep
    <3>1. /\ Idle' /\ ep' = None /\ UNCHANGED ensured
          /\ ~Removing' => mem' = None /\ disk' = None
      BY <2>3, <2>10, RemoveFrame DEF Idle, Removing
    <3>2. QED
      BY <3>1 DEF Idle
  <2>11. CASE UNCHANGED <<provider, mem, disk, inFlight, op, ensured, ep, rm>>
    BY <2>1, <2>2, <2>11 DEF Removing, Flow
  <2>12. QED
    BY <1>2, <2>4, <2>5, <2>6, <2>7, <2>8, <2>9, <2>10, <2>11, Others DEF OtherStep
<1>3. QED
  BY <1>1, <1>2

-----------------------------------------------------------------------------
(* Tokens.  A Docker container is found by the name of the thread, so the  *)
(* token on record and in memory must be the one of whatever runs.         *)

Clean == strayed \cap {"overlap", "lookup", "uncleared"} = {}
AllTok(bs, tok) == \A b \in bs : b.prov = "docker" => b.tok = tok

TokenInv ==
  Clean =>
    /\ disk # None /\ disk.prov = "docker" => AllTok(boxes, disk.tok)
    /\ mem # None /\ mem.prov = "docker" => AllTok(boxes, mem.tok)
    /\ \A o \in Op : provider = "docker" /\ op[o].pc \in {"health", "save"} => AllTok(boxes, op[o].tok)

\* The only records an ensure writes: the one it has in hand, the one it loaded.
LEMMA EnsureSaves ==
  ASSUME SandboxType, NEW o \in Op, EnsureStep(o)
  PROVE  \/ UNCHANGED <<disk, work>>
         \/ op[o].pc = "clear" /\ disk' = None /\ UNCHANGED work
         \/ op[o].pc = "save" /\ disk' = InHand(o) /\ Occupies(InHand(o))
         \/ op[o].pc = "resave" /\ disk' = op[o].p /\ Occupies(op[o].p)
<1>1. CASE LoadRecord(o) \/ ClearRecord(o)
  BY <1>1 DEF LoadRecord, ClearRecord, Clears, ghosts
<1>2. CASE DockerStep(o)
  BY <1>2
     DEF DockerStep, DockerImage, DockerInspect, DockerVerify, DockerAdopt, DockerScrub, Destroys,
         DockerVolume, DockerRun, DockerHealth, DockerSave, VerifyRest, VolumeRest, StartRest, Saves, ghosts
<1>3. CASE FlyStep(o)
  BY <1>3
     DEF FlyStep, FlyVerify, FlyProbe, FlyScrub, Destroys, FlyVolume, FlyMachine, FlySave, FlyHealth,
         VerifyRest, VolumeRest, StartRest, Saves, ghosts
<1>4. CASE EcsStep(o)
  BY <1>4
     DEF EcsStep, EcsVerify, EcsRunTask, EcsTaskRunning, EcsSave, EcsHealth, VerifyRest, StartRest,
         Saves, ghosts
<1>5. QED
  BY <1>1, <1>2, <1>3, <1>4 DEF EnsureStep

\* What an ensure remembers: the record it loaded, or what it is about to save.
LEMMA EnsureRemembers ==
  ASSUME SandboxType, NEW o \in Op, EnsureStep(o)
  PROVE  \/ mem' \in {None, mem}
         \/ op[o].pc \in {"verify", "adopt"} /\ mem' = op[o].p
         \/ op'[o].pc = "save"
<1>1. CASE LoadRecord(o) \/ ClearRecord(o)
  BY <1>1 DEF LoadRecord, ClearRecord
<1>2. CASE DockerStep(o)
  <2>1. CASE DockerHealth(o)
    BY <2>1, OpMoves DEF DockerHealth, OpStates
  <2>2. CASE ~DockerHealth(o)
    BY <1>2, <2>2
       DEF DockerStep, DockerImage, DockerInspect, DockerVerify, DockerAdopt, DockerScrub, DockerVolume,
           DockerRun, DockerSave, VolumeRest, SaveRest
  <2>3. QED
    BY <2>1, <2>2
<1>3. CASE FlyStep(o)
  <2>1. CASE FlyMachine(o)
    <3>1. (\E vol \in Nat : StartsBox(o, vol, "save")) \/ mem' = mem
      BY <2>1, OpTypes DEF FlyMachine, Rec
    <3>2. QED
      BY <3>1, OpMoves DEF OpStates
  <2>2. CASE ~FlyMachine(o)
    BY <1>3, <2>2
       DEF FlyStep, FlyVerify, FlyProbe, FlyScrub, FlyVolume, FlySave, FlyHealth, VolumeRest, SaveRest,
           FoundAlive
  <2>3. QED
    BY <2>1, <2>2
<1>4. CASE EcsStep(o)
  <2>1. CASE EcsTaskRunning(o)
    BY <2>1, OpMoves DEF EcsTaskRunning, OpStates
  <2>2. CASE ~EcsTaskRunning(o)
    BY <1>4, <2>2 DEF EcsStep, EcsVerify, EcsRunTask, EcsSave, EcsHealth, SaveRest, FoundAlive
  <2>3. QED
    BY <2>1, <2>2
<1>5. QED
  BY <1>1, <1>2, <1>3, <1>4 DEF EnsureStep

\* An ensure gets to its health check and its save with the box it started.
LEMMA EnsureHolds ==
  ASSUME SandboxType, NEW o \in Op, EnsureStep(o), op'[o].pc \in {"health", "save"}, provider = "docker",
         op[o].pc # "running"
  PROVE  \/ op[o].pc = "health" /\ op'[o].tok = op[o].tok /\ op'[o].vol = op[o].vol
         \/ op[o].pc = "create" /\ \E b \in boxes' : b.id = made + 1
<1>1. CASE LoadRecord(o) \/ ClearRecord(o)
  <2>1. op[o] \in OpRec
    BY DEF SandboxType
  <2>2. op'[o].pc \in {"fresh", "verify", "clear"}
    BY <1>1, <2>1 DEF LoadRecord, ClearRecord, Clears, SandboxType, OpRec
  <2>3. QED
    BY <2>2
<1>2. CASE DockerStep(o)
  <2>1. CASE DockerRun(o)
    <3>1. ASSUME NEW vol, StartsBox(o, vol, "health") PROVE \E b \in boxes' : b.id = made + 1
      <4> DEFINE c == NewBox(made', Token(o, made'), vol)
      <4>1. c \in boxes' /\ c.id = made + 1
        BY <3>1 DEF StartsBox, NewBox
      <4>2. QED
        BY <4>1
    <3>2. (\E vol : StartsBox(o, vol, "health")) \/ Settle(o)
      BY <2>1 DEF DockerRun, StartFails, Throws
    <3>3. QED
      BY <2>1, <3>1, <3>2, OpMoves DEF DockerRun
  <2>2. CASE DockerHealth(o)
    BY <2>2, OpMoves DEF DockerHealth, Throws, OpStates
  <2>3. CASE ~(DockerRun(o) \/ DockerHealth(o))
    <3>1. \/ Settle(o) \/ MakesVolume(o)
          \/ \E l \in OpStates \ {"health", "save"} : Goto(o, l)
      BY <1>2, <2>3
         DEF DockerStep, DockerImage, DockerInspect, DockerVerify, DockerAdopt, DockerScrub, Destroys,
             DockerVolume, DockerSave, Returns, Throws, OpStates
    <3>2. QED
      BY <3>1, OpMoves
  <2>4. QED
    BY <2>1, <2>2, <2>3
<1>3. CASE FlyStep(o) \/ EcsStep(o)
  <2>1. FlyProbe(o)
    BY <1>3
       DEF FlyStep, EcsStep, FlyVerify, FlyScrub, Destroys, FlyVolume, FlyMachine, FlySave, FlyHealth,
           EcsVerify, EcsRunTask, EcsTaskRunning, EcsSave, EcsHealth, FoundAlive, FoundDead
  <2>2. QED
    BY <2>1, OpMoves DEF FlyProbe, OpStates
<1>4. QED
  BY <1>1, <1>2, <1>3 DEF EnsureStep

LEMMA TokenStep ==
  ASSUME SandboxType, IdInv, RecordsTell, AloneInv, FlowInv, TokenInv, [Next]_vars
  PROVE  TokenInv'
<1> SUFFICES ASSUME Clean' PROVE
      /\ disk' # None /\ disk'.prov = "docker" => AllTok(boxes', disk'.tok)
      /\ mem' # None /\ mem'.prov = "docker" => AllTok(boxes', mem'.tok)
      /\ \A o \in Op : provider' = "docker" /\ op'[o].pc \in {"health", "save"} => AllTok(boxes', op'[o].tok)
  BY DEF TokenInv
<1> DEFINE Goal ==
      /\ disk' # None /\ disk'.prov = "docker" => AllTok(boxes', disk'.tok)
      /\ mem' # None /\ mem'.prov = "docker" => AllTok(boxes', mem'.tok)
      /\ \A o \in Op : provider' = "docker" /\ op'[o].pc \in {"health", "save"} => AllTok(boxes', op'[o].tok)
<1>1. Clean /\ Calm /\ Alone /\ "uncleared" \notin strayed /\ "uncleared" \notin strayed'
  BY StraysGrow DEF Clean, Calm, Alone
<1>2. /\ disk # None /\ disk.prov = "docker" => AllTok(boxes, disk.tok)
      /\ mem # None /\ mem.prov = "docker" => AllTok(boxes, mem.tok)
      /\ \A o \in Op : provider = "docker" /\ op[o].pc \in {"health", "save"} => AllTok(boxes, op[o].tok)
  BY <1>1 DEF TokenInv
<1>3. \A o \in Op : op[o].pc # "idle" =>
        inFlight = o /\ Lane(op[o], provider) /\ Flow(op[o], provider, mem, disk, strayed)
  BY <1>1 DEF AloneInv, FlowInv
<1>4. CASE NoNewBox
  <2>1. \A tok : AllTok(boxes, tok) => AllTok(boxes', tok)
    BY <1>4 DEF NoNewBox, Same, AllTok
  <2>2. ASSUME NEW o \in Op, EnsureStep(o) PROVE Goal
    <3>1. /\ UNCHANGED provider /\ op[o].pc # "idle" /\ \A q \in Op \ {o} : op'[q].pc = "idle"
          /\ op'[o].pc # "idle" => Flow(op'[o], provider, mem', disk', strayed')
          /\ Lane(op[o], provider) /\ Flow(op[o], provider, mem, disk, strayed)
      BY <1>1, <1>3, <2>2, FlowEnsure, LaneEnsure, EnsureFrame
    <3>2. provider = "docker" /\ op'[o].pc \in {"health", "save"} => AllTok(boxes', op'[o].tok)
      <4>1. ASSUME provider = "docker", op'[o].pc \in {"health", "save"} PROVE ~(\E b \in boxes' : b.id = made + 1)
        BY <1>4 DEF NoNewBox, Same, IdInv, SandboxType, Box
      <4>2. op[o].pc = "running" => provider = "ecs"
        BY <3>1 DEF Lane
      <4>3. QED
        BY <1>2, <2>1, <2>2, <4>1, <4>2, EnsureHolds
    <3>3. disk' # None /\ disk'.prov = "docker" => AllTok(boxes', disk'.tok)
      <4>1. InHand(o).prov = provider /\ InHand(o).tok = op[o].tok
        BY DEF InHand, Record
      <4>2. op[o].pc = "resave" => op[o].p = disk
        BY <1>1, <3>1 DEF Flow
      <4>3. UNCHANGED disk \/ disk' = None \/ (op[o].pc = "save" /\ disk' = InHand(o))
            \/ (op[o].pc = "resave" /\ disk' = op[o].p)
        BY <2>2, EnsureSaves
      <4>4. QED
        BY <1>2, <2>1, <4>1, <4>2, <4>3
    <3>4. mem' # None /\ mem'.prov = "docker" => AllTok(boxes', mem'.tok)
      <4>1. op'[o].pc = "save" => mem'.prov = provider /\ mem'.tok = op'[o].tok
        BY <3>1 DEF Flow
      <4>2. op[o].pc \in {"verify", "adopt"} => op[o].p = disk
        BY <1>1, <3>1 DEF Flow
      <4>3. provider # "docker" => mem' = mem \/ mem' = None \/ mem'.prov = provider
        BY <2>2, EnsureWrites
      <4>4. QED
        BY <1>2, <2>1, <2>2, <3>1, <3>2, <4>1, <4>2, <4>3, EnsureRemembers
    <3>5. QED
      BY <3>1, <3>2, <3>3, <3>4
  <2>3. CASE Restart
    BY <1>2, <2>1, <2>3 DEF Restart, NoOp
  <2>4. ASSUME NEW o \in Op, EnsureContainer(o) PROVE Goal
    <3>1. \A q \in Op : op'[q].pc \in {"health", "save"} => op'[q] = op[q]
      BY <2>4, OpMoves DEF EnsureContainer, Goto, OpStates, SandboxType
    <3>2. QED
      BY <1>2, <2>1, <2>4, <3>1 DEF EnsureContainer, proc
  <2>5. CASE LookupVerified
    BY <1>2, <2>1, <2>5 DEF LookupVerified, Strays, Clean, proc
  <2>6. CASE UNCHANGED <<provider, op>> /\ mem' \in {None, mem} /\ disk' \in {None, disk}
    BY <1>2, <2>1, <2>6
  <2>7. QED
    BY <2>2, <2>3, <2>4, <2>5, <2>6
       DEF Next, vars, proc, Lookup, LookupClears, Delete, RemoveStep, WipeThread, RemoveLoads, RemoveClears,
           Clears, RemoveBox, RemoveVolume, ReapStep, ReapLists, ReapCompares, ReapDestroys, Boots, Dies,
           Lost
<1>5. ASSUME NEW o \in Op, NewBoxBy(o) PROVE Goal
  <2>1. op[o].pc \in {"create", "fresh"} /\ mem = None /\ op[o].p = disk
    BY <1>1, <1>3, <1>5 DEF NewBoxBy, Flow
  <2>2. PICK vol \in Nat, l \in Started : StartsBox(o, vol, l) /\ UNCHANGED <<provider, disk>>
          /\ (provider = "docker" => BoxOf(ByName) = {})
    <3>1. \A v \in 0 .. made' : v \in Nat
      OBVIOUS
    <3>2. QED
      BY <1>5, <3>1 DEF NewBoxBy
  <2> DEFINE k == Token(o, made')
             c == NewBox(made', k, vol)
  <2>3. boxes' = boxes \cup {c} /\ c.prov = provider /\ c.tok = k
    BY <2>2 DEF StartsBox, NewBox
  <2>4. op'[o].tok = k /\ \A q \in Op \ {o} : op'[q] = op[q]
    BY <2>2, OpMoves DEF StartsBox, Started, OpStates, SandboxType
  <2>5. disk # None => k = disk.tok
    BY <2>1 DEF Token
  <2> HIDE DEF k, c
  <2>6. /\ op'[o].pc # "idle" => Flow(op'[o], provider, mem', disk', strayed')
        /\ mem' # None => mem' = mem \/ mem'.prov = provider
    BY <1>1, <1>5, FlowEnsure, EnsureWrites DEF NewBoxBy
  <2>7. CASE provider = "docker"
    <3>1. AllTok(boxes', k)
      BY <2>2, <2>3, <2>7 DEF AllTok, BoxOf, ByName, Record
    <3>2. \A q \in Op \ {o} : op[q].pc = "idle"
      BY <1>3, <2>1
    <3>3. mem' = None
      <4>1. op'[o].pc = "health"
        BY <1>5, <2>7, OpMoves DEF NewBoxBy, OpStates
      <4>2. QED
        BY <2>7, <2>6, <4>1 DEF Flow
    <3>4. QED
      BY <2>2, <2>4, <2>5, <3>1, <3>2, <3>3
  <2>8. CASE provider # "docker"
    <3>1. \A tok : AllTok(boxes, tok) => AllTok(boxes', tok)
      BY <2>3, <2>8 DEF AllTok
    <3>2. QED
      BY <1>2, <2>2, <2>6, <2>8, <3>1
  <2>9. QED
    BY <2>7, <2>8
<1>6. QED
  BY <1>4, <1>5, IdStep DEF RecordsTell

-----------------------------------------------------------------------------
(* Volumes.  A box has its volume, for a volume that is used is not removed. *)

Has(vs, prov, id) == [prov |-> prov, id |-> id] \in vs

VolumeInv ==
  Alone =>
    /\ \A b \in boxes : b.prov # "ecs" => Has(vols, b.prov, b.vol)
    /\ \A o \in Op : op[o].pc = "create" /\ provider = "fly" /\ op[o].p = None =>
         \A b \in boxes : b.prov = "fly" => b.vol # op[o].vol

\* Whatever takes a volume away, no box is on it.
LEMMA VolumesLeave ==
  ASSUME SandboxType, VolumeInv, Alone, [Next]_vars
  PROVE  \A v \in vols : v \in vols' \/ Unused(v)
<1>1. ASSUME NEW o \in Op, EnsureStep(o) PROVE \A v \in vols : v \in vols' \/ Unused(v)
  <2>1. CASE FlyMachine(o)
    <3>1. CASE op[o].p = None
      <4>1. provider = "fly" /\ op[o].pc = "create" /\ vols \ {[prov |-> "fly", id |-> op[o].vol]} \subseteq vols'
        BY <2>1, <3>1 DEF FlyMachine
      <4>2. \A b \in boxes : b.prov = "fly" => b.vol # op[o].vol
        BY <3>1, <4>1 DEF VolumeInv
      <4>3. QED
        BY <4>1, <4>2 DEF Unused
    <3>2. CASE op[o].p # None
      BY <2>1, <3>2 DEF FlyMachine
    <3>3. QED
      BY <3>1, <3>2
  <2>2. CASE ~FlyMachine(o)
    BY <1>1, <2>2
       DEF EnsureStep, LoadRecord, ClearRecord, Clears, DockerStep, FlyStep, EcsStep, DockerImage,
           DockerInspect, DockerVerify, DockerAdopt, DockerScrub, Destroys, DockerVolume, DockerRun,
           DockerHealth, DockerSave, FlyVerify, FlyProbe, FlyScrub, FlyVolume, FlySave, FlyHealth, EcsVerify,
           EcsRunTask, EcsTaskRunning, EcsSave, EcsHealth, MakesVolume, StartFails, VerifyRest, VolumeRest,
           StartRest, SaveRest, world
  <2>3. QED
    BY <2>1, <2>2
<1>2. CASE RemoveStep \/ ReapStep
  BY <1>2
     DEF RemoveStep, WipeThread, RemoveLoads, RemoveClears, Clears, RemoveBox, RemoveVolume, ReapStep,
         ReapLists, ReapCompares, ReapDestroys, world
<1>3. ASSUME NEW w \in vols, Lost(w) PROVE \A v \in vols : v \in vols' \/ Unused(v)
  BY <1>3 DEF Lost
<1>4. CASE UNCHANGED vols
  BY <1>4
<1>5. QED
  BY <1>1, <1>2, <1>3, <1>4
     DEF Next, vars, world, EnsureContainer, Lookup, LookupVerified, LookupClears, Delete, Restart, Boots, Dies

\* Under Fly an ensure gets to the POST with a volume of its own or with the old one.
LEMMA EnsureCreates ==
  ASSUME SandboxType, NEW o \in Op, EnsureStep(o), op'[o].pc = "create", provider = "fly"
  PROVE  \/ MakesVolume(o) /\ boxes' = boxes
         \/ op[o].pc = "reattach" /\ op'[o].p = op[o].p
<1>1. CASE LoadRecord(o) \/ ClearRecord(o)
  <2>1. op[o] \in OpRec
    BY DEF SandboxType
  <2>2. op'[o].pc \in {"fresh", "verify", "clear"}
    BY <1>1, <2>1 DEF LoadRecord, ClearRecord, Clears, SandboxType, OpRec
  <2>3. QED
    BY <2>2
<1>2. CASE FlyVolume(o)
  BY <1>2, OpMoves DEF FlyVolume, VolumeRest, Throws
<1>3. CASE FlyScrub(o)
  BY <1>3, OpMoves DEF FlyScrub, Destroys, OpStates
<1>4. CASE FlyMachine(o)
  <2>1. (\E vol \in Nat : StartsBox(o, vol, "save")) \/ Settle(o)
    BY <1>4, OpTypes DEF FlyMachine, StartFails, Throws, Rec
  <2>2. QED
    BY <2>1, OpMoves DEF OpStates
<1>5. CASE ~(LoadRecord(o) \/ ClearRecord(o) \/ FlyVolume(o) \/ FlyScrub(o) \/ FlyMachine(o))
  <2>1. Settle(o) \/ \E l \in OpStates \ {"create"} : Goto(o, l)
    BY <1>5
       DEF EnsureStep, DockerStep, FlyStep, EcsStep, DockerImage, DockerInspect, DockerVerify, DockerAdopt,
           DockerScrub, Destroys, DockerVolume, DockerRun, DockerHealth, DockerSave, FlyVerify, FlyProbe,
           FlySave, FlyHealth, EcsVerify, EcsRunTask, EcsTaskRunning, EcsSave, EcsHealth, FoundAlive,
           FoundDead, Returns, Throws, OpStates
  <2>2. QED
    BY <2>1, OpMoves
<1>6. QED
  BY <1>1, <1>2, <1>3, <1>4, <1>5

LEMMA VolumeStep ==
  ASSUME SandboxType, IdInv, RecordsTell, AloneInv, VolumeInv, [Next]_vars
  PROVE  VolumeInv'
<1> SUFFICES ASSUME Alone' PROVE
      /\ \A b \in boxes' : b.prov # "ecs" => Has(vols', b.prov, b.vol)
      /\ \A o \in Op : op'[o].pc = "create" /\ provider' = "fly" /\ op'[o].p = None =>
           \A b \in boxes' : b.prov = "fly" => b.vol # op'[o].vol
  BY DEF VolumeInv
<1> DEFINE Goal1 == \A b \in boxes' : b.prov # "ecs" => Has(vols', b.prov, b.vol)
           Goal2 == \A o \in Op : op'[o].pc = "create" /\ provider' = "fly" /\ op'[o].p = None =>
                      \A b \in boxes' : b.prov = "fly" => b.vol # op'[o].vol
<1>1. Alone
  BY StraysGrow DEF Alone
<1>2. \A b \in boxes : b.prov # "ecs" => Has(vols, b.prov, b.vol)
  BY <1>1 DEF VolumeInv
<1>3. \A o \in Op : op[o].pc = "create" /\ provider = "fly" /\ op[o].p = None =>
        \A b \in boxes : b.prov = "fly" => b.vol # op[o].vol
  BY <1>1 DEF VolumeInv
<1>4. CASE NoNewBox
  <2>1. Goal1
    <3>1. ASSUME NEW c \in boxes', c.prov # "ecs" PROVE Has(vols', c.prov, c.vol)
      <4>1. PICK b \in boxes : Same(b, c)
        BY <1>4 DEF NoNewBox
      <4>2. Has(vols, b.prov, b.vol)
        BY <1>2, <3>1, <4>1 DEF Same
      <4>3. ~Unused([prov |-> b.prov, id |-> b.vol])
        BY DEF Unused
      <4>4. QED
        BY <1>1, <4>1, <4>2, <4>3, VolumesLeave DEF Has, Same
    <3>2. QED
      BY <3>1
  <2>2. ASSUME NEW o \in Op, op'[o] = op[o], provider' = provider,
               op'[o].pc = "create", provider' = "fly", op'[o].p = None
        PROVE  \A b \in boxes' : b.prov = "fly" => b.vol # op'[o].vol
    BY <1>3, <1>4, <2>2 DEF NoNewBox, Same
  <2>3. ASSUME NEW o \in Op, EnsureStep(o), op'[o].pc = "create", provider' = "fly", op'[o].p = None
        PROVE  \A b \in boxes' : b.prov = "fly" => b.vol # op'[o].vol
    <3>1. provider = "fly" /\ op[o].pc # "idle"
      BY <2>3, EnsureFrame
    <3>2. MakesVolume(o) /\ boxes' = boxes
      <4>1. op[o].pc = "reattach" => op[o].p # None
        BY <1>1, <3>1 DEF AloneInv, Lane
      <4>2. QED
        BY <2>3, <3>1, <4>1, EnsureCreates
    <3>3. op'[o].vol = made + 1 /\ boxes' = boxes
      BY <3>2, OpMoves DEF MakesVolume
    <3>4. QED
      BY <3>3 DEF IdInv, SandboxType, Box
  <2>4. Goal2
    <3>1. CASE Restart
      BY <3>1 DEF Restart, NoOp
    <3>2. ASSUME NEW o \in Op, EnsureStep(o) PROVE Goal2
      BY <2>2, <2>3, <3>2, EnsureFrame
    <3>3. ASSUME NEW o \in Op, EnsureContainer(o) PROVE Goal2
      <4>1. \A q \in Op : op'[q].pc = "create" => op'[q] = op[q]
        BY <3>3, OpMoves DEF EnsureContainer, Goto, OpStates, SandboxType
      <4>2. QED
        BY <2>2, <3>3, <4>1 DEF EnsureContainer, proc
    <3>4. CASE UNCHANGED <<provider, op>>
      BY <2>2, <3>4
    <3>5. QED
      BY <3>1, <3>2, <3>3, <3>4
         DEF Next, vars, proc, Lookup, LookupVerified, LookupClears, Delete, RemoveStep, WipeThread,
             RemoveLoads, RemoveClears, Clears, RemoveBox, RemoveVolume, ReapStep, ReapLists, ReapCompares,
             ReapDestroys, Boots, Dies, Lost
  <2>5. QED
    BY <2>1, <2>4
<1>5. ASSUME NEW o \in Op, NewBoxBy(o) PROVE Goal1 /\ Goal2
  <2>1. PICK vol \in 0 .. made', l \in Started :
          /\ EnsureStep(o) /\ StartsBox(o, vol, l) /\ UNCHANGED provider
          /\ vols \subseteq vols' /\ (provider # "ecs" => [prov |-> provider, id |-> vol] \in vols')
    BY <1>5 DEF NewBoxBy
  <2> DEFINE c == NewBox(made', Token(o, made'), vol)
  <2>2. boxes' = boxes \cup {c} /\ c.prov = provider /\ c.vol = vol
    BY <2>1 DEF StartsBox, NewBox
  <2>3. op'[o].pc = l /\ \A q \in Op \ {o} : op'[q].pc = "idle"
    <3>1. vol \in Nat /\ l \in OpStates
      BY DEF Started, OpStates
    <3>2. QED
      BY <1>1, <2>1, <3>1, OpMoves, EnsureFrame, LaneEnsure
  <2> HIDE DEF c
  <2>4. Goal2
    BY <2>3 DEF Started
  <2>5. CASE provider # "ecs"
    BY <1>2, <2>1, <2>2, <2>4, <2>5 DEF Has
  <2>6. CASE provider = "ecs"
    <3>1. \A b \in boxes' : b.prov # "ecs" => b \in boxes
      BY <2>2, <2>6
    <3>2. QED
      BY <1>2, <2>1, <2>4, <3>1 DEF Has
  <2>7. QED
    BY <2>5, <2>6
<1>6. QED
  BY <1>4, <1>5, IdStep DEF RecordsTell

-----------------------------------------------------------------------------
(* The workspace on record.                                                *)

Spared == strayed \cap {"overlap", "probe", "sweep", "lost", "unowned"} = {}

\* What an ensure is about to put on record has a volume, and it is the old one.
Secured(t, prov, vs) ==
  /\ prov # "ecs" /\ (t.pc = "save" \/ (t.pc = "health" /\ prov = "docker")) => Has(vs, prov, t.vol)
  /\ prov # "ecs" /\ t.pc = "resave" => Has(vs, prov, t.p.vol)
  /\ prov = "fly" /\ t.pc = "save" /\ t.p # None => t.vol = t.p.vol

\* An ensure that gives up what was on record, or has found nothing there.
Afresh(t) == t.pc = "clear" \/ (t.p = None /\ t.pc \in {"fresh", "volume", "create", "save"})

Agree(r, w) == r.prov = w.prov /\ r.vol = w.vol

WorkInv ==
  Spared =>
    /\ work # None => work.prov = provider /\ (provider = "fly" => disk # None)
    /\ work # None /\ provider # "ecs" =>
         Has(vols, work.prov, work.vol) /\ (disk # None => Agree(disk, work))
    /\ Removing => work = None
    /\ old # None => work = old
    /\ old # None /\ provider # "ecs" /\ reap.pc = "destroy" => VolId(old.prov, old.vol) \notin reap.todo
    /\ \A o \in Op : Secured(op[o], provider, vols) /\ (provider = "fly" /\ Afresh(op[o]) => work = None)

\* Under Fly an ensure gets to a save by a box it started or one it found alive.
LEMMA EnsureSecures ==
  ASSUME SandboxType, NEW o \in Op, EnsureStep(o), op'[o].pc \in {"save", "resave"}, provider = "fly",
         op[o].pc # "running"
  PROVE  \/ op'[o].pc = "save" /\ \E b \in boxes' : b.id = made + 1
         \/ /\ op'[o].pc = "resave" /\ op'[o].p = op[o].p
            /\ op[o].pc = "verify" /\ TRUE \in Running(op[o].p) /\ UNCHANGED vols
<1>1. CASE LoadRecord(o) \/ ClearRecord(o)
  <2>1. op[o] \in OpRec
    BY DEF SandboxType
  <2>2. op'[o].pc \in {"fresh", "verify", "clear"}
    BY <1>1, <2>1 DEF LoadRecord, ClearRecord, Clears, SandboxType, OpRec
  <2>3. QED
    BY <2>2
<1>2. CASE FlyVerify(o)
  <2>1. Returns(o) \/ Goto(o, "resave") \/ Goto(o, "probe")
    BY <1>2 DEF FlyVerify
  <2>2. Goto(o, "resave")
    BY <2>1, OpMoves DEF Returns, OpStates
  <2>3. op'[o].pc = "resave" /\ op'[o].p = op[o].p
    BY <2>2, OpMoves DEF OpStates
  <2>4. ASSUME Goto(o, "probe") PROVE FALSE
    BY <2>3, <2>4, OpMoves DEF OpStates
  <2>5. FoundAlive(o, "fly") /\ VerifyRest
    BY <1>2, <2>4 DEF FlyVerify
  <2>6. QED
    BY <2>3, <2>5 DEF FoundAlive, VerifyRest, world
<1>3. CASE FlyMachine(o)
  <2>1. ASSUME NEW vol, StartsBox(o, vol, "save") PROVE \E b \in boxes' : b.id = made + 1
    <3> DEFINE c == NewBox(made', Token(o, made'), vol)
    <3>1. c \in boxes' /\ c.id = made + 1
      BY <2>1 DEF StartsBox, NewBox
    <3>2. QED
      BY <3>1
  <2>2. (\E vol \in Nat : StartsBox(o, vol, "save")) \/ Settle(o)
    BY <1>3, OpTypes DEF FlyMachine, StartFails, Throws, Rec
  <2>3. QED
    BY <2>1, <2>2, OpMoves DEF OpStates
<1>4. CASE ~(LoadRecord(o) \/ ClearRecord(o) \/ FlyVerify(o) \/ FlyMachine(o))
  <2>1. Settle(o) \/ MakesVolume(o) \/ \E l \in OpStates \ {"save", "resave"} : Goto(o, l)
    BY <1>4
       DEF EnsureStep, DockerStep, FlyStep, EcsStep, DockerImage, DockerInspect, DockerVerify, DockerAdopt,
           DockerScrub, Destroys, DockerVolume, DockerRun, DockerHealth, DockerSave, FlyProbe, FlyScrub,
           FlyVolume, FlySave, FlyHealth, EcsVerify, EcsRunTask, EcsTaskRunning, EcsSave, EcsHealth,
           FoundAlive, FoundDead, Returns, Throws, OpStates
  <2>2. QED
    BY <2>1, OpMoves
<1>5. QED
  BY <1>1, <1>2, <1>3, <1>4

\* A record is only cleared when its workspace is somebody else's or gone.
LEMMA EnsureClears ==
  ASSUME SandboxType, NEW o \in Op, EnsureStep(o), op'[o].pc = "clear", "probe" \notin strayed'
  PROVE  \/ op[o].pc = "load" /\ disk.prov # provider
         \/ /\ (op[o].pc = "verify" /\ provider = "docker") \/ op[o].pc = "probe"
            /\ VolOf(op[o].p) = {}
<1>1. CASE LoadRecord(o)
  <2>1. op[o] \in OpRec
    BY DEF SandboxType
  <2>2. QED
    BY <1>1, <2>1 DEF LoadRecord, SandboxType, OpRec
<1>2. CASE ClearRecord(o)
  <2>1. op[o] \in OpRec
    BY DEF SandboxType
  <2>2. QED
    BY <1>2, <2>1 DEF ClearRecord, Clears, SandboxType, OpRec
<1>3. CASE DockerVerify(o)
  BY <1>3, OpMoves DEF DockerVerify, FoundAlive, FoundDead, OpStates
<1>4. CASE FlyProbe(o)
  BY <1>4, OpMoves DEF FlyProbe, Strays, OpStates
<1>5. CASE DockerRun(o) \/ FlyMachine(o) \/ EcsRunTask(o)
  <2>1. Settle(o) \/ \E vol \in Nat, l \in OpStates \ {"clear"} : StartsBox(o, vol, l)
    <3>1. ASSUME StartsBox(o, made', "health") PROVE made' \in Nat
      BY <3>1 DEF StartsBox, SandboxType
    <3>2. CASE DockerRun(o)
      BY <3>1, <3>2 DEF DockerRun, VolOf, Vol, StartFails, Throws, SandboxType, OpStates
    <3>3. CASE FlyMachine(o)
      BY <3>3, OpTypes DEF FlyMachine, StartFails, Throws, Rec, OpStates
    <3>4. CASE EcsRunTask(o)
      BY <3>4 DEF EcsRunTask, StartFails, Throws, OpStates
    <3>5. QED
      BY <1>5, <3>2, <3>3, <3>4
  <2>2. QED
    BY <2>1, OpMoves
<1>6. CASE ~(LoadRecord(o) \/ ClearRecord(o) \/ DockerVerify(o) \/ FlyProbe(o)
             \/ DockerRun(o) \/ FlyMachine(o) \/ EcsRunTask(o))
  <2>1. Settle(o) \/ MakesVolume(o) \/ \E l \in OpStates \ {"clear"} : Goto(o, l)
    BY <1>6
       DEF EnsureStep, DockerStep, FlyStep, EcsStep, DockerImage, DockerInspect, DockerAdopt, DockerScrub,
           Destroys, DockerVolume, DockerHealth, DockerSave, FlyVerify, FlyScrub, FlyVolume, FlySave,
           FlyHealth, EcsVerify, EcsTaskRunning, EcsSave, EcsHealth, Returns, Throws, OpStates
  <2>2. QED
    BY <2>1, OpMoves
<1>7. QED
  BY <1>1, <1>2, <1>3, <1>4, <1>5, <1>6

\* The only volume an ensure takes away is the one it made in vain.
LEMMA EnsureKeepsVolumes ==
  ASSUME SandboxType, NEW o \in Op, EnsureStep(o)
  PROVE  \/ vols \subseteq vols'
         \/ provider = "fly" /\ op[o].pc = "create" /\ op[o].p = None /\ op'[o].pc = "idle"
<1>1. CASE FlyMachine(o)
  <2>1. \/ vols' = vols
        \/ StartFails(o) /\ (op[o].p # None => vols' = vols)
    BY <1>1 DEF FlyMachine
  <2>2. QED
    BY <1>1, <2>1, OpMoves DEF FlyMachine, StartFails, Throws
<1>2. CASE ~FlyMachine(o)
  BY <1>2
     DEF EnsureStep, LoadRecord, ClearRecord, Clears, DockerStep, FlyStep, EcsStep, DockerImage,
         DockerInspect, DockerVerify, DockerAdopt, DockerScrub, Destroys, DockerVolume, DockerRun,
         DockerHealth, DockerSave, FlyVerify, FlyProbe, FlyScrub, FlyVolume, FlySave, FlyHealth, EcsVerify,
         EcsRunTask, EcsTaskRunning, EcsSave, EcsHealth, MakesVolume, StartFails, VerifyRest, VolumeRest,
         StartRest, SaveRest, world
<1>3. QED
  BY <1>1, <1>2

LEMMA Newest ==
  ASSUME SandboxType, IdInv, RecordsTell, AloneInv, Alone, [Next]_vars,
         NEW o \in Op, EnsureStep(o), \E b \in boxes' : b.id = made + 1
  PROVE  NewBoxBy(o)
<1>1. ~NoNewBox
  BY DEF NoNewBox, Same, IdInv, SandboxType, Box
<1>2. PICK q \in Op : NewBoxBy(q)
  BY <1>1, IdStep DEF RecordsTell
<1>3. op[o].pc # "idle" /\ op[q].pc # "idle"
  BY <1>2, EnsureFrame DEF NewBoxBy
<1>4. QED
  BY <1>2, <1>3 DEF AloneInv

\* Under Fly an ensure that gives up its record, or has none, had none before.
LEMMA StaysAfresh ==
  ASSUME SandboxType, NEW o \in Op, EnsureStep(o), provider = "fly", Lane(op[o], provider),
         Afresh(op'[o]), "probe" \notin strayed'
  PROVE  \/ Afresh(op[o])
         \/ op[o].pc = "load" /\ (disk = None \/ disk.prov # provider)
         \/ op[o].pc = "probe" /\ VolOf(op[o].p) = {}
<1>1. op[o] \in OpRec
  BY DEF SandboxType
<1>2. CASE LoadRecord(o)
  BY <1>1, <1>2 DEF LoadRecord, SandboxType, OpRec, Afresh
<1>3. CASE ClearRecord(o)
  BY <1>3 DEF ClearRecord, Afresh
<1>4. CASE FlyMachine(o)
  <2>1. (\E vol \in Nat : StartsBox(o, vol, "save")) \/ Settle(o)
    BY <1>4, OpTypes DEF FlyMachine, StartFails, Throws, Rec
  <2>2. QED
    BY <1>4, <2>1, OpMoves DEF FlyMachine, Afresh, OpStates
<1>5. CASE FlyVolume(o)
  BY <1>5, OpMoves DEF FlyVolume, Throws, Lane, Afresh
<1>6. CASE FlyProbe(o)
  BY <1>6, OpMoves DEF FlyProbe, Strays, Lane, Afresh, OpStates
<1>7. CASE FlyScrub(o)
  BY <1>7, OpMoves DEF FlyScrub, Lane, Afresh, OpStates
<1>8. CASE ~(LoadRecord(o) \/ ClearRecord(o) \/ FlyMachine(o) \/ FlyVolume(o) \/ FlyProbe(o) \/ FlyScrub(o))
  <2>1. Settle(o) \/ Goto(o, "resave") \/ Goto(o, "probe") \/ Goto(o, "health")
    BY <1>8
       DEF EnsureStep, DockerStep, FlyStep, EcsStep, DockerImage, DockerInspect, DockerVerify, DockerAdopt,
           DockerScrub, DockerVolume, DockerRun, DockerHealth, DockerSave, FlyVerify, FlySave, FlyHealth,
           EcsVerify, EcsRunTask, EcsTaskRunning, EcsSave, EcsHealth, FoundAlive, FoundDead, Returns,
           Throws, Lane
  <2>2. QED
    BY <2>1, OpMoves DEF Afresh, OpStates
<1>9. QED
  BY <1>2, <1>3, <1>4, <1>5, <1>6, <1>7, <1>8

LEMMA WorkEnsure ==
  ASSUME SandboxType, IdInv, RecordsTell, OneVolume, AloneInv, FlowInv, VolumeInv, WorkInv, [Next]_vars,
         Spared, Spared', NEW o \in Op, EnsureStep(o)
  PROVE  WorkInv'
<1>1. /\ Alone /\ "probe" \notin strayed' /\ (provider = "fly" => Calm)
  BY DEF Spared, Calm, Alone
<1>2. /\ UNCHANGED <<provider, ep, rm, reap, old>>
      /\ op[o].pc # "idle" /\ \A q \in Op \ {o} : op'[q].pc = "idle"
      /\ Lane(op[o], provider)
      /\ op'[o].pc # "idle" => Lane(op'[o], provider)
      /\ provider = "fly" => Flow(op[o], provider, mem, disk, strayed)
      /\ ~Removing /\ ~Removing'
  <2>1. UNCHANGED <<provider, ep, rm, reap, old>> /\ op[o].pc # "idle"
    BY EnsureFrame
  <2>2. /\ Lane(op[o], provider) /\ ~Removing /\ \A q \in Op \ {o} : op'[q].pc = "idle"
        /\ op'[o].pc # "idle" => Lane(op'[o], provider)
    BY <1>1, LaneEnsure, EnsureFrame
  <2>3. provider = "fly" => Flow(op[o], provider, mem, disk, strayed)
    BY <1>1, <2>1 DEF FlowInv
  <2>4. QED
    BY <2>1, <2>2, <2>3 DEF Removing
<1>3. /\ work # None => work.prov = provider /\ (provider = "fly" => disk # None)
      /\ work # None /\ provider # "ecs" =>
           Has(vols, work.prov, work.vol) /\ (disk # None => Agree(disk, work))
      /\ old # None => work = old
      /\ old # None /\ provider # "ecs" /\ reap.pc = "destroy" => VolId(old.prov, old.vol) \notin reap.todo
      /\ Secured(op[o], provider, vols) /\ (provider = "fly" /\ Afresh(op[o]) => work = None)
  BY DEF WorkInv
<1>4. /\ op[o].p # None /\ op[o].pc # "clear" => Tells(op[o].p, boxes, made) /\ op[o].p.prov = provider
      /\ op[o].pc = "resave" => /\ op[o].p # None /\ op[o].p.prov = provider
                                /\ provider = "fly" => op[o].p = disk
      /\ provider = "fly" /\ op[o].pc = "save" => op[o].p = None \/ op[o].p = disk
      /\ InHand(o) # None /\ InHand(o).prov = provider /\ InHand(o).vol = op[o].vol
  <2>1. InHand(o) \in Rec /\ op[o] \in OpRec
    BY OpTypes
  <2>2. InHand(o) # None
    BY <2>1, SandboxAssumption DEF Rec
  <2>3. /\ op[o].p # None /\ op[o].pc # "clear" => Tells(op[o].p, boxes, made) /\ op[o].p.prov = provider
        /\ op[o].pc = "resave" => op[o].p # None /\ op[o].p.prov = provider
    BY <1>2 DEF RecordsTell, OpTells, Lane
  <2>4. provider = "fly" => /\ op[o].pc = "resave" => op[o].p = disk
                            /\ op[o].pc = "save" => op[o].p = None \/ op[o].p = disk
    BY <1>2 DEF Flow, Making
  <2>5. QED
    BY <2>2, <2>3, <2>4 DEF InHand, Record
<1>5. \/ UNCHANGED <<disk, work>>
      \/ op[o].pc = "clear" /\ disk' = None /\ UNCHANGED work
      \/ op[o].pc = "save" /\ disk' = InHand(o) /\ Occupies(InHand(o))
      \/ op[o].pc = "resave" /\ disk' = op[o].p /\ Occupies(op[o].p)
  BY EnsureSaves
<1>6. work # None => work' = work
  BY <1>5 DEF Occupies
<1>7. vols \subseteq vols' \/ (provider = "fly" /\ op[o].pc = "create" /\ op[o].p = None /\ op'[o].pc = "idle")
  BY EnsureKeepsVolumes
<1>8. work' # None => work'.prov = provider' /\ (provider' = "fly" => disk' # None)
  BY <1>2, <1>3, <1>4, <1>5 DEF Occupies, Space, Afresh
\* A record that is written has the space that is on record.
<1>9. ASSUME provider # "ecs", work # None, disk' # disk, disk' # None PROVE Agree(disk', work)
  <2>1. work.prov = provider /\ Has(vols, provider, work.vol) /\ (disk # None => Agree(disk, work))
    BY <1>3, <1>9
  <2>2. CASE op[o].pc = "save" /\ disk' = InHand(o)
    <3>1. Has(vols, provider, op[o].vol) /\ disk'.prov = provider /\ disk'.vol = op[o].vol
      BY <1>3, <1>4, <1>9, <2>2 DEF Secured
    <3>2. CASE provider = "fly"
      <4>1. op[o].p = disk /\ disk # None
        BY <1>3, <1>4, <1>9, <2>2, <3>2 DEF Afresh
      <4>2. op[o].vol = disk.vol
        BY <1>3, <2>2, <3>2, <4>1 DEF Secured
      <4>3. QED
        BY <2>1, <3>1, <4>1, <4>2 DEF Agree
    <3>3. CASE provider = "docker"
      <4>1. [prov |-> provider, id |-> op[o].vol] = [prov |-> provider, id |-> work.vol]
        BY <2>1, <3>1, <3>3 DEF Has, OneVolume
      <4>2. op[o].vol = work.vol
        BY <4>1
      <4>3. QED
        BY <2>1, <3>1, <4>2 DEF Agree
    <3>4. QED
      BY <1>9, <3>2, <3>3, SandboxAssumption DEF SandboxType
  <2>3. CASE op[o].pc = "resave" /\ disk' = op[o].p
    BY <1>2, <1>4, <1>9, <2>3, SandboxAssumption DEF Lane, SandboxType
  <2>4. QED
    BY <1>5, <1>9, <2>2, <2>3
<1>10. work' # None /\ provider' # "ecs" => (disk' # None => Agree(disk', work'))
  <2>1. CASE work # None
    BY <1>2, <1>3, <1>6, <1>9, <2>1
  <2>2. CASE work = None
    BY <1>5, <2>2 DEF Occupies, Space, Agree
  <2>3. QED
    BY <2>1, <2>2
<1>11. work' # None /\ provider' # "ecs" => Has(vols', work'.prov, work'.vol)
  <2>1. CASE work # None
    <3>1. ASSUME provider = "fly", op[o].pc = "create", op[o].p = None PROVE FALSE
      BY <1>3, <2>1, <3>1 DEF Afresh
    <3>2. QED
      BY <1>2, <1>3, <1>6, <1>7, <2>1, <3>1 DEF Has
  <2>2. CASE work = None
    BY <1>2, <1>3, <1>4, <1>5, <1>7, <2>2 DEF Occupies, Secured, Space, Has
  <2>3. QED
    BY <2>1, <2>2
<1>12. /\ old' # None => work' = old'
       /\ old' # None /\ provider' # "ecs" /\ reap'.pc = "destroy" => VolId(old'.prov, old'.vol) \notin reap'.todo
  BY <1>2, <1>3, <1>6
<1>13. provider' = "fly" /\ Afresh(op'[o]) => work' = None
  <2> SUFFICES ASSUME provider = "fly", Afresh(op'[o]), work' # None PROVE FALSE
    BY <1>2
  <2>1. \/ Afresh(op[o])
        \/ op[o].pc = "load" /\ (disk = None \/ disk.prov # provider)
        \/ op[o].pc = "probe" /\ VolOf(op[o].p) = {}
    BY <1>1, <1>2, StaysAfresh
  <2>2. CASE Afresh(op[o])
    <3>1. ASSUME op[o].pc = "save" PROVE FALSE
      <4>1. FlySave(o)
        BY <3>1
           DEF EnsureStep, LoadRecord, ClearRecord, DockerStep, FlyStep, EcsStep, DockerImage, DockerInspect,
               DockerVerify, DockerAdopt, DockerScrub, DockerVolume, DockerRun, DockerHealth, DockerSave,
               FlyVerify, FlyProbe, FlyScrub, FlyVolume, FlyMachine, FlyHealth, EcsVerify, EcsRunTask,
               EcsTaskRunning, EcsSave, EcsHealth, FoundAlive, FoundDead
      <4>2. QED
        BY <3>1, <4>1, OpMoves DEF FlySave, Afresh, OpStates
    <3>2. UNCHANGED work
      BY <1>2, <1>3, <1>5, <2>2, <3>1 DEF Afresh, Lane
    <3>3. QED
      BY <1>3, <2>2, <3>2
  <2>3. CASE ~Afresh(op[o])
    <3>1. work' = work /\ work # None /\ disk # None /\ Agree(disk, work) /\ Has(vols, work.prov, work.vol)
          /\ work.prov = provider
      BY <1>3, <1>5, <2>1, <2>3
    <3>2. op[o].pc = "probe" => op[o].p = disk
      BY <1>2 DEF Flow, Making
    <3>3. QED
      BY <2>1, <2>3, <3>1, <3>2 DEF Agree, Has, VolOf
  <2>4. QED
    BY <2>2, <2>3
<1>14. Secured(op'[o], provider', vols')
  <2>1. /\ op[o].pc = "running" => provider = "ecs"
        /\ op'[o].pc = "resave" => provider # "docker"
    BY <1>2 DEF Lane
  <2>2. ASSUME \E b \in boxes' : b.id = made + 1, op'[o].pc \in {"health", "save"}, provider # "ecs"
        PROVE  /\ Has(vols', provider, op'[o].vol)
               /\ provider = "fly" /\ op'[o].p # None => op'[o].vol = op'[o].p.vol
    <3>1. NewBoxBy(o)
      BY <1>1, <2>2, Newest
    <3>2. PICK vol \in 0 .. made', l \in Started :
            /\ StartsBox(o, vol, l) /\ [prov |-> provider, id |-> vol] \in vols'
            /\ provider = "fly" => vol = IF op[o].p = None THEN op[o].vol ELSE op[o].p.vol
      BY <2>2, <3>1 DEF NewBoxBy
    <3>3. vol \in Nat /\ l \in OpStates
      BY DEF Started, OpStates
    <3>4. op'[o].vol = vol /\ op'[o].p = op[o].p
      BY <3>2, <3>3, OpMoves
    <3>5. QED
      BY <3>2, <3>4 DEF Has
  <2>3. CASE provider = "ecs"
    BY <1>2, <2>3 DEF Secured
  <2>4. CASE provider = "docker"
    <3>1. ASSUME op'[o].pc \in {"health", "save"} PROVE Has(vols', provider, op'[o].vol)
      BY <1>3, <1>7, <2>1, <2>2, <2>4, <3>1, EnsureHolds DEF Secured, Has
    <3>2. QED
      BY <1>2, <2>1, <2>4, <3>1 DEF Secured
  <2>5. CASE provider = "fly"
    <3>1. ASSUME op'[o].pc = "resave" PROVE Has(vols', provider, op'[o].p.vol)
      <4>1. op'[o].p = op[o].p /\ op[o].pc = "verify" /\ TRUE \in Running(op[o].p) /\ UNCHANGED vols
        BY <2>1, <2>5, <3>1, EnsureSecures
      <4>2. op[o].p # None
        BY <1>2, <4>1 DEF Lane
      <4>3. PICK b \in boxes : b.prov = op[o].p.prov /\ b.id = op[o].p.id
        BY <1>4, <2>5, <4>1, <4>2 DEF Running, BoxOf
      <4>4. b.vol = op[o].p.vol /\ b.prov = provider
        BY <1>4, <2>5, <4>1, <4>2, <4>3 DEF Tells
      <4>5. QED
        BY <1>1, <2>5, <4>1, <4>4 DEF VolumeInv
    <3>2. ASSUME op'[o].pc = "save"
          PROVE  /\ Has(vols', provider, op'[o].vol)
                 /\ op'[o].p # None => op'[o].vol = op'[o].p.vol
      BY <2>1, <2>2, <2>5, <3>2, EnsureSecures
    <3>3. QED
      BY <1>2, <2>5, <3>1, <3>2 DEF Secured
  <2>6. QED
    BY <2>3, <2>4, <2>5, SandboxAssumption DEF SandboxType
<1>15. \A q \in Op : Secured(op'[q], provider', vols') /\ (provider' = "fly" /\ Afresh(op'[q]) => work' = None)
  BY <1>2, <1>13, <1>14 DEF Secured, Afresh
<1>16. QED
  BY <1>2, <1>8, <1>10, <1>11, <1>12, <1>15 DEF WorkInv

ReapType == reap = [pc |-> reap.pc, todo |-> reap.todo]

LEMMA ReapTypeStep ==
  ASSUME SandboxType, ReapType, [Next]_vars
  PROVE  ReapType'
<1>1. CASE ReapStep
  BY <1>1 DEF ReapStep, ReapLists, ReapCompares, ReapDestroys, ReapType
<1>2. CASE Restart
  BY <1>2 DEF Restart, ReapType
<1>3. CASE UNCHANGED reap
  BY <1>3 DEF ReapType
<1>4. ReapStep \/ Restart \/ UNCHANGED reap
  BY EnsureFrame
     DEF Next, vars, EnsureContainer, Lookup, LookupVerified, LookupClears, Delete, RemoveStep, WipeThread,
         RemoveLoads, RemoveClears, Clears, RemoveBox, RemoveVolume, Boots, Dies, Lost
<1>5. QED
  BY <1>1, <1>2, <1>3, <1>4

\* The sweep spares the workspace on record, and all volumes while an ensure runs.
LEMMA WorkReap ==
  ASSUME SandboxType, ReapType, WorkInv, ReapStep, Spared, Spared'
  PROVE  WorkInv'
<1>1. UNCHANGED <<provider, made, mem, disk, inFlight, op, ensured, ep, rm, work, old>>
  BY DEF ReapStep, ReapLists, ReapCompares, ReapDestroys, ghosts, proc
<1>2. /\ work # None => work.prov = provider /\ (provider = "fly" => disk # None)
      /\ work # None /\ provider # "ecs" =>
           Has(vols, work.prov, work.vol) /\ (disk # None => Agree(disk, work))
      /\ Removing => work = None
      /\ old # None => work = old
      /\ old # None /\ provider # "ecs" /\ reap.pc = "destroy" => VolId(old.prov, old.vol) \notin reap.todo
      /\ \A o \in Op : Secured(op[o], provider, vols) /\ (provider = "fly" /\ Afresh(op[o]) => work = None)
  BY DEF WorkInv
<1>3. old # None /\ provider # "ecs" /\ reap'.pc = "destroy" => VolId(old.prov, old.vol) \notin reap'.todo
  <2>1. CASE ReapLists
    BY <1>2, <2>1 DEF ReapLists
  <2>2. CASE ReapCompares
    <3>1. old # None => disk # None /\ work = old
      BY <1>2, <2>2 DEF ReapCompares, Strays, Spared
    <3>2. old # None /\ provider # "ecs" => VolId(old.prov, old.vol) \in Live(disk)
      BY <1>2, <3>1 DEF Live, Agree
    <3>3. QED
      BY <1>2, <2>2, <3>2 DEF ReapCompares
  <2>3. CASE ReapDestroys
    <3>1. reap.pc = "destroy" /\ (reap'.pc = "done" \/ reap'.todo \subseteq reap.todo)
      <4>1. ASSUME NEW x, reap' = [reap EXCEPT !.todo = @ \ {x}] PROVE reap'.todo \subseteq reap.todo
        BY <4>1 DEF ReapType
      <4>2. QED
        BY <2>3, <4>1 DEF ReapDestroys
    <3>2. QED
      BY <1>2, <3>1
  <2>4. QED
    BY <2>1, <2>2, <2>3 DEF ReapStep
<1>4. ASSUME provider # "ecs", NEW v \in vols, v \notin vols'
      PROVE  ~Busy /\ VolId(v.prov, v.id) \notin Kept
  <2>1. PICK x \in reap.todo :
          /\ VolId(v.prov, v.id) = x
          /\ Strays("sweep", /\ Busy \/ x \in Live(disk) \cup Live(mem) \cup Kept
                             /\ old = None \/ x # VolId(old.prov, old.vol))
          /\ reap.pc = "destroy"
    BY <1>4 DEF ReapStep, ReapLists, ReapCompares, ReapDestroys, world
  <2>2. old = None \/ x # VolId(old.prov, old.vol)
    BY <1>2, <1>4, <2>1
  <2>3. QED
    BY <2>1, <2>2 DEF Strays, Spared
<1>5. work # None /\ provider # "ecs" => Has(vols', work.prov, work.vol)
  <2>1. work # None => VolId(work.prov, work.vol) \in Kept
    BY DEF Kept
  <2>2. ASSUME work # None, provider # "ecs", [prov |-> work.prov, id |-> work.vol] \notin vols' PROVE FALSE
    <3> DEFINE v == [prov |-> work.prov, id |-> work.vol]
    <3>1. v \in vols /\ v \notin vols' /\ v.prov = work.prov /\ v.id = work.vol
      BY <1>2, <2>2 DEF Has
    <3> HIDE DEF v
    <3>2. QED
      BY <1>2, <1>4, <2>1, <2>2, <3>1
  <2>3. QED
    BY <2>2 DEF Has
<1>6. ASSUME NEW o \in Op PROVE Secured(op[o], provider, vols')
  <2>1. CASE provider = "ecs"
    BY <2>1 DEF Secured
  <2>2. CASE op[o].pc = "idle"
    BY <2>2 DEF Secured
  <2>3. CASE provider # "ecs" /\ op[o].pc # "idle"
    <3>1. vols \subseteq vols'
      BY <1>4, <2>3 DEF Busy
    <3>2. QED
      BY <1>2, <3>1 DEF Secured, Has
  <2>4. QED
    BY <2>1, <2>2, <2>3
<1>7. QED
  BY <1>1, <1>2, <1>3, <1>5, <1>6 DEF WorkInv, Removing

LEMMA WorkStep ==
  ASSUME SandboxType, ReapType, IdInv, RecordsTell, OneVolume, AloneInv, FlowInv, VolumeInv, WorkInv,
         [Next]_vars
  PROVE  WorkInv'
<1> SUFFICES ASSUME Spared' PROVE WorkInv'
  BY DEF WorkInv
<1>1. Spared
  BY StraysGrow DEF Spared
<1>2. /\ work # None => work.prov = provider /\ (provider = "fly" => disk # None)
      /\ work # None /\ provider # "ecs" =>
           Has(vols, work.prov, work.vol) /\ (disk # None => Agree(disk, work))
      /\ Removing => work = None
      /\ old # None => work = old
      /\ old # None /\ provider # "ecs" /\ reap.pc = "destroy" => VolId(old.prov, old.vol) \notin reap.todo
      /\ \A o \in Op : Secured(op[o], provider, vols) /\ (provider = "fly" /\ Afresh(op[o]) => work = None)
  BY <1>1 DEF WorkInv
<1>3. CASE \E o \in Op : EnsureStep(o)
  BY <1>1, <1>3, WorkEnsure
<1>4. CASE ReapStep
  BY <1>1, <1>4, WorkReap
<1>5. ASSUME NEW o \in Op, EnsureContainer(o) PROVE WorkInv'
  <2>1. \A q \in Op : op'[q] = op[q] \/ op'[q].pc \in {"image", "load"}
    BY <1>5, OpMoves DEF EnsureContainer, Goto, OpStates, SandboxType
  <2>2. \A q \in Op : Secured(op'[q], provider, vols) /\ (provider = "fly" /\ Afresh(op'[q]) => work = None)
    BY <1>2, <2>1 DEF Secured, Afresh
  <2>3. UNCHANGED <<provider, disk, vols, rm, reap, work, old>>
    BY <1>5 DEF EnsureContainer, proc, world
  <2>4. QED
    BY <1>2, <2>2, <2>3 DEF WorkInv, Removing
<1>6. CASE LookupClears
  <2>1. UNCHANGED <<provider, vols, op, rm, reap, work, old>> /\ (disk' = disk \/ disk' = None)
    BY <1>6 DEF LookupClears, world
  <2>2. provider # "fly"
    BY <1>1, <1>6 DEF FlowInv, Spared, Calm, Alone, LookupClears
  <2>3. QED
    BY <1>2, <2>1, <2>2 DEF WorkInv, Removing
<1>7. CASE Delete
  BY <1>2, <1>7 DEF Delete, WorkInv, world
<1>8. CASE RemoveStep
  <2>1. UNCHANGED <<provider, op, reap, work, old>> /\ Removing
    BY <1>8
       DEF RemoveStep, WipeThread, RemoveLoads, RemoveClears, Clears, RemoveBox, RemoveVolume, Removing,
           proc, ghosts
  <2>2. work = None /\ \A o \in Op : op[o].pc = "idle"
    BY <1>1, <1>2, <2>1 DEF AloneInv, Alone, Spared, Idle
  <2>3. QED
    BY <1>2, <2>1, <2>2 DEF WorkInv, Secured
<1>9. CASE Restart
  BY <1>2, <1>9 DEF Restart, WorkInv, Secured, Afresh, NoOp, NoRemove, Removing, world
<1>10. ~(\E v \in vols : Lost(v))
  BY DEF Lost, Strays, Spared
<1>11. CASE UNCHANGED <<provider, disk, vols, op, rm, reap, work, old>>
  BY <1>2, <1>11 DEF WorkInv, Removing
<1>12. QED
  BY <1>3, <1>4, <1>5, <1>6, <1>7, <1>8, <1>9, <1>10, <1>11
     DEF Next, vars, proc, world, ghosts, Lookup, LookupVerified, Boots, Dies

-----------------------------------------------------------------------------
(* What a /delete is to destroy.                                           *)

Sure == strayed \cap {"overlap", "blind", "undeleted", "unsaved"} = {}

\* The record means the box.
Means(r, b) == b.prov = r.prov /\ (r.prov = "docker" \/ b.id = r.id)

RemoveInv ==
  Sure =>
    \A b \in boxes : b.id \in rm.known =>
      /\ rm.pc \in {"load", "clear", "rm"} /\ b.prov = provider
      /\ rm.pc = "load" /\ provider # "docker" =>
           /\ mem # None => Means(mem, b)
           /\ mem = None /\ disk # None => Means(disk, b) /\ disk.prov = provider
      /\ rm.pc \in {"clear", "rm"} => \E r \in Doomed : Means(r, b)

LEMMA RemoveInvStep ==
  ASSUME SandboxType, IdInv, RecordsTell, AloneInv, FlowInv, RemoveInv, [Next]_vars
  PROVE  RemoveInv'
<1> SUFFICES ASSUME Sure', NEW c \in boxes', c.id \in rm'.known
             PROVE  /\ rm'.pc \in {"load", "clear", "rm"} /\ c.prov = provider'
                    /\ rm'.pc = "load" /\ provider' # "docker" =>
                         /\ mem' # None => Means(mem', c)
                         /\ mem' = None /\ disk' # None => Means(disk', c) /\ disk'.prov = provider'
                    /\ rm'.pc \in {"clear", "rm"} => \E r \in Doomed' : Means(r, c)
  BY DEF RemoveInv
<1> DEFINE Goal == /\ rm'.pc \in {"load", "clear", "rm"} /\ c.prov = provider'
                   /\ rm'.pc = "load" /\ provider' # "docker" =>
                        /\ mem' # None => Means(mem', c)
                        /\ mem' = None /\ disk' # None => Means(disk', c) /\ disk'.prov = provider'
                   /\ rm'.pc \in {"clear", "rm"} => \E r \in Doomed' : Means(r, c)
<1>1. /\ Sure /\ Alone /\ (provider # "docker" => Calm) /\ "unsaved" \notin strayed
      /\ "overlap" \notin strayed' /\ "blind" \notin strayed' /\ "undeleted" \notin strayed'
  BY StraysGrow DEF Sure, Calm, Alone
<1>2. CASE Restart
  BY <1>2 DEF Restart, NoRemove
<1>3. CASE Delete
  <2>1. /\ Idle /\ ~Removing /\ provider' = provider /\ boxes' = boxes /\ UNCHANGED <<mem, disk>> /\ rm'.pc = "load"
        /\ rm'.known = {b.id : b \in Mine \cap UNION {BoxOf(r) : r \in {mem, disk} \ {None}}}
    BY <1>1, <1>3 DEF Delete, Strays, Busy, Idle, Removing, NoRemove, world
  <2>2. c \in Mine /\ \E r \in {mem, disk} \ {None} : c \in BoxOf(r)
    <3>1. PICK b \in Mine \cap UNION {BoxOf(r) : r \in {mem, disk} \ {None}} : b.id = c.id
      BY <2>1
    <3>2. b = c
      BY <2>1, <3>1 DEF IdInv, Mine
    <3>3. QED
      BY <3>1, <3>2
  <2>3. c.prov = provider
    BY <2>2 DEF Mine
  <2>4. provider # "docker" /\ mem # None => mem = disk
    BY <1>1, <2>1 DEF FlowInv, Idle
  <2>5. \/ mem # None /\ Means(mem, c)
        \/ disk # None /\ Means(disk, c)
    BY <2>2 DEF BoxOf, Means
  <2>6. QED
    BY <2>1, <2>3, <2>4, <2>5 DEF Means
<1>4. CASE ~Restart /\ ~Delete
  <2>1. provider' = provider /\ c.id \in rm.known /\ c.id <= made
    BY <1>4, StraysGrow, KnownStep
  <2>2. PICK b \in boxes : Same(b, c)
    <3>1. CASE NoNewBox
      BY <3>1 DEF NoNewBox
    <3>2. ASSUME NEW o \in Op, NewBoxBy(o) PROVE c \in boxes
      BY <2>1, <3>2 DEF NewBoxBy, StartsBox, NewBox, SandboxType
    <3>3. QED
      BY <3>1, <3>2, IdStep DEF Same, RecordsTell
  <2>3. b.id \in rm.known /\ \A r : Means(r, b) <=> Means(r, c)
    BY <2>1, <2>2 DEF Same, Means
  <2>4. /\ rm.pc \in {"load", "clear", "rm"} /\ c.prov = provider
        /\ rm.pc = "load" /\ provider # "docker" =>
             /\ mem # None => Means(mem, c)
             /\ mem = None /\ disk # None => Means(disk, c) /\ disk.prov = provider
        /\ rm.pc \in {"clear", "rm"} => \E r \in Doomed : Means(r, c)
    BY <1>1, <2>2, <2>3 DEF RemoveInv, Same
  <2>5. CASE WipeThread
    <3>1. /\ rm'.pc = rm.pc /\ Doomed' = Doomed /\ disk' = None /\ UNCHANGED <<provider, mem>>
      BY <2>5 DEF WipeThread, Doomed, ByName, Record, SandboxType, RmRec, proc
    <3>2. QED
      BY <2>4, <3>1
  <2>6. CASE RemoveLoads
    <3>1. rm.pc = "load" /\ rm'.pc = "clear" /\ rm'.p = disk /\ rm'.s = mem
      BY <2>6 DEF RemoveLoads, SandboxType, RmRec
    <3>2. CASE provider = "docker"
      <4>1. ByName' \in Doomed' /\ ByName'.prov = "docker"
        BY <2>1, <3>2 DEF Doomed, ByName, Record
      <4>2. Means(ByName', c)
        BY <2>4, <3>2, <4>1 DEF Means
      <4>3. QED
        BY <2>1, <2>4, <3>1, <4>1, <4>2
    <3>3. CASE provider # "docker"
      <4>1. disk # None \/ mem # None
        BY <1>1, <2>1, <2>6, <3>3 DEF RemoveLoads, Strays
      <4>2. /\ mem # None => mem \in Doomed' /\ Means(mem, c)
            /\ mem = None => disk \in Doomed' /\ Means(disk, c)
        BY <2>1, <2>4, <3>1, <3>3, <4>1 DEF Doomed
      <4>3. QED
        BY <2>1, <2>4, <3>1, <4>1, <4>2
    <3>4. QED
      BY <3>2, <3>3
  <2>7. CASE RemoveClears
    <3>1. rm.pc = "clear" /\ rm'.pc = "rm" /\ Doomed' = Doomed
      BY <2>7 DEF RemoveClears, Clears, Doomed, ByName, Record, SandboxType, RmRec, proc
    <3>2. QED
      BY <2>1, <2>4, <3>1
  <2>8. ~RemoveBox
    <3> SUFFICES ASSUME RemoveBox PROVE FALSE
      OBVIOUS
    <3> DEFINE doomed == UNION {BoxOf(r) : r \in Doomed}
    <3>1. /\ rm.pc = "rm"
          /\ boxes' = boxes \ doomed \/ (boxes' = boxes /\ Strays("undeleted", doomed # {}))
      BY DEF RemoveBox
    <3>2. c \in boxes /\ c \notin doomed
      BY <1>1, <3>1 DEF Strays
    <3>3. PICK r \in Doomed : Means(r, c)
      BY <2>4, <3>1
    <3>4. QED
      BY <3>2, <3>3 DEF Means, BoxOf
  <2>9. ~RemoveVolume
    BY <2>4 DEF RemoveVolume
  <2>10. CASE UNCHANGED rm /\ (rm.pc = "load" /\ provider # "docker" => UNCHANGED <<mem, disk>>)
    <3>1. Doomed' = Doomed
      BY <2>1, <2>10 DEF Doomed, ByName, Record
    <3>2. QED
      BY <2>1, <2>4, <2>10, <3>1
  <2>11. ASSUME NEW o \in Op, EnsureStep(o) PROVE UNCHANGED rm /\ ~(rm.pc = "load" /\ provider # "docker")
    BY <1>1, <2>11, EnsureFrame DEF AloneInv, Idle, Removing
  <2>12. ASSUME LookupVerified \/ LookupClears PROVE UNCHANGED rm /\ ~(rm.pc = "load" /\ provider # "docker")
    BY <1>1, <2>12 DEF LookupVerified, LookupClears, AloneInv, Removing
  <2>13. QED
    BY <1>4, <2>5, <2>6, <2>7, <2>8, <2>9, <2>10, <2>11, <2>12
       DEF Next, vars, proc, EnsureContainer, Lookup, RemoveStep, ReapStep, ReapLists,
           ReapCompares, ReapDestroys, Boots, Dies, Lost
<1>5. QED
  BY <1>2, <1>3, <1>4

-----------------------------------------------------------------------------
(* The theorems.                                                           *)

SandboxInv ==
  /\ SandboxType /\ ReapType /\ IdInv /\ RecordsTell /\ OneVolume
  /\ AloneInv /\ FlowInv /\ TokenInv /\ VolumeInv /\ WorkInv /\ RemoveInv

LEMMA SandboxInductive == Spec => []SandboxInv
<1>1. Init => SandboxInv
  <2> SUFFICES ASSUME Init PROVE SandboxInv
    OBVIOUS
  <2>1. SandboxType
    BY TypeInit
  <2>2. \A o \in Op : op[o] = NoOp
    BY DEF Init
  <2>3. IdInv /\ RecordsTell /\ OneVolume /\ ReapType
    BY <2>2 DEF Init, IdInv, RecordsTell, OneVolume, OpTells, NoOp, NoRemove, Started, ReapType
  <2>4. AloneInv /\ FlowInv /\ TokenInv /\ VolumeInv
    BY <2>2 DEF Init, AloneInv, FlowInv, TokenInv, VolumeInv, NoOp, NoRemove, Removing
  <2>5. WorkInv /\ RemoveInv
    BY <2>2 DEF Init, WorkInv, RemoveInv, Secured, Afresh, NoOp, NoRemove, Removing
  <2>6. QED
    BY <2>1, <2>3, <2>4, <2>5 DEF SandboxInv
<1>2. SandboxInv /\ [Next]_vars => SandboxInv'
  BY TypeStep, ReapTypeStep, IdStep, RecordsStep, OneVolumeStep, AloneStep, FlowStep, TokenStep,
     VolumeStep, WorkStep, RemoveInvStep
     DEF SandboxInv, RecordsTell
<1>3. QED
  BY <1>1, <1>2, PTL DEF Spec

\* The token every request carries is the one the box was started with
\* (docker.ts:308, fly.ts:297), whatever boxes, providers and restarts there are;
\* excused are "overlap", "lookup" and "uncleared" (TokenMatches).
THEOREM TokenAlwaysMatches == Spec => []TokenMatches
<1>1. SandboxInv => TokenMatches
  <2> SUFFICES ASSUME SandboxInv, mem # None, strayed \cap {"overlap", "lookup", "uncleared"} = {},
                      NEW b \in BoxOf(mem), b.prov = provider
               PROVE  b.tok = mem.tok
    BY DEF TokenMatches
  <2>1. b \in boxes /\ b.prov = mem.prov /\ (mem.prov = "docker" \/ b.id = mem.id)
    BY DEF BoxOf
  <2>2. CASE mem.prov = "docker"
    BY <2>1, <2>2 DEF SandboxInv, TokenInv, Clean, AllTok
  <2>3. CASE mem.prov # "docker"
    BY <2>1, <2>3 DEF SandboxInv, RecordsTell, Tells
  <2>4. QED
    BY <2>2, <2>3
<1>2. QED
  BY <1>1, SandboxInductive, PTL

\* A sandbox in use is the one on record (docker.ts:253-308, fly.ts:231-297,
\* ecs.ts:220-262), so that the reaper of the next boot spares it; excused are
\* "overlap", "lookup" and "unsaved" (InUseIsRecorded).
THEOREM InUseStaysRecorded == Spec => []InUseIsRecorded
<1>1. SandboxInv => InUseIsRecorded
  BY DEF SandboxInv, FlowInv, Calm, Alone, InUseIsRecorded
<1>2. QED
  BY <1>1, SandboxInductive, PTL

\* The workspace on record keeps its volume until /delete and the record goes on
\* naming it (index.ts, docker.ts, fly.ts), across dead boxes, restarts, failing
\* writes and the sweep at boot; excused are "overlap", "probe", "sweep", "lost"
\* and "unowned" (WorkspaceKept).
THEOREM WorkspaceIsKept == Spec => []WorkspaceKept
<1>1. SandboxInv => WorkspaceKept
  BY DEF SandboxInv, WorkInv, Spared, Has, Agree, WorkspaceKept
<1>2. QED
  BY <1>1, SandboxInductive, PTL

\* A /delete destroys the box that memory or the record had (index.ts, docker.ts,
\* fly.ts, ecs.ts), though the directory of the thread goes at the same time;
\* excused are "overlap", "blind", "undeleted" and "unsaved" (RemoveFrees).
THEOREM DeleteFrees == Spec => []RemoveFrees
<1>1. SandboxInv => RemoveFrees
  BY DEF SandboxInv, RemoveInv, Sure, RemoveFrees
<1>2. QED
  BY <1>1, SandboxInductive, PTL
==============================================================================
