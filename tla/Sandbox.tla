------------------------------ MODULE Sandbox -------------------------------
(***************************************************************************)
(* The sandbox of one thread: what the provider remembers, what            *)
(* session.json records and what really runs in Docker, Fly or ECS         *)
(* (sandbox/docker.ts, fly.ts, ecs.ts), the wrapper that lets concurrent   *)
(* callers share one ensure and the reaper that sweeps at boot             *)
(* (sandbox/index.ts).  The program is single-threaded: a step is what     *)
(* runs from one await to the next.                                        *)
(*                                                                         *)
(* A box is a container, a machine or a task.  Its identity, the token it  *)
(* was started with and its volume are numbers drawn from `made`.  Under   *)
(* Docker the name of the thread finds the box and the volume; under Fly   *)
(* it is the id, and names must not clash; under ECS the workspace is a    *)
(* directory that nobody removes, so there is no volume.                   *)
(***************************************************************************)
EXTENDS Naturals, FiniteSets

CONSTANTS
  Op,           \* executions of provider.ensure
  Provider,     \* the values SANDBOX_PROVIDER may have
  None,
  Mishap,       \* what may go wrong: see Budget
  MaxMade,      \* bound: boxes and volumes ever made
  MaxMishaps    \* bound: mishaps

ASSUME SandboxAssumption ==
  /\ Provider \subseteq {"docker", "fly", "ecs"} /\ Provider # {}
  /\ None \notin Op /\ None \notin [prov : Provider, id : Nat, tok : Nat, vol : Nat]

VARIABLES
  provider,  \* the provider this process has selected
  mem,       \* its tokens/state entry: the record in use, or None
  disk,      \* the sandbox field of session.json
  boxes, vols,
  made,
  inFlight,  \* inFlightEnsure: the Op callers wait for, or None
  op,        \* op[o]: where that ensure is and what it has in hand
  ensured,   \* an ensure has succeeded in this process: tools may run
  ep,        \* a getEndpoint that found no memory: the record it verifies
  rm,        \* /delete: removeContainer, and whether the directory still is
  reap,      \* the boot sweep and the ids it still has to look at
  mishaps,
  work, old, \* history: the workspace on record, and the one at boot
  strayed    \* history: what excuses a loss, see the properties

proc == <<provider, made, mishaps>>
world == <<boxes, vols>>
ghosts == <<work, old, strayed>>
vars == <<proc, mem, disk, world, inFlight, op, ensured, ep, rm, reap, ghosts>>

NoOp == [pc |-> "idle", p |-> None, id |-> 0, tok |-> 0, vol |-> 0]
NoRemove == [pc |-> "idle", wipe |-> FALSE, p |-> None, s |-> None, known |-> {}]

Init ==
  /\ provider \in Provider
  /\ mem = None /\ disk = None
  /\ boxes = {} /\ vols = {} /\ made = 0
  /\ inFlight = None /\ op = [o \in Op |-> NoOp] /\ ensured = FALSE
  /\ ep = None /\ rm = NoRemove
  /\ reap = [pc |-> "done", todo |-> {}]
  /\ mishaps = 0 /\ work = None /\ old = None /\ strayed = {}

\* Mishaps: "fail" (a command or an API call), "slow" (a probe that gives up),
\* "die" (a box), "lose" (a volume), "crash" and "delete".  A bound as well: none
\* but a /delete before there is something to lose.
Budget(k) ==
  /\ k \in Mishap /\ (made > 0 \/ k = "delete")
  /\ mishaps < MaxMishaps /\ mishaps' = mishaps + 1

-----------------------------------------------------------------------------
(* What the providers can find.                                            *)

Mine == {b \in boxes : b.prov = provider}

\* The box a record means: containers go by the name of the thread.
BoxOf(r) ==
  {b \in boxes : b.prov = r.prov /\ (r.prov = "docker" \/ b.id = r.id)}
VolOf(r) ==
  {v \in vols : v.prov = r.prov /\ (r.prov = "docker" \/ v.id = r.vol)}

\* The answers a liveness probe may get: a box that boots may or may not count.
Running(r) ==
  IF \E b \in BoxOf(r) : b.st = "up" THEN {TRUE}
  ELSE IF \E b \in BoxOf(r) : b.st = "booting" THEN BOOLEAN ELSE {FALSE}
Healthy(r) == \E b \in BoxOf(r) : b.st = "up"

Record(id, tok, vol) == [prov |-> provider, id |-> id, tok |-> tok, vol |-> vol]
ByName == Record(0, 0, 0)
InHand(o) == Record(op[o].id, op[o].tok, op[o].vol)
Space(r) == [prov |-> r.prov, vol |-> r.vol]

Unused(v) == \A b \in boxes : ~(b.prov = v.prov /\ b.vol = v.id)

-----------------------------------------------------------------------------
(* ensureContainer and provider.ensure.                                    *)

Removing == rm.pc # "idle" \/ rm.wipe
Strays(why, cond) == strayed' = IF cond THEN strayed \cup {why} ELSE strayed

Goto(o, l) == op' = [op EXCEPT ![o].pc = l]

\* ensure settles; finally drops the map entry if it is still this promise.
Settle(o) ==
  /\ op' = [op EXCEPT ![o] = NoOp]
  /\ inFlight' = IF inFlight = o THEN None ELSE inFlight
Returns(o) == Settle(o) /\ ensured' = TRUE

Throws(o) == Settle(o) /\ UNCHANGED ensured

\* A caller that finds an entry awaits it and is not modelled further.
EnsureContainer(o) ==
  /\ op[o].pc = "idle" /\ inFlight = None
  /\ made + 2 * Cardinality({q \in Op : op[q].pc # "idle"}) + 2 <= MaxMade
  /\ \/ provider = "docker" /\ inFlight' = o /\ Goto(o, "image") /\ UNCHANGED ensured
     \/ provider # "docker" /\ mem = None /\ inFlight' = o /\ Goto(o, "load")
        /\ UNCHANGED ensured
     \/ provider # "docker" /\ mem # None /\ ensured' = TRUE
        /\ UNCHANGED <<inFlight, op>>
  /\ Strays("overlap", Removing)
  /\ UNCHANGED <<proc, mem, disk, world, ep, rm, reap, work, old>>

Waits == UNCHANGED <<inFlight, ensured>>

\* loadSandbox: what is on record now decides, whatever is there later.
LoadRecord(o) ==
  /\ op[o].pc = "load"
  /\ op' = [op EXCEPT ![o].p = disk,
       ![o].pc = IF disk = None THEN "fresh"
                 ELSE IF disk.prov = provider THEN "verify" ELSE "clear"]
  /\ Waits /\ UNCHANGED <<proc, mem, disk, world, ep, rm, reap, ghosts>>

\* clearSandbox, whose write may fail: writeSession logs that and goes on.
Clears ==
  \/ disk' = None /\ UNCHANGED <<mishaps, strayed>>
  \/ Budget("fail") /\ UNCHANGED disk /\ Strays("uncleared", disk # None)

\* The record is cleared, then on to a fresh sandbox.
ClearRecord(o) ==
  /\ op[o].pc = "clear" /\ Clears
  /\ op' = [op EXCEPT ![o].p = None, ![o].pc = "fresh"]
  /\ Waits /\ UNCHANGED <<provider, made, mem, world, ep, rm, reap, work, old>>

\* The two answers of verifyAlive about the record in hand; an answer that does
\* not come in time is a no.
FoundAlive(o, prov) ==
  op[o].pc = "verify" /\ provider = prov /\ TRUE \in Running(op[o].p)
FoundDead(o, prov) ==
  /\ op[o].pc = "verify" /\ provider = prov
  /\ \/ FALSE \in Running(op[o].p) /\ UNCHANGED mishaps
     \/ Budget("slow")
VerifyRest == UNCHANGED <<provider, made, disk, world, ep, rm, reap, ghosts>>

\* A box that takes over a workspace keeps the token on record.
Token(o, id) == IF op[o].p = None THEN id ELSE op[o].p.tok

\* Slip: the box is started with a token of its own, the one on record is kept.
BoxOwnToken(id, tok, vol) ==
  [prov |-> provider, id |-> id, st |-> "booting", tok |-> id, vol |-> vol]

NewBox(id, tok, vol) ==
  [prov |-> provider, id |-> id, st |-> "booting", tok |-> tok, vol |-> vol]

\* Op o starts a box on volume vol and goes on at l.
StartsBox(o, vol, l) ==
  /\ made' = made + 1
  /\ boxes' = boxes \cup {NewBox(made', Token(o, made'), vol)}
  /\ op' = [op EXCEPT ![o] = [@ EXCEPT !.pc = l, !.id = made',
                                       !.tok = Token(o, made'), !.vol = vol]]
  /\ Waits /\ UNCHANGED mishaps
StartFails(o) == Throws(o) /\ UNCHANGED <<made, boxes>>
StartRest == UNCHANGED <<provider, disk, ep, rm, reap, ghosts>>

MakesVolume(o) ==
  /\ made' = made + 1
  /\ vols' = vols \cup {[prov |-> provider, id |-> made']}
  /\ op' = [op EXCEPT ![o].pc = "create", ![o].vol = made']
  /\ Waits /\ UNCHANGED mishaps
VolumeRest == UNCHANGED <<provider, mem, disk, boxes, ep, rm, reap, ghosts>>

\* The first workspace on record is the one to keep.
Occupies(r) == work' = IF work = None THEN Space(r) ELSE work

\* Slip: the record of a sandbox that was there before is not renewed.
SavesFresh(o, r) ==
  /\ IF op[o].p = None THEN disk' = r /\ Occupies(r) ELSE UNCHANGED <<disk, work>>
  /\ UNCHANGED <<mishaps, strayed>>

\* saveSandbox, whose write may fail as well.
Saves(o, r) ==
  \/ disk' = r /\ Occupies(r) /\ UNCHANGED <<mishaps, strayed>>
  \/ Budget("fail") /\ UNCHANGED <<disk, work>> /\ Strays("unsaved", disk # r)
SaveRest == UNCHANGED <<provider, made, mem, world, ep, rm, reap, old>>

-----------------------------------------------------------------------------
(* Docker: healthy first, then remembered, then saved.                     *)

\* ensureImage and ensureNetwork: memoised, and retried after a failure.
DockerImage(o) ==
  /\ op[o].pc = "image"
  /\ \/ Goto(o, IF mem # None THEN "inspect" ELSE "load") /\ Waits /\ UNCHANGED mishaps
     \/ Budget("fail") /\ Throws(o)
  /\ UNCHANGED <<provider, made, mem, disk, world, ep, rm, reap, ghosts>>

\* The token is only trusted while docker inspect says that the container runs.
DockerInspect(o) ==
  /\ op[o].pc = "inspect"
  /\ \/ TRUE \in Running(ByName) /\ Returns(o) /\ UNCHANGED <<mem, mishaps>>
     \/ /\ \/ FALSE \in Running(ByName) /\ UNCHANGED mishaps
           \/ Budget("fail")
        /\ mem' = None /\ Goto(o, "load") /\ Waits
  /\ UNCHANGED <<provider, made, disk, world, ep, rm, reap, ghosts>>

DockerVerify(o) ==
  /\ \/ FoundAlive(o, "docker") /\ Goto(o, "adopt") /\ UNCHANGED mishaps
     \/ FoundDead(o, "docker")
        /\ Goto(o, IF VolOf(op[o].p) # {} THEN "reattach" ELSE "clear")
  /\ Waits /\ UNCHANGED mem /\ VerifyRest

\* Health of the old container, without a save.
DockerAdopt(o) ==
  /\ op[o].pc = "adopt"
  /\ \/ Healthy(op[o].p) /\ mem' = op[o].p /\ Returns(o)
     \/ ~Healthy(op[o].p) /\ Throws(o) /\ UNCHANGED mem
  /\ UNCHANGED <<proc, disk, world, ep, rm, reap, ghosts>>

\* Boxes bs are destroyed, or the command fails and nobody minds.
Destroys(bs) ==
  \/ boxes' = boxes \ bs /\ UNCHANGED mishaps
  \/ Budget("fail") /\ UNCHANGED boxes

\* docker rm -fv of whatever bears the name.
DockerScrub(o) ==
  /\ provider = "docker" /\ op[o].pc \in {"reattach", "fresh"}
  /\ Destroys(BoxOf(ByName))
  /\ Goto(o, IF op[o].pc = "fresh" THEN "volume" ELSE "create")
  /\ Waits /\ UNCHANGED <<provider, made, mem, disk, vols, ep, rm, reap, ghosts>>

\* ensureVolume takes the volume that has the name.
DockerVolume(o) ==
  /\ provider = "docker" /\ op[o].pc = "volume"
  /\ \/ VolOf(ByName) # {} /\ Goto(o, "create") /\ Waits /\ UNCHANGED <<vols, made, mishaps>>
     \/ VolOf(ByName) = {} /\ MakesVolume(o)
     \/ Budget("fail") /\ Throws(o) /\ UNCHANGED <<vols, made>>
  /\ VolumeRest

\* docker run, which makes a volume that is missing and refuses a taken name.
DockerRun(o) ==
  /\ provider = "docker" /\ op[o].pc = "create"
  /\ \/ /\ BoxOf(ByName) = {}
        /\ \/ \E v \in VolOf(ByName) : StartsBox(o, v.id, "health") /\ UNCHANGED vols
           \/ /\ VolOf(ByName) = {} /\ StartsBox(o, made', "health")
              /\ vols' = vols \cup {[prov |-> "docker", id |-> made']}
     \/ /\ \/ Budget("fail")
           \/ BoxOf(ByName) # {} /\ UNCHANGED mishaps
        /\ StartFails(o) /\ UNCHANGED vols
  /\ UNCHANGED mem /\ StartRest

\* readHostPort and waitForHealth ask whatever container has the name.
DockerHealth(o) ==
  /\ provider = "docker" /\ op[o].pc = "health"
  /\ \/ Healthy(InHand(o)) /\ mem' = InHand(o) /\ Goto(o, "save") /\ Waits
     \/ ~Healthy(InHand(o)) /\ Throws(o) /\ UNCHANGED mem
  /\ UNCHANGED <<proc, disk, world, ep, rm, reap, ghosts>>

DockerSave(o) ==
  /\ provider = "docker" /\ op[o].pc = "save"
  /\ Saves(o, InHand(o)) /\ Returns(o) /\ SaveRest

DockerStep(o) ==
  \/ DockerImage(o) \/ DockerInspect(o) \/ DockerVerify(o) \/ DockerAdopt(o)
  \/ DockerScrub(o) \/ DockerVolume(o) \/ DockerRun(o) \/ DockerHealth(o) \/ DockerSave(o)

-----------------------------------------------------------------------------
(* Fly: remembered with the answer to the POST, then saved, then healthy.  *)

\* A live machine is adopted; if its private IP has changed, the record that was
\* loaded is written back.
FlyVerify(o) ==
  /\ \/ /\ FoundAlive(o, "fly") /\ mem' = op[o].p /\ UNCHANGED mishaps
        /\ \/ Returns(o)
           \/ Goto(o, "resave") /\ Waits
     \/ FoundDead(o, "fly") /\ Goto(o, "probe") /\ Waits /\ UNCHANGED mem
  /\ VerifyRest

\* volumeById: no answer within 3 s is taken for a volume that is gone.
FlyProbe(o) ==
  /\ op[o].pc = "probe"
  /\ \/ /\ Goto(o, IF VolOf(op[o].p) # {} THEN "reattach" ELSE "clear")
        /\ UNCHANGED <<mishaps, strayed>>
     \/ Budget("slow") /\ Goto(o, "clear") /\ Strays("probe", VolOf(op[o].p) # {})
  /\ Waits /\ UNCHANGED <<provider, made, mem, disk, world, ep, rm, reap, work, old>>

\* The machine on record and the one that bears the name make way.
FlyScrub(o) ==
  /\ provider = "fly" /\ op[o].pc \in {"reattach", "fresh"}
  /\ Destroys(Mine)
  /\ Goto(o, IF op[o].pc = "fresh" THEN "volume" ELSE "create")
  /\ Waits /\ UNCHANGED <<provider, made, mem, disk, vols, ep, rm, reap, ghosts>>

\* createVolume: always another one.
FlyVolume(o) ==
  /\ provider = "fly" /\ op[o].pc = "volume"
  /\ \/ MakesVolume(o)
     \/ Budget("fail") /\ Throws(o) /\ UNCHANGED <<vols, made>>
  /\ VolumeRest

\* POST /machines on a fresh volume, or on the one of the record; on failure the
\* fresh one is destroyed.
FlyMachine(o) ==
  /\ provider = "fly" /\ op[o].pc = "create"
  /\ LET vol == IF op[o].p = None THEN op[o].vol ELSE op[o].p.vol
         there == [prov |-> "fly", id |-> vol] \in vols
     IN \/ /\ Mine = {} /\ there
           /\ StartsBox(o, vol, "save")
           /\ mem' = Record(made', Token(o, made'), vol) /\ UNCHANGED vols
        \/ /\ \/ Budget("fail")
              \/ (Mine # {} \/ ~there) /\ UNCHANGED mishaps
           /\ StartFails(o) /\ UNCHANGED mem
           /\ vols' = vols \ IF op[o].p = None THEN {[prov |-> "fly", id |-> vol]} ELSE {}
  /\ StartRest

FlySave(o) ==
  /\ provider = "fly"
  /\ \/ op[o].pc = "save" /\ Saves(o, InHand(o)) /\ Goto(o, "health") /\ Waits
     \/ op[o].pc = "resave" /\ Saves(o, op[o].p) /\ Returns(o)
  /\ SaveRest

\* A machine that never answers makes ensure throw, but stays remembered.
FlyHealth(o) ==
  /\ provider = "fly" /\ op[o].pc = "health"
  /\ \/ Healthy(InHand(o)) /\ Returns(o)
     \/ ~Healthy(InHand(o)) /\ Throws(o)
  /\ UNCHANGED <<proc, mem, disk, world, ep, rm, reap, ghosts>>

FlyStep(o) ==
  \/ FlyVerify(o) \/ FlyProbe(o) \/ FlyScrub(o) \/ FlyVolume(o)
  \/ FlyMachine(o) \/ FlySave(o) \/ FlyHealth(o)

-----------------------------------------------------------------------------
(* ECS: remembered and saved once the task runs, then healthy.             *)

EcsVerify(o) ==
  /\ \/ /\ FoundAlive(o, "ecs") /\ mem' = op[o].p /\ UNCHANGED mishaps
        /\ \/ Returns(o)
           \/ Goto(o, "resave") /\ Waits
     \/ FoundDead(o, "ecs") /\ Goto(o, "create") /\ Waits /\ UNCHANGED mem
  /\ VerifyRest

\* run-task on the directory of the thread; nothing looks for an older task.
EcsRunTask(o) ==
  /\ provider = "ecs" /\ op[o].pc \in {"create", "fresh"}
  /\ \/ StartsBox(o, 0, "running")
     \/ Budget("fail") /\ StartFails(o)
  /\ UNCHANGED <<mem, vols>> /\ StartRest

\* A task that does not get to RUNNING in time is left alone.
EcsTaskRunning(o) ==
  /\ op[o].pc = "running"
  /\ \/ TRUE \in Running(InHand(o)) /\ mem' = InHand(o) /\ Goto(o, "save") /\ Waits
     \/ FALSE \in Running(InHand(o)) /\ Throws(o) /\ UNCHANGED mem
  /\ UNCHANGED <<proc, disk, world, ep, rm, reap, ghosts>>

EcsSave(o) ==
  /\ provider = "ecs"
  /\ \/ op[o].pc = "save" /\ Saves(o, InHand(o)) /\ Goto(o, "health") /\ Waits
     \/ op[o].pc = "resave" /\ Saves(o, op[o].p) /\ Returns(o)
  /\ SaveRest

EcsHealth(o) ==
  /\ provider = "ecs" /\ op[o].pc = "health"
  /\ \/ Healthy(InHand(o)) /\ Returns(o)
     \/ ~Healthy(InHand(o)) /\ Throws(o)
  /\ UNCHANGED <<proc, mem, disk, world, ep, rm, reap, ghosts>>

EcsStep(o) ==
  EcsVerify(o) \/ EcsRunTask(o) \/ EcsTaskRunning(o) \/ EcsSave(o) \/ EcsHealth(o)

EnsureStep(o) ==
  LoadRecord(o) \/ ClearRecord(o) \/ DockerStep(o) \/ FlyStep(o) \/ EcsStep(o)

-----------------------------------------------------------------------------
(* getEndpoint, called by the tools before every request.  With a record in *)
(* memory it changes nothing; without one it adopts what the disk has, or   *)
(* clears it and throws.                                                    *)

Lookup ==
  /\ ensured /\ mem = None /\ ep = None /\ disk # None
  /\ ep' = [p |-> disk, pc |-> IF disk.prov = provider THEN "verify" ELSE "clear"]
  /\ Strays("overlap", Removing)
  /\ UNCHANGED <<proc, mem, disk, world, inFlight, op, ensured, rm, reap, work, old>>

LookupVerified ==
  /\ ep # None /\ ep.pc = "verify"
  /\ \/ /\ TRUE \in Running(ep.p) /\ mem' = ep.p /\ ep' = None
        /\ Strays("lookup", disk # ep.p \/ inFlight # None)
     \/ /\ FALSE \in Running(ep.p) /\ ep' = [ep EXCEPT !.pc = "clear"]
        /\ UNCHANGED <<mem, strayed>>
  /\ UNCHANGED <<proc, disk, world, inFlight, op, ensured, rm, reap, work, old>>

\* Whatever is on record by now.
LookupClears ==
  /\ ep # None /\ ep.pc = "clear" /\ ep' = None
  /\ \/ /\ disk' = None /\ UNCHANGED mishaps
        /\ Strays("lookup", disk # None /\ (disk # ep.p \/ mem # None \/ inFlight # None))
     \/ Budget("fail") /\ UNCHANGED disk /\ Strays("uncleared", disk # None)
  /\ UNCHANGED <<provider, made, mem, world, inFlight, op, ensured, rm, reap, work, old>>

-----------------------------------------------------------------------------
(* /delete: the thread's directory goes while removeContainer runs.        *)

Busy == ep # None \/ \E o \in Op : op[o].pc # "idle"

Delete ==
  /\ rm.pc = "idle" /\ ~rm.wipe /\ Budget("delete")
  /\ inFlight' = None
  /\ rm' = [NoRemove EXCEPT !.pc = "load", !.wipe = TRUE,
              !.known = {b.id : b \in Mine \cap UNION {BoxOf(r) : r \in {mem, disk} \ {None}}}]
  /\ work' = None /\ old' = None
  /\ Strays("overlap", Busy)
  /\ UNCHANGED <<provider, made, mem, disk, world, op, ensured, ep, reap>>

\* deleteThreadData.
WipeThread ==
  /\ rm.wipe
  /\ disk' = None /\ rm' = [rm EXCEPT !.wipe = FALSE]
  /\ UNCHANGED <<proc, mem, world, inFlight, op, ensured, ep, reap, ghosts>>

\* remove: the record and the memory are read, then both are cleared.
RemoveLoads ==
  /\ rm.pc = "load"
  /\ rm' = [rm EXCEPT !.pc = "clear", !.p = disk, !.s = mem]
  /\ mem' = None
  /\ Strays("blind", provider # "docker" /\ disk = None /\ mem = None /\ rm.known # {})
  /\ UNCHANGED <<proc, disk, world, inFlight, op, ensured, ep, reap, work, old>>

RemoveClears ==
  /\ rm.pc = "clear"
  /\ Clears /\ rm' = [rm EXCEPT !.pc = "rm"]
  /\ UNCHANGED <<provider, made, mem, world, inFlight, op, ensured, ep, reap, work, old>>

\* Slip: what is only in memory is not destroyed.
DoomedOnRecord == IF rm.p # None /\ rm.p.prov = provider THEN {rm.p} ELSE {}

\* Memory first, then the record; Docker goes by the name alone.
Doomed ==
  IF provider = "docker" THEN {ByName}
  ELSE IF rm.s # None THEN {rm.s}
  ELSE IF rm.p # None /\ rm.p.prov = provider THEN {rm.p} ELSE {}

\* A failure is logged, and the volume is next; one of Fly's API throws.
RemoveBox ==
  /\ rm.pc = "rm"
  /\ LET doomed == UNION {BoxOf(r) : r \in Doomed}
     IN \/ /\ boxes' = boxes \ doomed /\ rm' = [rm EXCEPT !.pc = "vol"]
           /\ UNCHANGED <<mishaps, strayed>>
        \/ /\ Budget("fail") /\ UNCHANGED boxes /\ Strays("undeleted", doomed # {})
           /\ \/ rm' = [rm EXCEPT !.pc = "vol"]
              \/ provider = "fly" /\ rm.s # None /\ rm' = [rm EXCEPT !.pc = "idle"]
  /\ UNCHANGED <<provider, made, mem, disk, vols, inFlight, op, ensured, ep, reap, work, old>>

\* A volume that a box still uses stays.
RemoveVolume ==
  /\ rm.pc = "vol"
  /\ \/ /\ vols' = vols \ {v \in UNION {VolOf(r) : r \in Doomed} : Unused(v)}
        /\ UNCHANGED mishaps
     \/ Budget("fail") /\ UNCHANGED vols
  /\ rm' = [rm EXCEPT !.pc = "idle"]
  /\ UNCHANGED <<provider, made, mem, disk, boxes, inFlight, op, ensured, ep, reap, ghosts>>

RemoveStep == WipeThread \/ RemoveLoads \/ RemoveClears \/ RemoveBox \/ RemoveVolume

-----------------------------------------------------------------------------
(* reapOrphanSandboxes, in the background from boot on.                    *)

\* What listAll and the records call a box and a volume.
BoxId(prov, id) == <<"box", prov, IF prov = "docker" THEN 0 ELSE id>>
VolId(prov, id) == <<"vol", prov, IF prov = "docker" THEN 0 ELSE id>>

OwnedBoxes ==
  {BoxId(b.prov, b.id) : b \in {c \in Mine : provider # "ecs" \/ c.st # "dead"}}
OwnedVols == {VolId(v.prov, v.id) : v \in {w \in vols : w.prov = provider}}
Owned == OwnedBoxes \cup OwnedVols

\* Slip: the record keeps the box, not its volume.
LiveBoxes(r) == IF r = None THEN {} ELSE {BoxId(r.prov, r.id)}
Live(r) ==
  IF r = None THEN {} ELSE {BoxId(r.prov, r.id)} \cup {VolId(r.prov, r.vol)}

Kept == IF work = None THEN {} ELSE {VolId(work.prov, work.vol)}

ReapLists ==
  /\ reap.pc = "list"
  /\ reap' = [pc |-> IF Owned = {} THEN "done" ELSE "sessions", todo |-> Owned]
  /\ UNCHANGED <<proc, mem, disk, world, inFlight, op, ensured, ep, rm, ghosts>>

ReapCompares ==
  /\ reap.pc = "sessions"
  /\ reap' = [pc |-> "destroy", todo |-> reap.todo \ Live(disk)]
  /\ Strays("unowned", disk = None /\ work # None)
  /\ UNCHANGED <<proc, mem, disk, world, inFlight, op, ensured, ep, rm, work, old>>

\* destroyById, the boxes before the volumes.
ReapDestroys ==
  /\ reap.pc = "destroy"
  /\ \/ \E x \in reap.todo :
          /\ x[1] = "box" \/ \A y \in reap.todo : y[1] = "vol"
          /\ \/ /\ boxes' = boxes \ {b \in boxes : BoxId(b.prov, b.id) = x}
                /\ vols' = vols \ {v \in vols : VolId(v.prov, v.id) = x /\ Unused(v)}
                /\ UNCHANGED mishaps
             \/ Budget("fail") /\ UNCHANGED world
          /\ reap' = [reap EXCEPT !.todo = @ \ {x}]
          /\ Strays("sweep",
               /\ Busy \/ x \in Live(disk) \cup Live(mem) \cup Kept
               /\ old = None \/ x # VolId(old.prov, old.vol))
     \/ /\ reap.todo = {} /\ reap' = [reap EXCEPT !.pc = "done"]
        /\ UNCHANGED <<world, mishaps, strayed>>
  /\ UNCHANGED <<provider, made, mem, disk, inFlight, op, ensured, ep, rm, work, old>>

ReapStep == ReapLists \/ ReapCompares \/ ReapDestroys

-----------------------------------------------------------------------------
(* The world: boxes come up and die, volumes get lost, the process crashes. *)

Boots(b) ==
  /\ b.st = "booting"
  /\ boxes' = (boxes \ {b}) \cup {[b EXCEPT !.st = "up"]}
  /\ UNCHANGED <<proc, mem, disk, vols, inFlight, op, ensured, ep, rm, reap, ghosts>>

Dies(b) ==
  /\ b.st # "dead" /\ Budget("die")
  /\ boxes' = (boxes \ {b}) \cup {[b EXCEPT !.st = "dead"]}
  /\ UNCHANGED <<provider, made, mem, disk, vols, inFlight, op, ensured, ep, rm, reap, ghosts>>

Lost(v) ==
  /\ Unused(v) /\ Budget("lose")
  /\ vols' = vols \ {v} /\ Strays("lost", TRUE)
  /\ UNCHANGED <<provider, made, mem, disk, boxes, inFlight, op, ensured, ep, rm, reap, work, old>>

\* Recovery sets the status alone; the next life may select another provider.
Restart ==
  /\ Budget("crash")
  /\ provider' \in Provider
  /\ mem' = None /\ inFlight' = None /\ op' = [o \in Op |-> NoOp]
  /\ ensured' = FALSE /\ ep' = None /\ rm' = NoRemove
  /\ reap' = [pc |-> "list", todo |-> {}]
  /\ work' = IF provider' = provider THEN work ELSE None
  /\ old' = IF provider' = provider /\ disk # None THEN work ELSE None
  /\ UNCHANGED <<made, disk, world, strayed>>

Next ==
  \/ \E o \in Op : EnsureContainer(o) \/ EnsureStep(o)
  \/ Lookup \/ LookupVerified \/ LookupClears
  \/ Delete \/ RemoveStep \/ ReapStep \/ Restart
  \/ \E b \in boxes : Boots(b) \/ Dies(b)
  \/ \E v \in vols : Lost(v)

Spec == Init /\ [][Next]_vars

-----------------------------------------------------------------------------
(* What `strayed` may hold, and thereby what excuses a loss:               *)
(*   overlap    a /delete while an ensure or a lookup runs, or one of these *)
(*              begun while the /delete's removal runs                      *)
(*   lookup     a lookup adopts or clears a record that is no longer the    *)
(*              one it has read, that is in use, or while an ensure runs    *)
(*   uncleared  the write that clears a record fails (session-store.ts:134) *)
(*   unsaved    the write that saves a record fails (session-store.ts:134)  *)
(*   probe      Fly's volumeById gives up on a volume that is there         *)
(*   unowned    the sweep compares while the thread's record is cleared     *)
(*   sweep      the sweep destroys anything while an ensure or a lookup     *)
(*              runs, or a box or volume of the record, of memory or of the *)
(*              workspace; but to destroy the workspace that was on record  *)
(*              at boot is never excused                                    *)
(*   lost       a volume vanishes outside of the program                    *)
(*   blind      remove of Fly or ECS finds neither memory nor record        *)
(*   undeleted  the removal of a box fails (docker.ts:380, fly.ts:428,      *)
(*              ecs.ts:339)                                                 *)

\* The token every request carries is the one that the box was started with
\* (docker.ts:308, fly.ts:297): otherwise all tools of the thread get a 401.  It
\* holds until an overlap, a lookup or an uncleared record; whatever else fails,
\* dies or restarts.
TokenMatches ==
  mem # None /\ strayed \cap {"overlap", "lookup", "uncleared"} = {} =>
    \A b \in BoxOf(mem) : b.prov = provider => b.tok = mem.tok

\* While no ensure and no /delete runs, the sandbox that tools use is the one on
\* record, with its token: a restart finds it again and the sweep of that boot
\* spares it (sandbox/index.ts:106-127).  It holds until an overlap, a lookup or an
\* unsaved record.
InUseIsRecorded ==
  /\ mem # None /\ ~Removing
  /\ \A o \in Op : op[o].pc = "idle"
  /\ strayed \cap {"overlap", "lookup", "unsaved"} = {}
  => disk # None /\ BoxOf(disk) = BoxOf(mem) /\ disk.tok = mem.tok

\* The first workspace that gets on record keeps its volume until a /delete, and no
\* later record of that provider names another one (docker.ts:268-276, fly.ts:244-285):
\* dead boxes, failing commands and writes, restarts and the sweep at boot do not
\* lose the user's files.  It holds until an overlap, a probe that gives up, a sweep
\* of what is in use or younger than its boot, a sweep that finds the thread without
\* a record (unowned), or a lost volume.
WorkspaceKept ==
  /\ work # None /\ work.prov # "ecs"
  /\ strayed \cap {"overlap", "probe", "sweep", "lost", "unowned"} = {}
  => /\ \E v \in vols : v.prov = work.prov /\ v.id = work.vol
     /\ disk # None /\ disk.prov = work.prov => disk.vol = work.vol

\* When removeContainer returns, the box that memory or the record named when the
\* /delete came is gone (docker.ts:362, fly.ts:413, ecs.ts:487), although the directory
\* goes at the same time.  It holds until an overlap, a removal that is blind or
\* fails (undeleted), or an unsaved record, by which memory and record name two boxes
\* of which only memory's is destroyed.
RemoveFrees ==
  rm.pc = "idle" /\ strayed \cap {"overlap", "blind", "undeleted", "unsaved"} = {} =>
    \A b \in boxes : b.id \notin rm.known

\* What reapOrphanSandboxes destroys is on no record (SPEC.md, section 15: "any
\* sandbox or volume without a matching live session.json record").  Not so: README.
ReapSparesRecorded ==
  [][reap.pc = "destroy" => (reap.todo \ reap'.todo) \cap Live(disk) = {}]_vars
============================================================================
