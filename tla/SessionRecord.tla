--------------------------- MODULE SessionRecord ----------------------------
(***************************************************************************)
(* The routing fields of one thread's session.json and everybody who       *)
(* writes them: the status flips of the scheduler (session.ts), the        *)
(* kickoff of a mention (handler.ts), the sandbox provider                 *)
(* (sandbox/persistence.ts), the git bootstrap (git/bootstrap.ts) and      *)
(* /delete.  All but the last go through updateSession, a read, a change   *)
(* and a write under the per-thread lock of runtime/session-store.ts.      *)
(*                                                                         *)
(* The fields model and sdk_session_id are written by the same setter as   *)
(* home and sandbox and are left out; Session.tla has the status and the   *)
(* writes that fail.  Of the sandbox there is the token that the provider  *)
(* holds and what its calls find of the container: the ensure and the      *)
(* getEndpoint of Docker, one ensure at a time (Sandbox.tla has the other  *)
(* providers, the containers and ensures that overlap).                    *)
(***************************************************************************)
EXTENDS Naturals, Sequences

CONSTANTS
  Mention,        \* mentions of the thread that reach kickoffTurn
  HomeOf,         \* HomeOf[m]: the home in m's envelope
  Delete,         \* "@agenta /delete" messages
  Lookup,         \* calls of getEndpoint
  Handle,         \* the sandbox record a provider saves
  NoFile, Unset,  \* no session.json; a field that is absent from it
  LookupFails     \* BOOLEAN: users.info may give no creator

Field == {"home", "creator", "sandbox"}
Empty == [f \in Field |-> Unset]

\* A mention's user stands for the creator record made of it.
Value == {HomeOf[m] : m \in Mention} \cup Mention \cup {Handle}

ASSUME RecordAssumption ==
  /\ LookupFails \in BOOLEAN
  /\ Unset \notin {HomeOf[m] : m \in Mention} \cup Mention \cup {Handle}
  /\ NoFile \notin [Field -> Value \cup {Unset}]

VARIABLES
  file,     \* the fields in session.json, or NoFile
  jobs,     \* updateSession calls chained on the lock, head running
  view,     \* what the running call has read: <<>> or <<record>>
  pc,       \* the await each kickoff, and the loop behind it, is at
  existing, \* existing[m]: what the kickoff of m read
  token,    \* the provider holds the token of a container
  ensure,   \* ensure: "none", "called", "loading", "adopting", "reattaching",
            \* "clearing", "making" or "saving"
  look,     \* look[l]: "none", "probing" or "clearing"
  boot,     \* ensureRepoBootstrap: "none", "busy" or "saving"
  creator,  \* the creator that the bootstrap has read
  dpc,      \* dpc[d]: the two halves of /delete, "rm" and "remove"
  dead,     \* history: an ensure found the container dead and dropped its token,
            \* and the handle stays for the sake of the volume
  crossed   \* history: a lookup and an ensure of one container disagreed, and the
            \* handle was cleared with the token held

sandbox == <<token, ensure, look, dead, crossed>>
kickoffs == <<pc, existing>>
bootstrap == <<boot, creator>>
actors == <<kickoffs, sandbox, bootstrap, dpc>>
vars == <<file, jobs, view, actors>>

Init ==
  /\ file = NoFile /\ jobs = <<>> /\ view = <<>>
  /\ pc = [m \in Mention |-> "new"]
  /\ existing = [m \in Mention |-> Empty]
  /\ token = FALSE /\ ensure = "none" /\ look = [l \in Lookup |-> "none"]
  /\ dead = FALSE /\ crossed = FALSE
  /\ boot = "none" /\ creator = Unset
  /\ dpc = [d \in Delete |-> [rm |-> "new", remove |-> "new"]]

-----------------------------------------------------------------------------
(* updateSession and the mutators.                                         *)

Fields(r) == IF r = NoFile THEN Empty ELSE r

\* preservedFields: a status flip keeps every routing field.
Flip(by) == [by |-> by, field |-> "status", value |-> Unset]
SetField(by, f, v) == [by |-> by, field |-> f, value |-> v]

\* Slip: a status flip forgets the sandbox.
MutateForgets(job, r) ==
  IF job.field = "status" THEN [Fields(r) EXCEPT !.sandbox = Unset]
  ELSE [Fields(r) EXCEPT ![job.field] = job.value]

\* Clearing the sandbox of a file that is not there writes nothing.
Mutate(job, r) ==
  IF job.field = "status" THEN Fields(r)
  ELSE IF r = NoFile /\ job = SetField(job.by, "sandbox", Unset) THEN NoFile
  ELSE [Fields(r) EXCEPT ![job.field] = job.value]

Enqueue(job) == jobs' = Append(jobs, job)

ReadJob ==
  /\ jobs # <<>> /\ view = <<>>
  /\ view' = <<file>>
  /\ UNCHANGED <<file, jobs, actors>>

\* Slip: without the lock, whoever finishes writes what it has read before.
WrittenUnlocked(job) ==
  /\ view # <<>>
  /\ \E i \in DOMAIN jobs :
       /\ jobs[i] = job
       /\ jobs' = SubSeq(jobs, 1, i - 1) \o SubSeq(jobs, i + 1, Len(jobs))
  /\ view' = IF Len(jobs) = 1 THEN <<>> ELSE view
  /\ file' = Mutate(job, view[1])

\* The running call writes and its caller resumes.
Written(job) ==
  /\ view # <<>> /\ Head(jobs) = job
  /\ jobs' = Tail(jobs) /\ view' = <<>>
  /\ file' = Mutate(job, view[1])

-----------------------------------------------------------------------------
(* kickoffTurn.                                                            *)

Goto(m, l) == pc' = [pc EXCEPT ![m] = l]

\* The record is read once, outside the lock, and never again.
ReadExisting(m) ==
  /\ pc[m] = "new"
  /\ existing' = [existing EXCEPT ![m] = Fields(file)]
  /\ \/ /\ Fields(file).home = Unset
        /\ Enqueue(SetField(m, "home", HomeOf[m]))
        /\ Goto(m, "settingHome")
     \/ /\ Fields(file).home # Unset
        /\ Goto(m, "naming")
        /\ UNCHANGED jobs
  /\ UNCHANGED <<file, view, sandbox, bootstrap, dpc>>

HomeSet(m) ==
  /\ pc[m] = "settingHome"
  /\ Written(SetField(m, "home", HomeOf[m]))
  /\ Goto(m, "naming")
  /\ UNCHANGED <<existing, sandbox, bootstrap, dpc>>

\* resolveCreator, unless the record had a creator.
NameCreator(m) ==
  /\ pc[m] = "naming"
  /\ \/ /\ existing[m].creator = Unset
        /\ Enqueue(SetField(m, "creator", m))
        /\ Goto(m, "settingGit")
     \/ /\ existing[m].creator # Unset \/ LookupFails
        /\ Goto(m, "ready")
        /\ UNCHANGED jobs
  /\ UNCHANGED <<file, view, existing, sandbox, bootstrap, dpc>>

CreatorSet(m) ==
  /\ pc[m] = "settingGit"
  /\ Written(SetField(m, "creator", m))
  /\ Goto(m, "ready")
  /\ UNCHANGED <<existing, sandbox, bootstrap, dpc>>

Running == \E m \in Mention : pc[m] \in {"starting", "turn"}

\* kickoffEnsureContainer, then startOrQueue (see Session.tla).
Ready(m) ==
  /\ pc[m] = "ready"
  /\ ensure' = IF ensure = "none" THEN "called" ELSE ensure
  /\ \/ Running /\ Goto(m, "done") /\ UNCHANGED jobs
     \/ ~Running /\ Goto(m, "starting") /\ Enqueue(Flip(m))
  /\ UNCHANGED <<file, view, existing, token, look, dead, crossed, bootstrap, dpc>>

TurnStarts(m) ==
  /\ pc[m] = "starting"
  /\ Written(Flip(m))
  /\ Goto(m, "turn")
  /\ UNCHANGED <<existing, sandbox, bootstrap, dpc>>

\* The turn's tool calls have returned; clearSession.
TurnEnds(m) ==
  /\ pc[m] = "turn" /\ boot = "none"
  /\ Goto(m, "clearing")
  /\ Enqueue(Flip(m))
  /\ UNCHANGED <<file, view, existing, sandbox, bootstrap, dpc>>

Cleared(m) ==
  /\ pc[m] = "clearing"
  /\ Written(Flip(m))
  /\ Goto(m, "done")
  /\ UNCHANGED <<existing, sandbox, bootstrap, dpc>>

-----------------------------------------------------------------------------
(* The sandbox: ensure.                                                    *)

InTurn == \E m \in Mention : pc[m] = "turn"
Save == SetField("provider", "sandbox", Handle)
Clear(by) == SetField(by, "sandbox", Unset)

\* The preamble of a tool call.
ToolEnsures ==
  /\ InTurn /\ ensure = "none"
  /\ ensure' = "called"
  /\ UNCHANGED <<file, jobs, view, kickoffs, token, look, dead, crossed, bootstrap, dpc>>

\* A container whose token is held is asked whether it runs.
Inspects ==
  /\ ensure = "called"
  /\ \/ token /\ ensure' = "none" /\ UNCHANGED <<token, dead>>
     \/ ensure' = "loading" /\ token' = FALSE /\ dead' = (dead \/ token)
  /\ UNCHANGED <<file, jobs, view, kickoffs, look, crossed, bootstrap, dpc>>

\* The container on record is alive, or only its volume, or neither.
Loads ==
  /\ ensure = "loading"
  /\ \/ /\ Fields(file).sandbox # Unset
        /\ ensure' \in {"adopting", "reattaching"} /\ UNCHANGED jobs
     \/ /\ Fields(file).sandbox # Unset
        /\ ensure' = "clearing" /\ Enqueue(Clear("provider"))
     \/ Fields(file).sandbox = Unset /\ ensure' = "making" /\ UNCHANGED jobs
  /\ UNCHANGED <<file, view, kickoffs, token, look, dead, crossed, bootstrap, dpc>>

EnsureCleared ==
  /\ ensure = "clearing" /\ Written(Clear("provider"))
  /\ ensure' = "making"
  /\ crossed' = (crossed \/ token)
  /\ UNCHANGED <<kickoffs, token, look, dead, bootstrap, dpc>>

\* The adopted container is healthy.
Adopted ==
  /\ ensure = "adopting"
  /\ ensure' = "none" /\ token' = TRUE /\ dead' = FALSE
  /\ UNCHANGED <<file, jobs, view, kickoffs, look, crossed, bootstrap, dpc>>

\* The container is healthy; isReady holds from here on, before saveSandbox.
Provisioned ==
  /\ ensure \in {"reattaching", "making"}
  /\ ensure' = "saving" /\ token' = TRUE /\ dead' = FALSE
  /\ Enqueue(Save)
  /\ UNCHANGED <<file, view, kickoffs, look, crossed, bootstrap, dpc>>

\* docker run or the health check throws.
EnsureFails ==
  /\ ensure \in {"adopting", "reattaching", "making"}
  /\ ensure' = "none"
  /\ UNCHANGED <<file, jobs, view, kickoffs, token, look, dead, crossed, bootstrap, dpc>>

\* A /delete may have dropped the token meanwhile; the handle is saved anyway.
SandboxSaved ==
  /\ Written(Save)
  /\ ensure' = IF ensure = "saving" THEN "none" ELSE ensure
  /\ crossed' = FALSE
  /\ UNCHANGED <<kickoffs, token, look, dead, bootstrap, dpc>>

-----------------------------------------------------------------------------
(* The sandbox: getEndpoint.                                               *)

Look(l, at) == look' = [look EXCEPT ![l] = at]

\* Without a token, the record is read; then the container is probed.
LookupReads(l) ==
  /\ look[l] = "none" /\ InTurn /\ ~token /\ Fields(file).sandbox # Unset
  /\ Look(l, "probing")
  /\ UNCHANGED <<file, jobs, view, kickoffs, token, ensure, dead, crossed, bootstrap, dpc>>

LookupAdopts(l) ==
  /\ look[l] = "probing"
  /\ Look(l, "none") /\ token' = TRUE
  /\ crossed' = (crossed \/ Fields(file).sandbox = Unset)
  /\ UNCHANGED <<file, jobs, view, kickoffs, ensure, dead, bootstrap, dpc>>

\* What is cleared is the record of now, not the one that was read.
LookupGivesUp(l) ==
  /\ look[l] = "probing"
  /\ Look(l, "clearing") /\ Enqueue(Clear(l))
  /\ UNCHANGED <<file, view, kickoffs, token, ensure, dead, crossed, bootstrap, dpc>>

LookupCleared(l) ==
  /\ look[l] = "clearing" /\ Written(Clear(l))
  /\ Look(l, "none")
  /\ crossed' = (crossed \/ token \/ ensure = "adopting")
  /\ UNCHANGED <<kickoffs, token, ensure, dead, bootstrap, dpc>>

-----------------------------------------------------------------------------
(* The git bootstrap.                                                      *)

\* A tool call of the turn: the creator is read long before it is written back.
BootReads ==
  /\ boot = "none" /\ token /\ InTurn
  /\ Fields(file).home # Unset
  /\ boot' = "busy" /\ creator' = Fields(file).creator
  /\ UNCHANGED <<file, jobs, view, kickoffs, sandbox, dpc>>

BootSetsGit ==
  /\ boot = "busy"
  /\ boot' = "saving"
  /\ Enqueue(SetField("bootstrap", "creator", creator))
  /\ UNCHANGED <<file, view, kickoffs, sandbox, creator, dpc>>

BootDone ==
  /\ boot = "saving"
  /\ Written(SetField("bootstrap", "creator", creator))
  /\ boot' = "none"
  /\ UNCHANGED <<kickoffs, sandbox, creator, dpc>>

-----------------------------------------------------------------------------
(* /delete: deleteThreadData and removeContainer, started together.        *)

\* rm -rf, outside the lock.
DeleteRms(d) ==
  /\ dpc[d].rm = "new"
  /\ file' = NoFile
  /\ dpc' = [dpc EXCEPT ![d].rm = "done"]
  /\ UNCHANGED <<jobs, view, kickoffs, sandbox, bootstrap>>

\* The token goes first, then the handle; the container follows.  A save under way
\* is left to itself, and the next ensure does not wait for it.
DeleteRemoves(d) ==
  /\ dpc[d].remove = "new"
  /\ token' = FALSE /\ dead' = FALSE
  /\ ensure' = IF ensure = "saving" THEN "none" ELSE ensure
  /\ Enqueue(Clear(d))
  /\ dpc' = [dpc EXCEPT ![d].remove = "clearing"]
  /\ UNCHANGED <<file, view, kickoffs, look, crossed, bootstrap>>

DeleteCleared(d) ==
  /\ dpc[d].remove = "clearing"
  /\ Written(Clear(d))
  /\ dpc' = [dpc EXCEPT ![d].remove = "done"]
  /\ UNCHANGED <<kickoffs, sandbox, bootstrap>>

-----------------------------------------------------------------------------
KickoffStep(m) ==
  \/ HomeSet(m) \/ NameCreator(m) \/ CreatorSet(m) \/ Ready(m)
  \/ TurnStarts(m) \/ TurnEnds(m) \/ Cleared(m)

Next ==
  \/ \E m \in Mention : ReadExisting(m) \/ KickoffStep(m)
  \/ ReadJob
  \/ ToolEnsures \/ Inspects \/ Loads \/ EnsureCleared \/ Adopted \/ Provisioned \/ EnsureFails
  \/ SandboxSaved
  \/ \E l \in Lookup : LookupReads(l) \/ LookupAdopts(l) \/ LookupGivesUp(l) \/ LookupCleared(l)
  \/ BootReads \/ BootSetsGit \/ BootDone
  \/ \E d \in Delete : DeleteRms(d) \/ DeleteRemoves(d) \/ DeleteCleared(d)

Spec == Init /\ [][Next]_vars

-----------------------------------------------------------------------------
Deleted == \E d \in Delete : dpc[d].rm # "new" \/ dpc[d].remove # "new"

\* Until a /delete, a sandbox whose token is held has its handle in session.json,
\* however the flips, the setters, the bootstrap, ensure and getEndpoint write
\* around it (#254).  Excused: a handle that one of these two cleared while the
\* other took the container for alive, until the next save.
SandboxKnown ==
  token /\ ensure # "saving" /\ ~Deleted /\ ~crossed => Fields(file).sandbox = Handle

\* Until a /delete, a turn runs only when the home is frozen in session.json
\* (bootstrap.ts throws otherwise), whichever of several first mentions wrote it.
HomeBeforeTurn == Running /\ ~Deleted => Fields(file).home # Unset

\* Every write changes the one field that somebody has asked it to, to the value
\* asked for: no update is overwritten with what another had read before it.  Only
\* the sandbox, by its provider, and the creator, by a bootstrap that had found
\* none, are ever asked to be taken back.
Wanted(s) == {[field |-> s[i].field, value |-> s[i].value] :
                i \in {j \in 1 .. Len(s) : s[j].field # "status"}}
Frozen == INSTANCE FrozenRecord WITH
  rec <- Fields(file), asked <- Wanted(jobs), deleted <- Deleted,
  Clearable <- {"creator", "sandbox"}
ImplementsRecord == Frozen!Spec

\* Also with a /delete around, with no write under way session.json names no
\* sandbox whose token the provider has dropped (such a handle would be adopted by
\* the next mention), but for one that an ensure found dead and whose volume the
\* next one is to find.
HandleIsHeld == jobs = <<>> /\ Fields(file).sandbox # Unset => token \/ dead

\* session.json and the provider agree on the sandbox, before and after a /delete.
SandboxAgreed == SandboxKnown /\ HandleIsHeld

\* handler.ts: the home is frozen on the first mention.
FrozenHome ==
  [][Fields(file).home # Unset => Fields(file').home = Fields(file).home]_file

\* SPEC.md, section 5: /delete takes session.json away.  With every mention
\* done and the sandbox dropped, nothing brings it back.
DeleteIsFinal ==
  [][file = NoFile /\ (\A m \in Mention : pc[m] = "done") /\ ensure = "none"
       => file' = NoFile]_file
=============================================================================
