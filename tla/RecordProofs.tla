---------------------------- MODULE RecordProofs ----------------------------
(***************************************************************************)
(* Theorems about SessionRecord for any number of mentions, lookups and    *)
(* /deletes.                                                               *)
(*                                                                         *)
(* The promise of the lock: what the running call has read is what the     *)
(* file holds when it writes, until an rm from outside the lock.           *)
(***************************************************************************)
EXTENDS SessionRecord, SequenceTheorems, TLAPS

Record == [Field -> Value \cup {Unset}]
File == Record \cup {NoFile}

\* Nobody asks for the home to be taken back.
Job == {j \in [by : Mention \cup Delete \cup Lookup \cup {"provider", "bootstrap"},
                field : Field \cup {"status"},
                value : Value \cup {Unset}] : j.field = "home" => j.value # Unset}
Control == {"new", "settingHome", "naming", "settingGit", "ready", "starting",
            "turn", "clearing", "done"}

StoreType ==
  /\ file \in File
  /\ jobs \in Seq(Job)
  /\ view = <<>> \/ \E r \in File : view = <<r>>
  /\ view # <<>> => jobs # <<>>

ActorType ==
  /\ pc \in [Mention -> Control]
  /\ existing \in [Mention -> Record]
  /\ token \in BOOLEAN /\ dead \in BOOLEAN /\ crossed \in BOOLEAN
  /\ ensure \in {"none", "called", "loading", "adopting", "reattaching", "clearing",
                 "making", "saving"}
  /\ look \in [Lookup -> {"none", "probing", "clearing"}]
  /\ boot \in {"none", "busy", "saving"}
  /\ creator \in Value \cup {Unset}
  /\ dpc \in [Delete -> [rm : {"new", "done"}, remove : {"new", "clearing", "done"}]]

TypeOK == StoreType /\ ActorType

-----------------------------------------------------------------------------
(* The mutators.                                                           *)

LEMMA FieldsFacts ==
  /\ Empty \in Record
  /\ NoFile \notin Record
  /\ Fields(NoFile) = Empty
  /\ \A r \in Record : Fields(r) = r
  /\ \A r \in File : Fields(r) \in Record
BY RecordAssumption DEF Empty, Record, File, Fields

LEMMA JobFacts ==
  /\ \A m \in Mention : Flip(m) \in Job
  /\ \A m \in Mention : SetField(m, "home", HomeOf[m]) \in Job
  /\ \A m \in Mention : SetField(m, "creator", m) \in Job
  /\ Save \in Job
  /\ Clear("provider") \in Job
  /\ \A l \in Lookup : Clear(l) \in Job
  /\ \A v \in Value \cup {Unset} : SetField("bootstrap", "creator", v) \in Job
  /\ \A d \in Delete : Clear(d) \in Job
BY RecordAssumption DEF Flip, SetField, Save, Clear, Job, Field, Value

\* What a write makes of the fields: at most the one it names is another.
LEMMA MutateFields ==
  ASSUME NEW job \in Job, NEW r \in File
  PROVE  /\ Mutate(job, r) \in File
         /\ job.field = "status" => Fields(Mutate(job, r)) = Fields(r)
         /\ job.field # "status" =>
              Fields(Mutate(job, r)) = [Fields(r) EXCEPT ![job.field] = job.value]
<1>1. Fields(r) \in Record
  BY FieldsFacts
<1>2. CASE job.field = "status"
  <2>1. Mutate(job, r) = Fields(r)
    BY <1>2 DEF Mutate
  <2>2. QED
    BY <1>1, <1>2, <2>1, FieldsFacts DEF File
<1>3. CASE job.field # "status" /\ r = NoFile /\ job = SetField(job.by, "sandbox", Unset)
  <2>1. Mutate(job, r) = NoFile
    BY <1>3 DEF Mutate
  <2>2. job.field = "sandbox" /\ job.value = Unset
    BY <1>3 DEF SetField
  <2>3. [Empty EXCEPT ![job.field] = job.value] = Empty
    BY <2>2 DEF Empty, Field
  <2>4. QED
    BY <1>3, <2>1, <2>3, FieldsFacts DEF File
<1>4. CASE job.field # "status" /\ ~(r = NoFile /\ job = SetField(job.by, "sandbox", Unset))
  <2>1. Mutate(job, r) = [Fields(r) EXCEPT ![job.field] = job.value]
    BY <1>4 DEF Mutate
  <2>2. [Fields(r) EXCEPT ![job.field] = job.value] \in Record
    BY <1>1, <1>4 DEF Record, Job
  <2>3. QED
    BY <1>4, <2>1, <2>2, FieldsFacts DEF File
<1>5. QED
  BY <1>2, <1>3, <1>4

\* What the running call works on: what it has read, or what it would read now.
Current == IF view = <<>> THEN file ELSE view[1]

LEMMA CurrentType ==
  ASSUME StoreType
  PROVE  Current \in File
BY DEF StoreType, Current

LEMMA WrittenFacts ==
  ASSUME StoreType, NEW job \in Job, Written(job)
  PROVE  /\ jobs # <<>> /\ Head(jobs) = job /\ jobs' = Tail(jobs)
         /\ view' = <<>>
         /\ file' = Mutate(job, Current)
         /\ StoreType'
<1>1. view # <<>> /\ view' = <<>> /\ jobs' = Tail(jobs) /\ Head(jobs) = job
      /\ file' = Mutate(job, Current)
  BY DEF Written, Current
<1>2. QED
  BY <1>1, CurrentType, MutateFields DEF StoreType, Written

LEMMA EnqueueType ==
  ASSUME StoreType, NEW job \in Job, Enqueue(job), UNCHANGED <<file, view>>
  PROVE  StoreType'
BY DEF StoreType, Enqueue

LEMMA GotoType ==
  ASSUME pc \in [Mention -> Control], NEW m \in Mention, NEW l \in Control, Goto(m, l)
  PROVE  pc' \in [Mention -> Control]
BY DEF Goto

-----------------------------------------------------------------------------
(* What a step does to the store: it calls, the lock reads, the lock       *)
(* writes and a caller resumes, or an rm takes the file away.              *)

Calls ==
  /\ UNCHANGED <<file, view>>
  /\ UNCHANGED jobs \/ \E job \in Job : Enqueue(job)

Writes == \E job \in Job : Written(job)

LEMMA StoreStep ==
  ASSUME TypeOK, [Next]_vars
  PROVE  Calls \/ ReadJob \/ Writes \/ \E d \in Delete : DeleteRms(d)
<1> USE JobFacts DEF TypeOK, ActorType
<1>1. ASSUME NEW m \in Mention, ReadExisting(m) \/ NameCreator(m) \/ Ready(m) \/ TurnEnds(m)
      PROVE  Calls
  BY <1>1 DEF Calls, ReadExisting, NameCreator, Ready, TurnEnds
<1>2. ASSUME NEW m \in Mention, HomeSet(m) \/ CreatorSet(m) \/ TurnStarts(m) \/ Cleared(m)
      PROVE  Writes
  BY <1>2 DEF Writes, HomeSet, CreatorSet, TurnStarts, Cleared
<1>3. CASE ToolEnsures \/ Inspects \/ Adopted \/ EnsureFails \/ BootReads
  BY <1>3 DEF Calls, ToolEnsures, Inspects, Adopted, EnsureFails, BootReads
<1>4. CASE Loads \/ Provisioned \/ BootSetsGit
  BY <1>4 DEF Calls, Loads, Provisioned, BootSetsGit
<1>5. CASE EnsureCleared \/ SandboxSaved \/ BootDone
  BY <1>5 DEF Writes, EnsureCleared, SandboxSaved, BootDone
<1>6. ASSUME NEW l \in Lookup, LookupReads(l) \/ LookupAdopts(l) \/ LookupGivesUp(l)
      PROVE  Calls
  BY <1>6 DEF Calls, LookupReads, LookupAdopts, LookupGivesUp
<1>7. ASSUME NEW l \in Lookup, LookupCleared(l) PROVE Writes
  BY <1>7 DEF Writes, LookupCleared
<1>8. ASSUME NEW d \in Delete, DeleteRemoves(d) PROVE Calls
  BY <1>8 DEF Calls, DeleteRemoves
<1>9. ASSUME NEW d \in Delete, DeleteCleared(d) PROVE Writes
  BY <1>9 DEF Writes, DeleteCleared
<1>10. CASE UNCHANGED vars
  BY <1>10 DEF Calls, vars
<1>11. QED
  BY <1>1, <1>2, <1>3, <1>4, <1>5, <1>6, <1>7, <1>8, <1>9, <1>10 DEF Next, KickoffStep

LEMMA StoreTypeStep ==
  ASSUME TypeOK, [Next]_vars
  PROVE  StoreType'
<1>1. CASE Calls
  <2>1. CASE UNCHANGED jobs
    BY <1>1, <2>1 DEF Calls, TypeOK, StoreType
  <2>2. ASSUME NEW job \in Job, Enqueue(job) PROVE StoreType'
    BY <1>1, <2>2, EnqueueType DEF Calls, TypeOK
  <2>3. QED
    BY <1>1, <2>1, <2>2 DEF Calls
<1>2. CASE ReadJob
  BY <1>2 DEF ReadJob, TypeOK, StoreType
<1>3. CASE Writes
  BY <1>3, WrittenFacts DEF Writes, TypeOK
<1>4. CASE \E d \in Delete : DeleteRms(d)
  BY <1>4 DEF DeleteRms, TypeOK, StoreType, File
<1>5. QED
  BY <1>1, <1>2, <1>3, <1>4, StoreStep

LEMMA ActorTypeStep ==
  ASSUME TypeOK, [Next]_vars
  PROVE  ActorType'
<1> USE DEF TypeOK, ActorType, kickoffs, sandbox, bootstrap
<1>1. ASSUME NEW m \in Mention, ReadExisting(m) PROVE ActorType'
  <2>1. Fields(file) \in Record
    BY FieldsFacts DEF StoreType
  <2>2. QED
    BY <1>1, <2>1, GotoType DEF ReadExisting, Control
<1>2. ASSUME NEW m \in Mention, KickoffStep(m) PROVE ActorType'
  <2>1. pc' \in [Mention -> Control]
    BY <1>2, GotoType
    DEF KickoffStep, HomeSet, NameCreator, CreatorSet, Ready, TurnStarts, TurnEnds,
        Cleared, Control
  <2>2. QED
    BY <1>2, <2>1
    DEF KickoffStep, HomeSet, NameCreator, CreatorSet, Ready, TurnStarts, TurnEnds, Cleared
<1>3. CASE ReadJob \/ UNCHANGED vars
  BY <1>3 DEF ReadJob, actors, vars
<1>4. CASE ToolEnsures \/ Inspects \/ Loads \/ EnsureCleared
  BY <1>4 DEF ToolEnsures, Inspects, Loads, EnsureCleared
<1>5. CASE Adopted \/ Provisioned \/ EnsureFails \/ SandboxSaved
  BY <1>5 DEF Adopted, Provisioned, EnsureFails, SandboxSaved
<1>6. ASSUME NEW l \in Lookup,
             LookupReads(l) \/ LookupAdopts(l) \/ LookupGivesUp(l) \/ LookupCleared(l)
      PROVE  ActorType'
  BY <1>6 DEF LookupReads, LookupAdopts, LookupGivesUp, LookupCleared, Look
<1>7. CASE BootReads
  <2>1. Fields(file).creator \in Value \cup {Unset}
    BY FieldsFacts DEF StoreType, Record, Field
  <2>2. QED
    BY <1>7, <2>1 DEF BootReads
<1>8. CASE BootSetsGit \/ BootDone
  BY <1>8 DEF BootSetsGit, BootDone
<1>9. ASSUME NEW d \in Delete, DeleteRms(d) \/ DeleteRemoves(d) \/ DeleteCleared(d)
      PROVE  ActorType'
  BY <1>9 DEF DeleteRms, DeleteRemoves, DeleteCleared
<1>10. QED
  BY <1>1, <1>2, <1>3, <1>4, <1>5, <1>6, <1>7, <1>8, <1>9 DEF Next

LEMMA InitTypeOK == Init => TypeOK
<1> SUFFICES ASSUME Init PROVE TypeOK
  OBVIOUS
<1>1. StoreType
  BY DEF Init, StoreType, File
<1>2. existing \in [Mention -> Record] /\ pc \in [Mention -> Control]
  BY FieldsFacts DEF Init, Control
<1>3. look \in [Lookup -> {"none", "probing", "clearing"}]
  BY DEF Init
<1>4. dpc \in [Delete -> [rm : {"new", "done"}, remove : {"new", "clearing", "done"}]]
  BY DEF Init
<1>5. QED
  BY <1>1, <1>2, <1>3, <1>4 DEF Init, TypeOK, ActorType

\* Every variable keeps its type.
THEOREM TypeCorrect == Spec => []TypeOK
<1>1. Init => TypeOK
  BY InitTypeOK
<1>2. TypeOK /\ [Next]_vars => TypeOK'
  BY StoreTypeStep, ActorTypeStep DEF TypeOK
<1>3. QED
  BY <1>1, <1>2, PTL DEF Spec

-----------------------------------------------------------------------------
(* No lost update.                                                         *)

\* Until a /delete, what the running call has read is what the file holds.
ViewInv == ~Deleted /\ view # <<>> => view = <<file>>

\* The steps of the provider.
SandboxStep ==
  \/ ToolEnsures \/ Inspects \/ Loads \/ EnsureCleared \/ Adopted \/ Provisioned
  \/ EnsureFails \/ SandboxSaved
  \/ \E l \in Lookup : LookupReads(l) \/ LookupAdopts(l) \/ LookupGivesUp(l) \/ LookupCleared(l)

LEMMA SandboxStepKeeps ==
  ASSUME SandboxStep
  PROVE  UNCHANGED <<pc, dpc>>
<1>1. CASE ToolEnsures \/ Inspects \/ Loads \/ EnsureCleared
  BY <1>1 DEF ToolEnsures, Inspects, Loads, EnsureCleared, kickoffs
<1>2. CASE Adopted \/ Provisioned \/ EnsureFails \/ SandboxSaved
  BY <1>2 DEF Adopted, Provisioned, EnsureFails, SandboxSaved, kickoffs
<1>3. ASSUME NEW l \in Lookup,
             LookupReads(l) \/ LookupAdopts(l) \/ LookupGivesUp(l) \/ LookupCleared(l)
      PROVE  UNCHANGED <<pc, dpc>>
  BY <1>3 DEF LookupReads, LookupAdopts, LookupGivesUp, LookupCleared, kickoffs
<1>4. QED
  BY <1>1, <1>2, <1>3 DEF SandboxStep

\* A /delete is never taken back.
LEMMA DeletedStays ==
  ASSUME TypeOK, [Next]_vars
  PROVE  Deleted => Deleted'
<1> USE DEF TypeOK, ActorType, Deleted
<1>1. ASSUME NEW d \in Delete, DeleteRms(d) \/ DeleteRemoves(d) \/ DeleteCleared(d)
      PROVE  Deleted'
  <2>1. dpc'[d].rm # "new" \/ dpc'[d].remove # "new"
    BY <1>1 DEF DeleteRms, DeleteRemoves, DeleteCleared
  <2>2. QED
    BY <2>1
<1>2. ASSUME NEW m \in Mention, ReadExisting(m) \/ KickoffStep(m) PROVE dpc' = dpc
  BY <1>2
  DEF ReadExisting, KickoffStep, HomeSet, NameCreator, CreatorSet, Ready, TurnStarts,
      TurnEnds, Cleared
<1>3. CASE SandboxStep
  <2>1. dpc' = dpc
    BY <1>3, SandboxStepKeeps
  <2>2. QED
    BY <2>1
<1>4. CASE ReadJob \/ BootReads \/ BootSetsGit \/ BootDone \/ UNCHANGED vars
  <2>1. dpc' = dpc
    BY <1>4 DEF ReadJob, BootReads, BootSetsGit, BootDone, actors, vars
  <2>2. QED
    BY <2>1
<1>5. QED
  BY <1>1, <1>2, <1>3, <1>4 DEF Next, SandboxStep

LEMMA RmDeletes ==
  ASSUME TypeOK, NEW d \in Delete, DeleteRms(d)
  PROVE  Deleted'
<1>1. dpc'[d].rm = "done"
  BY DEF TypeOK, ActorType, DeleteRms
<1>2. QED
  BY <1>1 DEF Deleted

LEMMA ViewInvStep ==
  ASSUME TypeOK, ViewInv, [Next]_vars
  PROVE  ViewInv'
<1>1. CASE Calls
  BY <1>1, DeletedStays DEF Calls, ViewInv
<1>2. CASE ReadJob
  BY <1>2 DEF ReadJob, ViewInv
<1>3. CASE Writes
  BY <1>3, WrittenFacts DEF Writes, ViewInv, TypeOK
<1>4. CASE \E d \in Delete : DeleteRms(d)
  BY <1>4, RmDeletes DEF ViewInv
<1>5. QED
  BY <1>1, <1>2, <1>3, <1>4, StoreStep

\* A write before a /delete changes the field of its job, and no other.
LEMMA WriteChanges ==
  ASSUME TypeOK, ViewInv, ~Deleted, NEW job \in Job, Written(job)
  PROVE  /\ job.field = "status" => Fields(file)' = Fields(file)
         /\ job.field # "status" =>
              Fields(file)' = [Fields(file) EXCEPT ![job.field] = job.value]
<1>1. Current = file /\ file \in File
  BY DEF ViewInv, Current, TypeOK, StoreType
<1>2. file' = Mutate(job, file)
  BY <1>1, WrittenFacts DEF TypeOK
<1>3. QED
  BY <1>1, <1>2, MutateFields DEF Fields

\* What the chained calls ask for, when one joins the chain or its head leaves it.
Want(job) == [field |-> job.field, value |-> job.value]

LEMMA WantedAppend ==
  ASSUME StoreType, NEW job \in Job, Enqueue(job)
  PROVE  Wanted(jobs') = IF job.field = "status" THEN Wanted(jobs)
                         ELSE Wanted(jobs) \cup {Want(job)}
<1>1. /\ Len(jobs) \in Nat /\ Len(jobs') = Len(jobs) + 1
      /\ \A i \in 1 .. Len(jobs) : jobs'[i] = jobs[i]
      /\ jobs'[Len(jobs) + 1] = job
  BY DEF StoreType, Enqueue
<1>2. \A i \in 1 .. Len(jobs') : i \in 1 .. Len(jobs) \/ i = Len(jobs) + 1
  BY <1>1
<1>3. 1 .. Len(jobs) \subseteq 1 .. Len(jobs') /\ Len(jobs) + 1 \in 1 .. Len(jobs')
  BY <1>1
<1>4. ASSUME NEW w \in Wanted(jobs')
      PROVE  w \in Wanted(jobs) \/ (job.field # "status" /\ w = Want(job))
  <2>1. PICK i \in 1 .. Len(jobs') : jobs'[i].field # "status"
                                     /\ w = Want(jobs'[i])
    BY DEF Wanted, Want
  <2>2. QED
    BY <1>1, <1>2, <2>1 DEF Wanted, Want
<1>5. ASSUME NEW w \in Wanted(jobs) PROVE w \in Wanted(jobs')
  <2>1. PICK i \in 1 .. Len(jobs) : jobs[i].field # "status" /\ w = Want(jobs[i])
    BY DEF Wanted, Want
  <2>2. jobs'[i].field # "status" /\ w = Want(jobs'[i]) /\ i \in 1 .. Len(jobs')
    BY <1>1, <1>3, <2>1
  <2>3. QED
    BY <2>2 DEF Wanted, Want
<1>6. job.field # "status" => Want(job) \in Wanted(jobs')
  BY <1>1, <1>3 DEF Wanted, Want
<1>7. QED
  BY <1>4, <1>5, <1>6

LEMMA WantedTail ==
  ASSUME StoreType, jobs # <<>>, jobs' = Tail(jobs)
  PROVE  LET job == Head(jobs)
         IN /\ job.field = "status" => Wanted(jobs') = Wanted(jobs)
            /\ job.field # "status" => /\ Want(job) \in Wanted(jobs)
                                      /\ Wanted(jobs') \in {Wanted(jobs), Wanted(jobs) \ {Want(job)}}
<1> DEFINE job == Head(jobs)
<1>1. /\ Len(jobs) \in Nat \ {0} /\ jobs[1] = job
      /\ Len(jobs') = Len(jobs) - 1
      /\ \A i \in 1 .. Len(jobs') : jobs'[i] = jobs[i + 1]
  BY HeadTailProperties, EmptySeq DEF StoreType
<1> HIDE DEF job
<1>2. \A i \in 1 .. Len(jobs) : i = 1 \/ (i - 1 \in 1 .. Len(jobs') /\ (i - 1) + 1 = i)
  BY <1>1
<1>3. \A i \in 1 .. Len(jobs') : i + 1 \in 1 .. Len(jobs)
  BY <1>1
<1>4. ASSUME NEW w \in Wanted(jobs') PROVE w \in Wanted(jobs)
  <2>1. PICK i \in 1 .. Len(jobs') : jobs'[i].field # "status" /\ w = Want(jobs'[i])
    BY DEF Wanted, Want
  <2>2. jobs[i + 1].field # "status" /\ w = Want(jobs[i + 1]) /\ i + 1 \in 1 .. Len(jobs)
    BY <1>1, <1>3, <2>1
  <2>3. QED
    BY <2>2 DEF Wanted, Want
<1>5. ASSUME NEW w \in Wanted(jobs)
      PROVE  w \in Wanted(jobs') \/ (job.field # "status" /\ w = Want(job))
  <2>1. PICK i \in 1 .. Len(jobs) : jobs[i].field # "status" /\ w = Want(jobs[i])
    BY DEF Wanted, Want
  <2>2. CASE i = 1
    BY <1>1, <2>1, <2>2
  <2>3. CASE i # 1
    <3>1. i - 1 \in 1 .. Len(jobs') /\ jobs'[i - 1] = jobs[i]
      BY <1>1, <1>2, <2>3
    <3>2. QED
      BY <2>1, <3>1 DEF Wanted, Want
  <2>4. QED
    BY <2>2, <2>3
<1>6. job.field # "status" => Want(job) \in Wanted(jobs)
  BY <1>1 DEF Wanted, Want
<1>7. job.field = "status" => Wanted(jobs') = Wanted(jobs)
  BY <1>4, <1>5
<1>8. Wanted(jobs') = Wanted(jobs) \/ Wanted(jobs') = Wanted(jobs) \ {Want(job)}
  BY <1>4, <1>5
<1>9. QED
  BY <1>6, <1>7, <1>8 DEF job

LEMMA WantIsWrite ==
  ASSUME NEW job \in Job, job.field # "status"
  PROVE  Want(job) \in Frozen!Write
<1>1. CASE job.value # Unset
  BY <1>1 DEF Job, Want, Frozen!Write
<1>2. CASE job.value = Unset
  <2>1. job.field \in {"creator", "sandbox"}
    BY <1>2 DEF Job, Field
  <2>2. QED
    BY <1>2, <2>1 DEF Want, Frozen!Write
<1>3. QED
  BY <1>1, <1>2

LEMMA FrozenStep ==
  ASSUME TypeOK, ViewInv, [Next]_vars, StoreType'
  PROVE  [Frozen!Next]_(Frozen!vars)
<1>1. Deleted \in BOOLEAN /\ Deleted' \in BOOLEAN
  BY DEF Deleted
<1>2. CASE Deleted'
  BY <1>2 DEF Frozen!Next, Frozen!Forget
<1>3. CASE ~Deleted'
  <2>1. ~Deleted /\ Deleted' = Deleted
    BY <1>1, <1>3, DeletedStays
  <2>2. CASE Calls
    <3>1. Fields(file)' = Fields(file)
      BY <2>2 DEF Calls, Fields
    <3>2. CASE UNCHANGED jobs
      BY <2>1, <3>1, <3>2 DEF Frozen!vars, Wanted
    <3>3. ASSUME NEW job \in Job, Enqueue(job) PROVE [Frozen!Next]_(Frozen!vars)
      <4>1. CASE job.field = "status"
        BY <2>1, <3>1, <3>3, <4>1, WantedAppend DEF Frozen!vars, TypeOK
      <4>2. CASE job.field # "status"
        <5>1. Frozen!Ask(Want(job))
          BY <2>1, <3>1, <3>3, <4>2, WantedAppend DEF Frozen!Ask, TypeOK
        <5>2. QED
          BY <4>2, <5>1, WantIsWrite DEF Frozen!Next
      <4>3. QED
        BY <4>1, <4>2
    <3>4. QED
      BY <2>2, <3>2, <3>3 DEF Calls
  <2>3. CASE ReadJob
    BY <2>1, <2>3 DEF ReadJob, Frozen!vars, Fields, Wanted
  <2>4. CASE Writes
    <3>1. PICK job \in Job : Written(job)
      BY <2>4 DEF Writes
    <3>2. jobs # <<>> /\ Head(jobs) = job /\ jobs' = Tail(jobs)
      BY <3>1, WrittenFacts DEF TypeOK
    <3>3. CASE job.field = "status"
      <4>1. Wanted(jobs') = Wanted(jobs)
        BY <3>2, <3>3, WantedTail DEF TypeOK
      <4>2. Fields(file)' = Fields(file)
        BY <2>1, <3>1, <3>3, WriteChanges
      <4>3. QED
        BY <2>1, <4>1, <4>2 DEF Frozen!vars
    <3>4. CASE job.field # "status"
      <4>1. /\ Want(job) \in Wanted(jobs)
            /\ Wanted(jobs') \in {Wanted(jobs), Wanted(jobs) \ {Want(job)}}
        BY <3>2, <3>4, WantedTail DEF TypeOK
      <4>2. Fields(file)' = [Fields(file) EXCEPT ![Want(job).field] = Want(job).value]
        BY <2>1, <3>1, <3>4, WriteChanges DEF Want
      <4>3. Frozen!Do(Want(job))
        BY <2>1, <4>1, <4>2 DEF Frozen!Do
      <4>4. QED
        BY <3>4, <4>3, WantIsWrite DEF Frozen!Next
    <3>5. QED
      BY <3>3, <3>4
  <2>5. CASE \E d \in Delete : DeleteRms(d)
    BY <1>3, <2>5, RmDeletes
  <2>6. QED
    BY <2>2, <2>3, <2>4, <2>5, StoreStep
<1>4. QED
  BY <1>2, <1>3

\* Until a /delete session.json is a record whose fields are set one at a time, each
\* to a value that somebody has asked for: the lock of session-store.ts:199 and its
\* read, change and write make every update atomic, whoever else writes.  The home
\* is never taken back; the sandbox only by ensure and getEndpoint (docker.ts:258,
\* 306, 351) and the creator by a bootstrap that had found none.
THEOREM RecordImplementsFrozen == Spec => ImplementsRecord
<1>1. Init => TypeOK /\ ViewInv
  BY InitTypeOK DEF Init, ViewInv
<1>2. Init => Frozen!Init
  BY FieldsFacts DEF Init, Frozen!Init, Empty, Deleted, Wanted
<1>3. TypeOK /\ ViewInv /\ [Next]_vars => TypeOK' /\ ViewInv'
  BY StoreTypeStep, ActorTypeStep, ViewInvStep DEF TypeOK
<1>4. TypeOK /\ ViewInv /\ [Next]_vars => [Frozen!Next]_(Frozen!vars)
  BY StoreTypeStep, FrozenStep
<1>5. QED
  BY <1>1, <1>2, <1>3, <1>4, PTL DEF Spec, ImplementsRecord, Frozen!Spec

-----------------------------------------------------------------------------
(* The home is frozen before a turn runs.                                  *)

\* A kickoff that has got past the home leaves one behind, its own or another's.
HomeInv ==
  ~Deleted => \A m \in Mention :
    pc[m] \notin {"new", "settingHome"} => Fields(file).home # Unset

LEMMA HomeStays ==
  ASSUME TypeOK, ViewInv, [Next]_vars, ~Deleted', Fields(file).home # Unset
  PROVE  Fields(file)'.home # Unset
<1>1. ~Deleted
  BY DeletedStays
<1>2. CASE Calls \/ ReadJob
  BY <1>2 DEF Calls, ReadJob, Fields
<1>3. CASE Writes
  <2>1. PICK job \in Job : Written(job)
    BY <1>3 DEF Writes
  <2>2. /\ Fields(file) \in Record /\ job.field \in Field \cup {"status"}
        /\ job.field = "home" => job.value # Unset
    BY FieldsFacts DEF TypeOK, StoreType, Job
  <2>3. QED
    BY <1>1, <2>1, <2>2, WriteChanges DEF Record, Field
<1>4. CASE \E d \in Delete : DeleteRms(d)
  BY <1>4, RmDeletes
<1>5. QED
  BY <1>2, <1>3, <1>4, StoreStep

LEMMA HomeInvStep ==
  ASSUME TypeOK, ViewInv, HomeInv, [Next]_vars
  PROVE  HomeInv'
<1> DEFINE Early == {"new", "settingHome"}
<1> SUFFICES ASSUME ~Deleted', NEW m \in Mention, pc'[m] \notin Early
             PROVE  Fields(file)'.home # Unset
  BY DEF HomeInv
<1>1. ~Deleted
  BY DeletedStays
<1>2. CASE pc[m] \notin Early
  BY <1>1, <1>2, HomeStays DEF HomeInv
<1>3. CASE pc[m] \in Early /\ HomeSet(m)
  <2>1. Fields(file)' = [Fields(file) EXCEPT !["home"] = HomeOf[m]]
    BY <1>1, <1>3, WriteChanges, JobFacts DEF HomeSet, SetField
  <2>2. Fields(file) \in Record
    BY FieldsFacts DEF TypeOK, StoreType
  <2>3. QED
    BY <2>1, <2>2, RecordAssumption DEF Record, Field
<1>4. CASE pc[m] \in Early /\ ReadExisting(m)
  <2>1. pc'[m] \in {"settingHome", "naming"} /\ file' = file
    BY <1>4 DEF ReadExisting, Goto, TypeOK, ActorType
  <2>2. Fields(file).home # Unset
    BY <1>4, <2>1 DEF ReadExisting, Goto, TypeOK, ActorType
  <2>3. QED
    BY <2>1, <2>2 DEF Fields
<1>5. CASE pc[m] \in Early /\ ~HomeSet(m) /\ ~ReadExisting(m)
  <2>1. ASSUME NEW k \in Mention, k # m, ReadExisting(k) \/ KickoffStep(k)
        PROVE  pc'[m] = pc[m]
    BY <2>1
    DEF ReadExisting, KickoffStep, HomeSet, NameCreator, CreatorSet, Ready, TurnStarts,
        TurnEnds, Cleared, Goto, TypeOK, ActorType
  <2>2. ~KickoffStep(m)
    BY <1>5 DEF KickoffStep, NameCreator, CreatorSet, Ready, TurnStarts, TurnEnds, Cleared
  <2>3. ASSUME NEW d \in Delete, DeleteRms(d) \/ DeleteRemoves(d) \/ DeleteCleared(d)
        PROVE  pc' = pc
    BY <2>3 DEF DeleteRms, DeleteRemoves, DeleteCleared, kickoffs
  <2>4. ASSUME ReadJob \/ BootReads \/ BootSetsGit \/ BootDone \/ UNCHANGED vars
        PROVE  pc' = pc
    BY <2>4 DEF ReadJob, BootReads, BootSetsGit, BootDone, actors, kickoffs, vars
  <2>5. pc'[m] = pc[m]
    BY <1>5, <2>1, <2>2, <2>3, <2>4, SandboxStepKeeps DEF Next, SandboxStep
  <2>6. QED
    BY <1>5, <2>5
<1>6. QED
  BY <1>2, <1>3, <1>4, <1>5

\* Until a /delete no turn runs without a home in session.json, whichever of
\* several first mentions has frozen it (handler.ts:223, bootstrap.ts:73).
THEOREM HomeIsFrozenFirst == Spec => []HomeBeforeTurn
<1>1. Init => ViewInv /\ HomeInv
  BY DEF Init, ViewInv, HomeInv
<1>2. HomeInv => HomeBeforeTurn
  BY DEF HomeInv, HomeBeforeTurn, Running
<1>3. QED
  BY <1>1, <1>2, TypeCorrect, ViewInvStep, HomeInvStep, PTL DEF Spec

-----------------------------------------------------------------------------
(* session.json and the provider agree on the sandbox.                     *)

\* Until a /delete there is one handle, and it is on record for whoever holds the
\* token or is about to, unless a lookup and an ensure have crossed.
Holds == (token /\ ensure # "saving") \/ ensure = "adopting"
KnownInv ==
  ~Deleted => /\ Fields(file).sandbox \in {Unset, Handle}
              /\ ~crossed /\ Holds => Fields(file).sandbox = Handle

\* A write to the sandbox, and to anything else.
LEMMA SandboxWrite ==
  ASSUME TypeOK, ViewInv, ~Deleted, NEW job \in Job, Written(job)
  PROVE  Fields(file)'.sandbox = IF job.field = "sandbox" THEN job.value ELSE Fields(file).sandbox
<1>1. Fields(file) \in Record /\ job.field \in Field \cup {"status"}
  BY FieldsFacts DEF TypeOK, StoreType, Job
<1>2. QED
  BY <1>1, WriteChanges DEF Record, Field

LEMMA KnownInvStep ==
  ASSUME TypeOK, ViewInv, KnownInv, [Next]_vars
  PROVE  KnownInv'
<1> DEFINE Box == Fields(file).sandbox
<1> SUFFICES ASSUME ~Deleted'
             PROVE  Box' \in {Unset, Handle} /\ (~crossed' /\ Holds' => Box' = Handle)
  BY DEF KnownInv
<1>1. ~Deleted /\ Box \in {Unset, Handle} /\ (~crossed /\ Holds => Box = Handle)
  BY DeletedStays DEF KnownInv
<1>2. UNCHANGED file => Box' = Box
  BY DEF Fields
<1>3. ASSUME NEW job \in Job, Written(job)
      PROVE  Box' = IF job.field = "sandbox" THEN job.value ELSE Box
  BY <1>1, <1>3, SandboxWrite
<1> HIDE DEF Box
<1> USE JobFacts DEF TypeOK, ActorType
<1>4. ASSUME NEW m \in Mention, ReadExisting(m) \/ NameCreator(m) \/ TurnEnds(m)
      PROVE  Box' = Box /\ Holds' = Holds /\ crossed' = crossed
  BY <1>2, <1>4 DEF ReadExisting, NameCreator, TurnEnds, sandbox, Holds
<1>5. ASSUME NEW m \in Mention, Ready(m) PROVE Box' = Box /\ (Holds' => Holds) /\ crossed' = crossed
  BY <1>2, <1>5 DEF Ready, Holds
<1>6. ASSUME NEW m \in Mention, HomeSet(m) \/ CreatorSet(m) \/ TurnStarts(m) \/ Cleared(m)
      PROVE  Box' = Box /\ Holds' = Holds /\ crossed' = crossed
  <2>1. UNCHANGED sandbox
    BY <1>6 DEF HomeSet, CreatorSet, TurnStarts, Cleared
  <2>2. \E job \in Job : Written(job) /\ job.field # "sandbox"
    BY <1>6 DEF HomeSet, CreatorSet, TurnStarts, Cleared, SetField, Flip
  <2>3. QED
    BY <1>3, <2>1, <2>2 DEF sandbox, Holds
<1>7. CASE ToolEnsures \/ Inspects \/ EnsureFails
  <2>1. Box' = Box /\ crossed' = crossed /\ (Holds' => Holds)
    BY <1>2, <1>7 DEF ToolEnsures, Inspects, EnsureFails, Holds
  <2>2. QED
    BY <1>1, <2>1
<1>8. CASE Loads
  <2>1. Box' = Box /\ crossed' = crossed /\ (Holds' => Holds \/ Box # Unset)
    BY <1>2, <1>8 DEF Loads, Holds, Box
  <2>2. QED
    BY <1>1, <2>1
<1>9. CASE EnsureCleared
  <2>1. Box' = Unset
    BY <1>3, <1>9 DEF EnsureCleared, Clear, SetField
  <2>2. ~crossed' => ~Holds'
    BY <1>9 DEF EnsureCleared, Holds
  <2>3. QED
    BY <2>1, <2>2
<1>10. CASE Adopted
  <2>1. Box' = Box /\ crossed' = crossed /\ Holds
    BY <1>2, <1>10 DEF Adopted, Holds
  <2>2. QED
    BY <1>1, <2>1
<1>11. CASE Provisioned
  BY <1>1, <1>2, <1>11 DEF Provisioned, Holds
<1>12. CASE SandboxSaved
  BY <1>3, <1>12 DEF SandboxSaved, Save, SetField
<1>13. ASSUME NEW l \in Lookup, LookupReads(l) \/ LookupGivesUp(l)
       PROVE  Box' = Box /\ Holds' = Holds /\ crossed' = crossed
  BY <1>2, <1>13 DEF LookupReads, LookupGivesUp, Holds
<1>14. ASSUME NEW l \in Lookup, LookupAdopts(l)
       PROVE  Box' = Box /\ (crossed' \/ Box # Unset)
  BY <1>2, <1>14 DEF LookupAdopts, Box
<1>15. ASSUME NEW l \in Lookup, LookupCleared(l)
       PROVE  Box' = Unset /\ (~crossed' => ~Holds')
  <2>1. Box' = Unset
    BY <1>3, <1>15 DEF LookupCleared, Clear, SetField
  <2>2. ~crossed' => ~Holds'
    BY <1>15 DEF LookupCleared, Holds
  <2>3. QED
    BY <2>1, <2>2
<1>16. CASE BootReads \/ BootSetsGit \/ ReadJob \/ UNCHANGED vars
  <2>1. Box' = Box /\ crossed' = crossed /\ Holds' = Holds
    BY <1>2, <1>16 DEF BootReads, BootSetsGit, ReadJob, vars, actors, sandbox, Holds
  <2>2. QED
    BY <1>1, <2>1
<1>17. CASE BootDone
  <2>1. UNCHANGED sandbox
    BY <1>17 DEF BootDone
  <2>2. Box' = Box
    BY <1>3, <1>17 DEF BootDone, SetField
  <2>3. QED
    BY <1>1, <2>1, <2>2 DEF sandbox, Holds
<1>18. ASSUME NEW d \in Delete, DeleteRms(d) \/ DeleteRemoves(d) \/ DeleteCleared(d)
       PROVE  FALSE
  <2>1. dpc'[d].rm # "new" \/ dpc'[d].remove # "new"
    BY <1>18 DEF DeleteRms, DeleteRemoves, DeleteCleared
  <2>2. QED
    BY <2>1 DEF Deleted
<1>19. QED
  BY <1>1, <1>4, <1>5, <1>6, <1>7, <1>8, <1>9, <1>10, <1>11, <1>12, <1>13, <1>14, <1>15,
     <1>16, <1>17, <1>18 DEF Next, KickoffStep

\* What the file will say of the sandbox once the chained writes are through, an rm
\* aside: nothing.
HandleGone ==
  \/ \E i \in 1 .. Len(jobs) :
       /\ jobs[i].field = "sandbox" /\ jobs[i].value = Unset
       /\ \A j \in i + 1 .. Len(jobs) : jobs[j].field # "sandbox"
  \/ /\ \A i \in 1 .. Len(jobs) : jobs[i].field # "sandbox"
     /\ Fields(Current).sandbox = Unset

\* Whoever drops the token has the handle cleared behind every save of it, or leaves
\* it for the volume it names.
HeldInv == ~token /\ ~dead => HandleGone

LEMMA EnqueueGone ==
  ASSUME StoreType, NEW job \in Job, Enqueue(job), UNCHANGED <<file, view>>,
         job.field = "sandbox" => job.value = Unset,
         HandleGone \/ job.field = "sandbox"
  PROVE  HandleGone'
<1>1. /\ Len(jobs) \in Nat /\ Len(jobs') = Len(jobs) + 1
      /\ \A i \in 1 .. Len(jobs) : jobs'[i] = jobs[i]
      /\ jobs'[Len(jobs) + 1] = job
  BY DEF StoreType, Enqueue
<1>2. CASE job.field = "sandbox"
  BY <1>1, <1>2 DEF HandleGone
<1>3. CASE job.field # "sandbox"
  <2>1. Current' = Current
    BY DEF Current
  <2>2. CASE \E i \in 1 .. Len(jobs) :
               /\ jobs[i].field = "sandbox" /\ jobs[i].value = Unset
               /\ \A j \in i + 1 .. Len(jobs) : jobs[j].field # "sandbox"
    BY <1>1, <1>3, <2>2 DEF HandleGone
  <2>3. CASE /\ \A i \in 1 .. Len(jobs) : jobs[i].field # "sandbox"
             /\ Fields(Current).sandbox = Unset
    BY <1>1, <1>3, <2>1, <2>3 DEF HandleGone, Fields
  <2>4. QED
    BY <1>3, <2>2, <2>3 DEF HandleGone
<1>4. QED
  BY <1>2, <1>3

LEMMA WrittenGone ==
  ASSUME StoreType, NEW job \in Job, Written(job), HandleGone
  PROVE  HandleGone'
<1>1. /\ Len(jobs) \in Nat \ {0} /\ jobs[1] = job
      /\ Len(jobs') = Len(jobs) - 1
      /\ \A i \in 1 .. Len(jobs') : jobs'[i] = jobs[i + 1]
  BY WrittenFacts, HeadTailProperties, EmptySeq DEF StoreType
<1>2. /\ Current' = Mutate(job, Current)
      /\ Fields(Current) \in Record
  BY WrittenFacts, CurrentType, FieldsFacts DEF Current
<1>3. /\ job.field = "status" => Fields(Current)' = Fields(Current)
      /\ job.field # "status" =>
           Fields(Current)' = [Fields(Current) EXCEPT ![job.field] = job.value]
  BY <1>2, CurrentType, MutateFields DEF Fields
<1>4. ASSUME NEW i \in 1 .. Len(jobs), i # 1,
             jobs[i].field = "sandbox", jobs[i].value = Unset,
             \A j \in i + 1 .. Len(jobs) : jobs[j].field # "sandbox"
      PROVE  HandleGone'
  <2>1. /\ i - 1 \in 1 .. Len(jobs')
        /\ jobs'[i - 1] = jobs[i]
        /\ \A j \in (i - 1) + 1 .. Len(jobs') : jobs'[j] = jobs[j + 1] /\ j + 1 \in i + 1 .. Len(jobs)
    BY <1>1, <1>4
  <2>2. QED
    BY <1>4, <2>1 DEF HandleGone
<1>5. ASSUME job.field = "sandbox", job.value = Unset,
             \A j \in 2 .. Len(jobs) : jobs[j].field # "sandbox"
      PROVE  HandleGone'
  <2>1. Fields(Current)'.sandbox = Unset
    BY <1>2, <1>3, <1>5 DEF Record, Field
  <2>2. \A i \in 1 .. Len(jobs') : jobs'[i].field # "sandbox"
    BY <1>1, <1>5
  <2>3. QED
    BY <2>1, <2>2 DEF HandleGone
<1>6. ASSUME \A i \in 1 .. Len(jobs) : jobs[i].field # "sandbox",
             Fields(Current).sandbox = Unset
      PROVE  HandleGone'
  <2>1. job.field # "sandbox" /\ job.field \in Field \cup {"status"}
    BY <1>1, <1>6 DEF Job
  <2>2. Fields(Current)'.sandbox = Unset
    BY <1>2, <1>3, <1>6, <2>1 DEF Record, Field
  <2>3. \A i \in 1 .. Len(jobs') : jobs'[i].field # "sandbox"
    BY <1>1, <1>6
  <2>4. QED
    BY <2>2, <2>3 DEF HandleGone
<1>7. ASSUME NEW i \in 1 .. Len(jobs), jobs[i].field = "sandbox", jobs[i].value = Unset,
             \A j \in i + 1 .. Len(jobs) : jobs[j].field # "sandbox"
      PROVE  HandleGone'
  <2>1. CASE i = 1
    BY <1>1, <1>5, <1>7, <2>1
  <2>2. CASE i # 1
    BY <1>4, <1>7, <2>2
  <2>3. QED
    BY <2>1, <2>2
<1>8. QED
  BY <1>6, <1>7 DEF HandleGone

LEMMA HeldInvStep ==
  ASSUME TypeOK, HeldInv, [Next]_vars
  PROVE  HeldInv'
<1> DEFINE Let == ~token /\ ~dead
<1> SUFFICES ASSUME Let' PROVE HandleGone'
  BY DEF HeldInv
<1> USE JobFacts DEF TypeOK, ActorType
<1>1. ASSUME Let, UNCHANGED <<file, view>>,
             \/ UNCHANGED jobs
             \/ \E job \in Job : Enqueue(job) /\ (job.field = "sandbox" => job.value = Unset)
      PROVE  HandleGone'
  <2>1. HandleGone
    BY <1>1 DEF HeldInv
  <2>2. CASE UNCHANGED jobs
    BY <1>1, <2>1, <2>2 DEF HandleGone, Current, Fields
  <2>3. CASE ~UNCHANGED jobs
    <3>1. PICK job \in Job : Enqueue(job) /\ (job.field = "sandbox" => job.value = Unset)
      BY <1>1, <2>3
    <3>2. QED
      BY <1>1, <2>1, <3>1, EnqueueGone
  <2>4. QED
    BY <2>2, <2>3
<1>2. ASSUME Let, NEW job \in Job, Written(job) PROVE HandleGone'
  BY <1>2, WrittenGone DEF HeldInv
<1>3. ASSUME NEW m \in Mention, ReadExisting(m) \/ NameCreator(m) \/ Ready(m) \/ TurnEnds(m)
      PROVE  HandleGone'
  <2>1. Let /\ UNCHANGED <<file, view>>
    BY <1>3 DEF ReadExisting, NameCreator, Ready, TurnEnds, sandbox
  <2>2. UNCHANGED jobs \/ \E job \in Job : job.field # "sandbox" /\ Enqueue(job)
    BY <1>3 DEF ReadExisting, NameCreator, Ready, TurnEnds, SetField, Flip
  <2>3. QED
    BY <1>1, <2>1, <2>2
<1>4. ASSUME NEW m \in Mention, HomeSet(m) \/ CreatorSet(m) \/ TurnStarts(m) \/ Cleared(m)
      PROVE  HandleGone'
  <2>1. Let
    BY <1>4 DEF HomeSet, CreatorSet, TurnStarts, Cleared, sandbox
  <2>2. \E job \in Job : Written(job)
    BY <1>4 DEF HomeSet, CreatorSet, TurnStarts, Cleared
  <2>3. QED
    BY <1>2, <2>1, <2>2
<1>5. CASE ReadJob
  <2>1. HandleGone /\ Current' = Current /\ jobs' = jobs
    BY <1>5 DEF HeldInv, ReadJob, actors, sandbox, Current
  <2>2. QED
    BY <2>1 DEF HandleGone, Fields
<1>6. CASE ToolEnsures \/ Inspects \/ EnsureFails \/ BootReads \/ UNCHANGED vars
  <2>1. Let /\ UNCHANGED <<file, view, jobs>>
    BY <1>6 DEF ToolEnsures, Inspects, EnsureFails, BootReads, vars, actors, sandbox
  <2>2. QED
    BY <1>1, <2>1
<1>7. CASE Loads
  <2>1. Let /\ UNCHANGED <<file, view>>
    BY <1>7 DEF Loads
  <2>2. UNCHANGED jobs \/ Enqueue(Clear("provider"))
    BY <1>7 DEF Loads
  <2>3. QED
    BY <1>1, <2>1, <2>2 DEF Clear, SetField
<1>8. CASE Adopted \/ Provisioned
  BY <1>8 DEF Adopted, Provisioned
<1>9. CASE EnsureCleared \/ SandboxSaved \/ BootDone
  <2>1. Let
    BY <1>9 DEF EnsureCleared, SandboxSaved, BootDone, sandbox
  <2>2. \E job \in Job : Written(job)
    BY <1>9 DEF EnsureCleared, SandboxSaved, BootDone
  <2>3. QED
    BY <1>2, <2>1, <2>2
<1>10. ASSUME NEW l \in Lookup, LookupReads(l) \/ LookupGivesUp(l) PROVE HandleGone'
  <2>1. Let /\ UNCHANGED <<file, view>>
    BY <1>10 DEF LookupReads, LookupGivesUp
  <2>2. UNCHANGED jobs \/ Enqueue(Clear(l))
    BY <1>10 DEF LookupReads, LookupGivesUp
  <2>3. QED
    BY <1>1, <2>1, <2>2 DEF Clear, SetField
<1>11. ASSUME NEW l \in Lookup, LookupAdopts(l) PROVE HandleGone'
  BY <1>11 DEF LookupAdopts
<1>12. ASSUME NEW l \in Lookup, LookupCleared(l) PROVE HandleGone'
  <2>1. Let
    BY <1>12 DEF LookupCleared
  <2>2. QED
    BY <1>2, <1>12, <2>1 DEF LookupCleared
<1>13. CASE BootSetsGit
  <2>1. Let /\ UNCHANGED <<file, view>>
    BY <1>13 DEF BootSetsGit, sandbox
  <2>2. QED
    BY <1>1, <1>13, <2>1 DEF BootSetsGit, SetField
<1>14. ASSUME NEW d \in Delete, DeleteRms(d) PROVE HandleGone'
  <2>1. HandleGone /\ file' = NoFile /\ UNCHANGED <<jobs, view>>
    BY <1>14 DEF HeldInv, DeleteRms, sandbox
  <2>2. Fields(Current)'.sandbox = Unset \/ Fields(Current)' = Fields(Current)
    BY <2>1, FieldsFacts DEF Current, Fields, Empty, Field
  <2>3. QED
    BY <2>1, <2>2 DEF HandleGone
<1>15. ASSUME NEW d \in Delete, DeleteRemoves(d) PROVE HandleGone'
  BY <1>15, EnqueueGone DEF DeleteRemoves, Clear, SetField
<1>16. ASSUME NEW d \in Delete, DeleteCleared(d) PROVE HandleGone'
  <2>1. Let
    BY <1>16 DEF DeleteCleared, sandbox
  <2>2. QED
    BY <1>2, <1>16, <2>1 DEF DeleteCleared
<1>17. QED
  BY <1>3, <1>4, <1>5, <1>6, <1>7, <1>8, <1>9, <1>10, <1>11, <1>12, <1>13, <1>14, <1>15,
     <1>16 DEF Next, KickoffStep

\* Until a /delete a sandbox whose token is held is on record, so that the next
\* process finds it (#254), unless one of ensure and getEndpoint cleared the handle
\* while the other took the container for alive (docker.ts:306, 351); and with a
\* /delete too, once the writes are through, no handle is on record whose token the
\* provider has dropped (docker.ts:376), but for one kept for its volume (:241).
THEOREM SandboxAgreement == Spec => []SandboxAgreed
<1>1. Init => ViewInv /\ KnownInv /\ HeldInv
  BY FieldsFacts
  DEF Init, ViewInv, KnownInv, Holds, HeldInv, HandleGone, Current, Empty, Field
<1>2. TypeOK /\ KnownInv => SandboxKnown
  BY DEF KnownInv, Holds, SandboxKnown
<1>3. TypeOK /\ HeldInv => HandleIsHeld
  <2>1. ASSUME jobs = <<>>, StoreType PROVE Len(jobs) = 0 /\ Current = file
    BY <2>1 DEF Current, StoreType
  <2>2. QED
    BY <2>1 DEF HeldInv, HandleIsHeld, HandleGone, TypeOK
<1>4. QED
  BY <1>1, <1>2, <1>3, TypeCorrect, ViewInvStep, KnownInvStep, HeldInvStep, PTL
  DEF Spec, SandboxAgreed
============================================================================
