------------------------------- MODULE Ingest -------------------------------
(***************************************************************************)
(* How the messages of a thread and their files get onto the disk and into *)
(* the sandbox: the part of handleMessage up to the record, handleEdit and *)
(* handleDelete (runtime/handler.ts), backfillIfNew                        *)
(* (persistence/backfill.ts), the attachments (persistence/attachments.ts) *)
(* and syncAttachmentsToSandbox (sandbox/index.ts).                        *)
(*                                                                         *)
(* Every message is an event of its own and the handlers interleave at     *)
(* every await.  log holds the records of user messages; records of edits  *)
(* and deletions only matter for the directory they make.  A file goes by  *)
(* the name of its message.                                                *)
(***************************************************************************)
EXTENDS Naturals, FiniteSets, Sequences, SequencesExt

CONSTANTS
  Msg,          \* messages of the thread
  Root,         \* the one that starts it
  Mentions,     \* the sets of them that may mention the bot
  WithFile,     \* those with an attachment
  PageSize,     \* messages per page of conversations.replies
  None,
  Removable,    \* bound: messages that users may delete
  Mishap,       \* "miss", "fetch", "write", "throw", "edit", "ask", "unlink", "wipe",
                \* "crash", "move"
  MaxMishaps    \* bound: mishaps

ASSUME IngestAssumption ==
  /\ Root \in Msg /\ Mentions \subseteq SUBSET Msg /\ WithFile \subseteq Msg
  /\ None \notin Msg /\ PageSize \in Nat \ {0}

VARIABLES
  mention,    \* the messages that mention the bot
  posted,     \* the thread in Slack, oldest first
  gone,       \* messages deleted in Slack
  pc,         \* pc[m]: the handler of the event of m
  fill,       \* fill[m]: messages listed and not yet recorded by its backfill
  cursor,     \* cursor[m]: how far the listing got
  ref,        \* ref[m]: the file of the message in hand: "none", "asked", "yes", "no"
  del,        \* del[m]: the handler of the deletion of m
  log,        \* messages.jsonl: [m, file]
  dir,        \* what exists: subset of {"thread", "attachments"}
  att,        \* files in attachments/
  done,       \* syncedAttachments of this process
  push,       \* the file being written to the sandbox, [f, kept]
  box,        \* files in the sandbox
  wipe,       \* what a /delete has still to remove: subset of {"data", "box"}
  before,     \* history: what was posted when the backfill of m began
  mishaps,
  marred,     \* history: what excuses a loss, see the properties
  stray       \* history: messages whose file no deletion finds, and why: it was
              \* written in part, its handler failed or died with it in hand, or its
              \* deletion came too early or failed

slackSide == <<mention, posted, gone>>
handlers == <<pc, fill, cursor, ref, del>>
disk == <<log, dir, att>>
mirror == <<done, push, box>>
vars == <<slackSide, handlers, disk, mirror, wipe, before, mishaps, marred, stray>>

NoPush == [f |-> None, kept |-> FALSE]

Init ==
  /\ mention \in Mentions /\ posted = <<>> /\ gone = {}
  /\ pc = [m \in Msg |-> "none"] /\ del = [m \in Msg |-> "none"]
  /\ fill = [m \in Msg |-> <<>>] /\ cursor = [m \in Msg |-> 0]
  /\ ref = [m \in Msg |-> "none"]
  /\ log = <<>> /\ dir = {} /\ att = {}
  /\ done = {} /\ push = NoPush /\ box = {} /\ wipe = {}
  /\ before = [m \in Msg |-> {}] /\ mishaps = 0 /\ marred = {} /\ stray = {}

Busy(m) == pc[m] \in {"heard", "listing", "filling", "own"}
Logged == {log[i].m : i \in DOMAIN log}
Budget(k) == k \in Mishap /\ mishaps < MaxMishaps /\ mishaps' = mishaps + 1
Mar(why, cond) == marred' = IF cond THEN marred \cup {why} ELSE marred
\* The message a handler has in hand: the next of its backfill, then its own.
Item(m) == IF fill[m] # <<>> THEN Head(fill[m]) ELSE m

-----------------------------------------------------------------------------
(* Slack.                                                                  *)

\* normalize drops a message outside of a thread that does not mention the bot;
\* the event of any other may get lost (see Delivery).
Posts(m) ==
  /\ pc[m] = "none" /\ (m # Root => Root \in Range(posted))
  /\ posted' = Append(posted, m)
  /\ \/ ~(m = Root /\ m \notin mention) /\ pc' = [pc EXCEPT ![m] = "heard"] /\ UNCHANGED mishaps
     \/ m = Root /\ m \notin mention /\ pc' = [pc EXCEPT ![m] = "unheard"] /\ UNCHANGED mishaps
     \/ Budget("miss") /\ pc' = [pc EXCEPT ![m] = "unheard"]
  /\ Mar("raced", \E k \in Msg : pc[k] = "listing")
  /\ UNCHANGED <<mention, gone, fill, cursor, ref, del, disk, mirror, wipe, before, stray>>

\* A user deletes a message.
Removes(m) ==
  /\ m \in (Range(posted) \cap Removable) \ gone
  /\ gone' = gone \cup {m} /\ del' = [del EXCEPT ![m] = "heard"]
  /\ UNCHANGED <<mention, posted, pc, fill, cursor, ref, disk, mirror, wipe, before, stray, mishaps, marred>>

-----------------------------------------------------------------------------
(* handleMessage up to the record.                                         *)

\* A mention looks for the thread directory; a reply that answers a pending
\* question is used up by it (see Asks).
Handle(m) ==
  /\ pc[m] = "heard"
  /\ \/ /\ m \in mention /\ dir = {}
        /\ pc' = [pc EXCEPT ![m] = "listing"]
        /\ before' = [before EXCEPT ![m] = Range(posted)]
        /\ Mar("raced", \E k \in Msg \ {m} : Busy(k)) /\ UNCHANGED mishaps
     \/ /\ m \notin mention \/ dir # {}
        /\ pc' = [pc EXCEPT ![m] = "own"] /\ UNCHANGED <<before, mishaps, marred>>
     \/ /\ m \notin mention /\ (\E k \in mention : pc[k] = "done") /\ Budget("ask")
        /\ pc' = [pc EXCEPT ![m] = "done"] /\ UNCHANGED <<before, marred>>
  /\ UNCHANGED <<slackSide, fill, cursor, ref, del, disk, mirror, wipe, stray>>

\* The indices of one page, except for the messages Slack no longer has and the one
\* that triggered the backfill (those of bots are not in Msg).
Page(m) ==
  {i \in 1 .. Len(posted) : /\ cursor[m] < i /\ i <= cursor[m] + PageSize
                            /\ posted[i] \notin gone /\ posted[i] # m}
\* The messages at these indices, in their order.
InOrder(I) ==
  {[n \in 1 .. Cardinality(I) |-> posted[k[n]]] :
     k \in {j \in [1 .. Cardinality(I) -> I] :
             Range(j) = I /\ \A n, l \in 1 .. Cardinality(I) : n < l => j[n] < j[l]}}

\* Slip: the trigger is not excluded.
ListsAll(m) ==
  /\ pc[m] = "listing"
  /\ fill' = [fill EXCEPT ![m] = SelectSeq(posted, LAMBDA x : x \notin gone)]
  /\ pc' = [pc EXCEPT ![m] = "filling"]
  /\ UNCHANGED <<slackSide, cursor, ref, del, disk, mirror, wipe, before, stray, mishaps, marred>>

\* Slip: next_cursor is not followed.
ListsOnce(m) ==
  /\ pc[m] = "listing"
  /\ \E page \in InOrder(Page(m)) : fill' = [fill EXCEPT ![m] = page]
  /\ pc' = [pc EXCEPT ![m] = "filling"]
  /\ UNCHANGED <<slackSide, cursor, ref, del, disk, mirror, wipe, before, stray, mishaps, marred>>

\* conversations.replies, page after page; nothing is written before the last.
Lists(m) ==
  /\ pc[m] = "listing"
  /\ \E page \in InOrder(Page(m)) : fill' = [fill EXCEPT ![m] = @ \o page]
  /\ cursor' = [cursor EXCEPT ![m] = @ + PageSize]
  /\ pc' = [pc EXCEPT ![m] = IF cursor[m] + PageSize >= Len(posted) THEN "filling" ELSE "listing"]
  /\ UNCHANGED <<slackSide, ref, del, disk, mirror, wipe, before, stray, mishaps, marred>>

Saving(m) == pc[m] \in {"filling", "own"} /\ ~(pc[m] = "filling" /\ fill[m] = <<>>)

\* downloadFiles makes the directory, then fetches.
Fetch(m) ==
  /\ Saving(m) /\ Item(m) \in WithFile /\ ref[m] = "none"
  /\ ref' = [ref EXCEPT ![m] = "asked"]
  /\ dir' = {"thread", "attachments"}
  /\ UNCHANGED <<slackSide, pc, fill, cursor, del, log, att, mirror, wipe, before, stray, mishaps, marred>>

\* Slip: a file that could not be had is referred to all the same.
SaveTrusts(m) ==
  /\ ref[m] = "asked"
  /\ ref' = [ref EXCEPT ![m] = "yes"]
  /\ \/ "attachments" \in dir /\ att' = att \cup {Item(m)} /\ UNCHANGED mishaps
     \/ Budget("fetch") /\ UNCHANGED att
  /\ UNCHANGED <<slackSide, pc, fill, cursor, del, log, dir, mirror, wipe, before, stray, marred>>

\* The answer is written.  A file that Slack or the disk refuses is skipped; what a
\* failing writeFile has left of it, or detectMime has failed to name, stays.
Save(m) ==
  /\ ref[m] = "asked"
  /\ \/ /\ "attachments" \in dir
        /\ ref' = [ref EXCEPT ![m] = "yes"] /\ att' = att \cup {Item(m)}
        /\ UNCHANGED <<mishaps, stray>>
     \/ /\ "attachments" \notin dir \/ Item(m) \in gone
        /\ ref' = [ref EXCEPT ![m] = "no"] /\ UNCHANGED <<att, mishaps, stray>>
     \/ Budget("fetch") /\ ref' = [ref EXCEPT ![m] = "no"] /\ UNCHANGED <<att, stray>>
     \/ /\ "attachments" \in dir /\ Budget("write")
        /\ ref' = [ref EXCEPT ![m] = "no"]
        /\ att' = att \cup {Item(m)} /\ stray' = stray \cup {Item(m)}
  /\ UNCHANGED <<slackSide, pc, fill, cursor, del, log, dir, mirror, wipe, before, marred>>

\* record: one line, in a directory that is made again if it is gone.
Records(m) ==
  /\ Saving(m) /\ (Item(m) \in WithFile => ref[m] \in {"yes", "no"})
  /\ log' = Append(log, [m |-> Item(m), file |-> ref[m] = "yes"])
  /\ dir' = dir \cup {"thread"}
  /\ ref' = [ref EXCEPT ![m] = "none"]
  /\ IF fill[m] # <<>> THEN fill' = [fill EXCEPT ![m] = Tail(@)] /\ UNCHANGED pc
                       ELSE pc' = [pc EXCEPT ![m] = "done"] /\ UNCHANGED fill
  /\ UNCHANGED <<slackSide, cursor, del, att, mirror, wipe, before, stray, mishaps, marred>>

Filled(m) ==
  /\ pc[m] = "filling" /\ fill[m] = <<>>
  /\ pc' = [pc EXCEPT ![m] = "own"]
  /\ cursor' = [cursor EXCEPT ![m] = 0] /\ before' = [before EXCEPT ![m] = {}]
  /\ UNCHANGED <<slackSide, fill, ref, del, disk, mirror, wipe, mishaps, marred, stray>>

\* The message a handler has saved a file of and not yet recorded.
InHandOf(m) == IF ref[m] = "yes" THEN {Item(m)} ELSE {}

\* conversations.replies, mkdir or the append rejects, which leaves handleMessage:
\* nothing more of what was listed is recorded, nor the message itself.
Throws(m) ==
  /\ Busy(m) /\ pc[m] # "heard" /\ ref[m] # "asked" /\ Budget("throw")
  /\ pc' = [pc EXCEPT ![m] = "unheard"] /\ fill' = [fill EXCEPT ![m] = <<>>]
  /\ cursor' = [cursor EXCEPT ![m] = 0] /\ ref' = [ref EXCEPT ![m] = "none"]
  /\ stray' = stray \cup InHandOf(m)
  /\ UNCHANGED <<slackSide, del, disk, mirror, wipe, before, marred>>

-----------------------------------------------------------------------------
(* handleEdit and handleDelete.                                            *)

EditArrives ==
  /\ posted # <<>> /\ Budget("edit")
  /\ dir' = dir \cup {"thread"}
  /\ UNCHANGED <<slackSide, handlers, log, att, mirror, wipe, before, stray, marred>>

FirstRecord(m) == log[CHOOSE i \in DOMAIN log :
  log[i].m = m /\ \A j \in DOMAIN log : log[j].m = m => i <= j]

\* The deletion of m is handled before its record is written, or finds a record
\* without the file that a later one has.
TooEarly(m) ==
  \/ \E k \in Msg : Busy(k) /\ (k = m \/ m \in Range(fill[k]))
  \/ \E i \in DOMAIN log : log[i].m = m /\ log[i].file /\ ~FirstRecord(m).file

\* deleteAttachmentsForSlackTs finds the first record of the message.
DeleteReads(m) ==
  /\ del[m] = "heard"
  /\ del' = [del EXCEPT ![m] =
       IF m \in Logged /\ FirstRecord(m).file THEN "unlink" ELSE "record"]
  /\ stray' = IF TooEarly(m) THEN stray \cup {m} ELSE stray
  /\ UNCHANGED <<slackSide, pc, fill, cursor, ref, disk, mirror, wipe, before, mishaps, marred>>

\* A failing unlink is swallowed.
DeleteUnlinks(m) ==
  /\ del[m] = "unlink" /\ del' = [del EXCEPT ![m] = "record"]
  /\ \/ att' = att \ {m} /\ UNCHANGED <<mishaps, stray>>
     \/ Budget("unlink") /\ stray' = stray \cup {m} /\ UNCHANGED att
  /\ UNCHANGED <<slackSide, pc, fill, cursor, ref, log, dir, mirror, wipe, before, marred>>

DeleteRecords(m) ==
  /\ del[m] = "record"
  /\ dir' = dir \cup {"thread"} /\ del' = [del EXCEPT ![m] = "done"]
  /\ UNCHANGED <<slackSide, pc, fill, cursor, ref, log, att, mirror, wipe, before, stray, mishaps, marred>>

-----------------------------------------------------------------------------
(* syncAttachmentsToSandbox, /delete, and what befalls the process.        *)

\* Files are pushed one by one; kept: the set the name will be added to is still
\* the one in syncedAttachments.
PushStarts(f) ==
  /\ push = NoPush /\ f \in att \ done
  /\ push' = [f |-> f, kept |-> TRUE] /\ box' = box \cup {f}
  /\ Mar("overlapped", "box" \in wipe)
  /\ UNCHANGED <<slackSide, handlers, disk, done, wipe, before, stray, mishaps>>

PushEnds ==
  /\ push # NoPush
  /\ push' = NoPush /\ done' = IF push.kept THEN done \cup {push.f} ELSE done
  /\ UNCHANGED <<slackSide, handlers, disk, box, wipe, before, stray, mishaps, marred>>

\* Slip: the set of the old sandbox is kept.
WipeKeepsDone ==
  /\ "thread" \in dir /\ wipe = {} /\ Budget("wipe")
  /\ wipe' = {"data", "box"}
  /\ UNCHANGED <<slackSide, handlers, disk, mirror, before, stray, marred>>

\* /delete: the directory and the sandbox go side by side.
Wipe ==
  /\ "thread" \in dir /\ wipe = {} /\ Budget("wipe")
  /\ wipe' = {"data", "box"}
  /\ done' = {} /\ push' = [push EXCEPT !.kept = FALSE]
  /\ UNCHANGED <<slackSide, handlers, disk, box, before, stray, marred>>

WipeData ==
  /\ "data" \in wipe /\ wipe' = wipe \ {"data"}
  /\ log' = <<>> /\ dir' = {} /\ att' = {}
  /\ Mar("wiped", \E m \in Msg : Busy(m) /\ pc[m] # "heard")
  /\ UNCHANGED <<slackSide, handlers, mirror, before, stray, mishaps>>

WipeBox ==
  /\ "box" \in wipe /\ wipe' = wipe \ {"box"}
  /\ box' = {}
  /\ UNCHANGED <<slackSide, handlers, disk, done, push, before, stray, mishaps, marred>>

\* The sandbox is replaced by an empty one (see Sandbox), which nobody tells the
\* set of pushed files.
SandboxMoves ==
  /\ box # {} /\ Budget("move") /\ Mar("moved", TRUE) /\ box' = {}
  /\ UNCHANGED <<slackSide, handlers, disk, done, push, wipe, before, stray>>

\* The process dies with its handlers; the events are not handled again.
Crash ==
  /\ Budget("crash")
  /\ pc' = [m \in Msg |-> IF Busy(m) THEN "unheard" ELSE pc[m]]
  /\ del' = [m \in Msg |-> IF del[m] = "done" THEN "done" ELSE "none"]
  /\ fill' = [m \in Msg |-> <<>>] /\ cursor' = [m \in Msg |-> 0]
  /\ ref' = [m \in Msg |-> "none"]
  /\ done' = {} /\ push' = NoPush /\ wipe' = {}
  /\ stray' = stray \cup UNION {InHandOf(m) : m \in Msg}
  /\ UNCHANGED <<slackSide, disk, box, before, marred>>

Next ==
  \/ \E m \in Msg :
       \/ Posts(m) \/ Removes(m) \/ Handle(m) \/ Lists(m) \/ Fetch(m) \/ Save(m)
       \/ Records(m) \/ Filled(m) \/ Throws(m) \/ DeleteReads(m) \/ DeleteUnlinks(m) \/ DeleteRecords(m)
       \/ PushStarts(m)
  \/ EditArrives \/ PushEnds \/ Wipe \/ WipeData \/ WipeBox \/ SandboxMoves \/ Crash

Spec == Init /\ [][Next]_vars

-----------------------------------------------------------------------------
\* A backfill leaves out nothing that was in the thread when it began, over all
\* pages, with the mention that triggered it recorded after its history
\* (backfill.ts:16).  Excused: a /delete removed the directory under a handler.
BackfillWhole ==
  [][\A m \in Msg : pc[m] = "filling" /\ pc'[m] = "own" /\ "wiped" \notin marred =>
       before[m] \ (gone \cup {m}) \subseteq Logged]_vars

\* No message is recorded twice (backfill.ts:18).  Excused: an event was on its way
\* when a backfill listed the thread; it is recorded by its own handler as well.
RecordedOnce ==
  "raced" \notin marred => \A i, j \in DOMAIN log : i # j => log[i].m # log[j].m

\* A recorded file is there to be read into a prompt, or runSdkTurn throws before
\* it has recorded anything (attachments.ts:45, sdk-turn.ts:228).  Excused: its
\* message was deleted, a /delete removed the directory under a handler.
FilesReadable ==
  "wiped" \notin marred =>
    \A i \in DOMAIN log : log[i].file => log[i].m \in att \/ log[i].m \in gone

\* Once the deletion of a message is handled, its file is off the disk
\* (attachments.ts:60).  Excused, message by message: the file was written in part,
\* its handler threw or died between the file and the record, the deletion came
\* before the record or met one without the file, or unlink failed, which is
\* swallowed.
DeletedFilesGo == \A m \in Msg : del[m] = "done" /\ m \in att => m \in stray

\* The files on the disk are those of the records.
FilesFollowRecords == FilesReadable /\ DeletedFilesGo

\* What is remembered as pushed is in the sandbox, over a /delete and the next life
\* of the thread too, when backfill brings back files of the same names
\* (index.ts:315).  Excused: a push began while a /delete was removing the sandbox,
\* the sandbox was replaced.
MirrorTrue == marred \cap {"overlapped", "moved"} = {} /\ wipe = {} => done \subseteq box

\* A mention is recorded with the history of its thread (SPEC.md:49).
HistoryWhole ==
  \A m \in mention : pc[m] = "done" /\ Cardinality(mention \cap Logged) = 1 =>
    \A x \in Msg : (\E i, j \in DOMAIN posted : i < j /\ posted[i] = x /\ posted[j] = m)
      => x \in Logged \cup gone \/ Busy(x)
=============================================================================
