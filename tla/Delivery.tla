------------------------------ MODULE Delivery ------------------------------
(***************************************************************************)
(* How one Slack message becomes at most one history record: the bot's     *)
(* Socket Mode handler and forwarder (src/bot/socket.ts, forward.ts), the  *)
(* tenant's /events endpoint (tenant/http.ts) and the persisted dedupe     *)
(* store in front of handleMessage (runtime/dedupe-store.ts).              *)
(*                                                                         *)
(* Slack sends an event again until it sees an ack; every sending is a     *)
(* copy <<e, i>> with handlers of its own, and the handlers of all copies  *)
(* interleave at each await, in the bot and in the tenant.                 *)
(***************************************************************************)
EXTENDS Naturals

CONSTANTS
  Event,       \* messages that Slack delivers, all for one tenant
  MaxSends,    \* bound: sendings of one event
  MaxCrashes,  \* bound: restarts of the tenant
  Faults       \* what may go wrong, a subset of FaultKinds

\* "ackLost":  ack() returns, and Slack never sees it.
\* "ackFails": ack() throws.
\* "refuse":   the POST fails or is answered with an error (no route, no secret,
\*             wrong secret, no network), or auth.test fails in the tenant.
\* "disk":     dedupe.json cannot be written, which save() swallows; the append
\*             to messages.jsonl fails, which it does not.
FaultKinds == {"ackLost", "ackFails", "refuse", "disk"}

ASSUME DeliveryAssumption ==
  /\ MaxSends \in Nat /\ MaxCrashes \in Nat
  /\ Faults \subseteq FaultKinds

Copy == Event \X (1 .. MaxSends)

VARIABLES
  acked,     \* events Slack will not send again
  pc,        \* what is happening to each copy
  loaded,    \* cache.loaded of the dedupe store
  seen,      \* cache.entries
  snap,      \* snap[c]: the entries that the save of copy c writes
  file,      \* the entries in dedupe.json (none if it is absent)
  log,       \* log[e]: records of e in messages.jsonl
  lives,     \* tenant processes so far
  up         \* the tenant listens

vars == <<acked, pc, loaded, seen, snap, file, log, lives, up>>

InBot == {"acking", "forwarding"}
InTenant == {"arrived", "loading", "checking", "saving", "recording"}
Over == {"recorded", "duplicate", "refused", "lost"}

TypeOK ==
  /\ acked \subseteq Event /\ seen \subseteq Event /\ file \subseteq Event
  /\ pc \in [Copy -> {"unsent"} \cup InBot \cup InTenant \cup Over]
  /\ snap \in [Copy -> SUBSET Event]
  /\ loaded \in BOOLEAN /\ up \in BOOLEAN
  /\ log \in [Event -> Nat]
  /\ lives \in Nat

Init ==
  /\ acked = {} /\ seen = {} /\ file = {}
  /\ pc = [c \in Copy |-> "unsent"]
  /\ snap = [c \in Copy |-> {}]
  /\ loaded = FALSE /\ up = TRUE
  /\ log = [e \in Event |-> 0]
  /\ lives = 1

Goto(c, l) == pc' = [pc EXCEPT ![c] = l]

-----------------------------------------------------------------------------
(* Slack and the bot.                                                      *)

\* Slack sends e for the i-th time: it has seen no ack of the earlier ones.
SlackSends(e, i) ==
  /\ pc[<<e, i>>] = "unsent" /\ e \notin acked
  /\ \A j \in 1 .. i - 1 : pc[<<e, j>>] # "unsent"
  /\ Goto(<<e, i>>, "acking")
  /\ UNCHANGED <<acked, loaded, seen, snap, file, log, lives, up>>

\* The bot acks before it forwards, and gives up on the copy if ack() throws.
BotAcks(c) ==
  /\ pc[c] = "acking"
  /\ \/ acked' = acked \cup {c[1]} /\ Goto(c, "forwarding")
     \/ "ackLost" \in Faults /\ UNCHANGED acked /\ Goto(c, "forwarding")
     \/ "ackFails" \in Faults /\ UNCHANGED acked /\ Goto(c, "refused")
  /\ UNCHANGED <<loaded, seen, snap, file, log, lives, up>>

\* forwardToTenant: one POST, no retry.
Forward(c) ==
  /\ pc[c] = "forwarding"
  /\ \/ up /\ Goto(c, "arrived")
     \/ (~up \/ "refuse" \in Faults) /\ Goto(c, "refused")
  /\ UNCHANGED <<acked, loaded, seen, snap, file, log, lives, up>>

-----------------------------------------------------------------------------
(* The tenant: isDuplicate, then record.                                   *)

\* loadIfNeeded sets cache.loaded before it reads the file.
LoadStarts(c) ==
  /\ pc[c] = "arrived" /\ ~loaded
  /\ loaded' = TRUE
  /\ Goto(c, "loading")
  /\ UNCHANGED <<acked, seen, snap, file, log, lives, up>>

LoadEnds(c) ==
  /\ pc[c] = "loading"
  /\ seen' = seen \cup file
  /\ Goto(c, "checking")
  /\ UNCHANGED <<acked, loaded, snap, file, log, lives, up>>

\* Slack has stopped sending e and no copy of it is under way.  Entries are
\* pruned after TTL_MS, three times what Slack takes to give up on an event.
Stale(e) ==
  /\ \A i \in 1 .. MaxSends : pc[<<e, i>>] \in Over \cup {"unsent"}
  /\ e \in acked \/ \A i \in 1 .. MaxSends : pc[<<e, i>>] # "unsent"

Checks(c) == pc[c] = "checking" \/ (pc[c] = "arrived" /\ loaded)

\* Slip: the key is added only once it has been saved.
CheckUnclaimed(c) ==
  /\ Checks(c)
  /\ \E old \in SUBSET {e \in seen : Stale(e)} :
       \/ /\ c[1] \in seen
          /\ seen' = seen \ old
          /\ Goto(c, "duplicate")
          /\ UNCHANGED snap
       \/ /\ c[1] \notin seen
          /\ seen' = seen \ old
          /\ snap' = [snap EXCEPT ![c] = seen' \cup {c[1]}]
          /\ Goto(c, "saving")
  /\ UNCHANGED <<acked, loaded, file, log, lives, up>>

\* Slip: the key is added before it is looked up.
CheckOwnKey(c) ==
  /\ Checks(c)
  /\ seen' = seen \cup {c[1]}
  /\ Goto(c, "duplicate")
  /\ UNCHANGED <<acked, loaded, snap, file, log, lives, up>>

\* Prune, look the key up, add it and take the snapshot to save: no await.
Check(c) ==
  /\ Checks(c)
  /\ \E old \in SUBSET {e \in seen : Stale(e)} :
       \/ /\ c[1] \in seen
          /\ seen' = seen \ old
          /\ Goto(c, "duplicate")
          /\ UNCHANGED snap
       \/ /\ c[1] \notin seen
          /\ seen' = (seen \ old) \cup {c[1]}
          /\ snap' = [snap EXCEPT ![c] = seen']
          /\ Goto(c, "saving")
  /\ UNCHANGED <<acked, loaded, file, log, lives, up>>

\* temp + rename.  Saves are not ordered, and two saves within a millisecond
\* share their temp file.
Saved(c) ==
  /\ pc[c] = "saving"
  /\ \/ \E d \in Copy : pc[d] = "saving" /\ file' = snap[d]
     \/ "disk" \in Faults /\ UNCHANGED file
  /\ Goto(c, "recording")
  /\ UNCHANGED <<acked, loaded, seen, snap, log, lives, up>>

\* The line is in messages.jsonl; a mention goes on to its turn.
Record(c) ==
  /\ pc[c] = "recording"
  /\ log' = [log EXCEPT ![c[1]] = @ + 1]
  /\ Goto(c, "recorded")
  /\ UNCHANGED <<acked, loaded, seen, snap, file, lives, up>>

\* The append fails: the key stays in the store, so no later copy makes up for it.
RecordThrows(c) ==
  /\ "disk" \in Faults
  /\ pc[c] = "recording"
  /\ Goto(c, "refused")
  /\ UNCHANGED <<acked, loaded, seen, snap, file, log, lives, up>>

\* dispatch throws before the handler runs: an error frame, nothing else.
DispatchThrows(c) ==
  /\ "refuse" \in Faults
  /\ pc[c] = "arrived"
  /\ Goto(c, "refused")
  /\ UNCHANGED <<acked, loaded, seen, snap, file, log, lives, up>>

-----------------------------------------------------------------------------
Crash ==
  /\ up /\ lives <= MaxCrashes
  /\ up' = FALSE
  /\ seen' = {} /\ loaded' = FALSE
  /\ pc' = [c \in Copy |-> IF pc[c] \in InTenant THEN "lost" ELSE pc[c]]
  /\ UNCHANGED <<acked, snap, file, log, lives>>

Restart ==
  /\ ~up
  /\ up' = TRUE
  /\ lives' = lives + 1
  /\ UNCHANGED <<acked, pc, loaded, seen, snap, file, log>>

-----------------------------------------------------------------------------
CopyStep(c) ==
  \/ BotAcks(c) \/ Forward(c) \/ LoadStarts(c) \/ LoadEnds(c) \/ Check(c)
  \/ Saved(c) \/ Record(c)

Next ==
  \/ \E e \in Event, i \in 1 .. MaxSends : SlackSends(e, i)
  \/ \E c \in Copy : CopyStep(c) \/ RecordThrows(c) \/ DispatchThrows(c)
  \/ Crash \/ Restart

SafeSpec == Init /\ [][Next]_vars

\* Every await of the two programs returns; Slack need not send anything.
Spec ==
  /\ SafeSpec
  /\ \A c \in Copy : WF_vars(CopyStep(c))
  /\ WF_vars(Restart)

-----------------------------------------------------------------------------
\* One tenant process records an event at most once, however often Slack sends
\* it, in whatever order the copies are handled and whatever fails.
OncePerLife == \A e \in Event : log[e] <= lives

\* An event that was acked is in the history in the end, unless an error, or the
\* death of the tenant that was handling it, took a copy of it: no copy is
\* dropped for a duplicate of something that was not going to be recorded.
AckedIsRecorded ==
  \A e \in Event : e \in acked ~>
    log[e] > 0 \/ \E i \in 1 .. MaxSends : pc[<<e, i>>] \in {"refused", "lost"}

\* SPEC.md, section 7: at-least-once delivery does not create duplicate history
\* records (dedupe.json is there so that this holds across restarts).
NoDuplicateRecords == \A e \in Event : log[e] <= 1
=============================================================================
