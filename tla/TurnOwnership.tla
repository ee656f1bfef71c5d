--------------------------- MODULE TurnOwnership ---------------------------
(***************************************************************************)
(* What the session runtime promises about one Slack thread, without       *)
(* saying how: at most one mention owns the agent loop, a mention that     *)
(* arrives while the loop is owned is folded into it, and the owner does   *)
(* not let go while folded-in mentions are still waiting for their turn,   *)
(* unless its turn fails.  Session.tla is shown to implement this.         *)
(***************************************************************************)
CONSTANTS
  Mention,      \* the mention handlers of the thread
  NoOwner       \* the loop is free

VARIABLES
  owner,        \* the mention whose handler runs the loop
  queued,       \* mentions have arrived that no turn has started for
  failed        \* a turn has thrown, or the process has died under a handler

vars == <<owner, queued, failed>>

Init == owner = NoOwner /\ queued = FALSE /\ failed = FALSE

Claim(m) ==
  owner = NoOwner /\ owner' = m /\ queued' = FALSE /\ UNCHANGED failed

Fold == owner # NoOwner /\ queued' = TRUE /\ UNCHANGED <<owner, failed>>

\* The next turn takes everything queued, or /stop discards the queue.
Drain == owner # NoOwner /\ queued' = FALSE /\ UNCHANGED <<owner, failed>>

Release ==
  /\ owner # NoOwner /\ ~queued
  /\ owner' = NoOwner
  /\ UNCHANGED <<queued, failed>>

Fail == failed' = TRUE /\ owner' = NoOwner /\ queued' = FALSE

Next == (\E m \in Mention : Claim(m)) \/ Fold \/ Drain \/ Release \/ Fail

\* The loop ends, and does not keep its mentions waiting.
Fairness == WF_vars(Release) /\ WF_vars(queued /\ Drain)

SafeSpec == Init /\ [][Next]_vars
Spec == SafeSpec /\ Fairness
============================================================================
