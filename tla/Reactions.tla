----------------------------- MODULE Reactions -----------------------------
(***************************************************************************)
(* The "thinking" reaction: Session composed with the Slack messages that  *)
(* carry it.  markThinking fires reactions.add without awaiting it;        *)
(* clearThinking detaches the list and awaits one reactions.remove per     *)
(* entry.  The calls are separate HTTP requests: Slack may apply a remove  *)
(* before the add it is meant for, and may refuse a call (a rate limit, an *)
(* outage), which addReaction and removeReaction swallow.  Either way the  *)
(* reaction stays, for nobody asks again.                                  *)
(* The process lives here: after a crash the reactions simply stay.        *)
(***************************************************************************)
EXTENDS Session

VARIABLES
  adding,     \* mentions whose reactions.add is in flight
  removing,   \* removing[m]: the reactions.remove calls handler m awaits
  shown,      \* mentions that carry the reaction in Slack
  overtaken,  \* history: mentions whose remove was applied before their add
  refused     \* history: mentions whose remove Slack has refused, with the
              \* reaction there or on its way

slack == <<adding, removing, shown, overtaken, refused>>
allVars == <<vars, slack>>

ReactionsInit ==
  /\ Init
  /\ adding = {} /\ shown = {} /\ overtaken = {} /\ refused = {}
  /\ removing = [m \in Mention |-> {}]

-----------------------------------------------------------------------------
\* addReaction, not awaited.
MarkThinking(m) ==
  /\ Mentioned(m)
  /\ adding' = adding \cup {m}
  /\ UNCHANGED <<removing, shown, overtaken, refused>>

\* Slip: the list is cleared without removing the reactions of others.
DetachOwn(m) ==
  removing' = [removing EXCEPT ![m] = @ \cup ((thinking \ thinking') \cap {m})]

\* clearThinking: whatever leaves the list is on its way out of Slack, and m
\* waits for it.
Detach(m) ==
  removing' = [removing EXCEPT ![m] = @ \cup (thinking \ thinking')]

\* The awaits behind clearThinking end once all the removals are answered.
ClearThinkingDone(m) == removing[m] = {} /\ (ClearRecord(m) \/ Unwind(m))

MentionReacts(m) ==
  \/ MarkThinking(m)
  \/ /\ \/ KickoffThrows(m) \/ FinishLoop(m) \/ TurnThrows(m) \/ LeaveLoop(m)
        \/ StatusWriteRejected(m)
     /\ Detach(m)
     /\ UNCHANGED <<adding, shown, overtaken, refused>>
  \/ ClearThinkingDone(m) /\ UNCHANGED slack
  \/ (QueueMention(m) \/ StartLoop(m) \/ BeginTurn(m) \/ NextTurn(m))
     /\ UNCHANGED slack

\* addReaction: Slack applies the call, or refuses it and the error is swallowed.
\* An add after the removal is not undone by anyone.
SlackAdds(m) ==
  /\ m \in adding
  /\ adding' = adding \ {m}
  /\ shown' \in {shown, shown \cup {m}}
  /\ UNCHANGED <<vars, removing, overtaken, refused>>

\* removeReaction: Slack applies the call; one that finds no reaction is answered
\* as well.
SlackRemoves(m, r) ==
  /\ r \in removing[m]
  /\ removing' = [removing EXCEPT ![m] = @ \ {r}]
  /\ shown' = shown \ {r}
  /\ overtaken' = overtaken \cup (adding \cap {r})
  /\ UNCHANGED <<vars, adding, refused>>

\* removeReaction: Slack refuses the call.  The error is swallowed, clearThinking
\* goes on, and the entry has left the session's list before.
SlackRefuses(m, r) ==
  /\ r \in removing[m]
  /\ removing' = [removing EXCEPT ![m] = @ \ {r}]
  /\ refused' = refused \cup ((shown \cup adding) \cap {r})
  /\ UNCHANGED <<vars, adding, shown, overtaken>>

ReactionsNext ==
  \/ \E m \in Mention : MentionReacts(m) \/ SlackAdds(m)
  \/ \E m, r \in Mention : SlackRemoves(m, r) \/ SlackRefuses(m, r)
  \/ /\ \E s \in Stop : StopAccepted(s) \/ StopIdle(s) \/ StopStep(s) \/ StopWriteRejected(s)
     /\ UNCHANGED slack

ReactionsSafeSpec == ReactionsInit /\ [][ReactionsNext]_allVars

\* The handlers are as fair as in Session, and Slack answers every call, one way
\* or the other.
ReactionsSpec ==
  /\ ReactionsSafeSpec
  /\ \A m \in Mention : WF_allVars(MentionReacts(m) /\ ~Mentioned(m))
  /\ \A s \in Stop : WF_allVars(StopStep(s) /\ UNCHANGED slack)
  /\ \A m \in Mention : WF_allVars(SlackAdds(m))
  /\ \A m, r \in Mention : WF_allVars(SlackRemoves(m, r) \/ SlackRefuses(m, r))

-----------------------------------------------------------------------------
\* A status write that rejects before the loop leaves status non-idle with no loop
\* to reset it: later mentions queue behind it, and keep their reactions.
PhantomTurn == status # "idle" /\ Owners = {}

\* SPEC.md, section 9, wants every reaction of a turn removed.  The code asks once,
\* and this is what keeps one in Slack all the same: the removal was applied before
\* the add, or refused.
Beyond == overtaken \cup refused

\* No reaction is left behind for want of being asked for: once the handlers have
\* returned and Slack has answered, what is still shown is what Slack has
\* reordered or refused to remove.
NothingInFlight == adding = {} /\ \A m \in Mention : removing[m] = {}
NoOrphanReaction ==
  (\A m \in Mention : Settled(m)) /\ NothingInFlight /\ ~PhantomTurn =>
    shown \subseteq Beyond

\* Whoever is shown as being worked on is known to the session or has a removal
\* under way: the lists never lose a reaction, whatever step comes next.
ReactionTracked ==
  \A r \in shown \cup adding :
    r \in thinking \cup Beyond \/ \E m \in Mention : r \in removing[m]

\* No reaction is lost sight of, neither under way nor at the end (session.ts,
\* markThinking and clearThinking; post.ts).
ReactionsAccounted == ReactionTracked /\ NoOrphanReaction

\* Every reaction is removed in the end, unless Slack reordered its calls or refused
\* the removal: one refusal does not keep the reactions of other mentions.
ReactionsGo ==
  \A m \in Mention : m \in shown ~> m \notin shown \/ m \in Beyond \/ PhantomTurn

\* SPEC.md, section 9: every reaction added during a turn is removed.
ReactionsRemoved == \A m \in Mention : m \in shown ~> m \notin shown
============================================================================
