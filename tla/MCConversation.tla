--------------------------- MODULE MCConversation ---------------------------
(* Conversation on small instances.                                        *)
EXTENDS Conversation

CONSTANTS m1, m2, p1

TurnFaults == {"kickoff", "turn"}

\* All messages have text, or one is bare and another has files alone.
SomeContents ==
  {[x \in Message |-> "text"],
   m1 :> "files" @@ m2 :> "text" @@ p1 :> "bare",
   m1 :> "bare" @@ m2 :> "text" @@ p1 :> "files"}
=============================================================================
