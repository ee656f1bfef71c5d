---------------------------- MODULE FrozenRecord ----------------------------
(***************************************************************************)
(* What session.json promises until somebody deletes the thread: it is a   *)
(* record of routing fields, and a field changes only, atomically, to a    *)
(* value that somebody has asked for.  A field that nobody may ask to be   *)
(* taken back is never lost.  SessionRecord.tla is shown to implement this.*)
(***************************************************************************)
CONSTANTS
  Field, Value, Unset,
  Clearable  \* fields that may be taken back

VARIABLES
  rec,       \* the record
  asked,     \* the writes asked for and not yet done
  deleted    \* a /delete has begun, and all promises are void

vars == <<rec, asked, deleted>>

Write == [field : Field, value : Value] \cup [field : Clearable, value : {Unset}]

Init == rec = [f \in Field |-> Unset] /\ asked = {} /\ deleted = FALSE

Ask(w) == ~deleted /\ asked' = asked \cup {w} /\ UNCHANGED <<rec, deleted>>

\* The same may have been asked for more than once.
Do(w) ==
  /\ ~deleted /\ w \in asked
  /\ rec' = [rec EXCEPT ![w.field] = w.value]
  /\ asked' \in {asked, asked \ {w}}
  /\ UNCHANGED deleted

\* Whatever becomes of the record.
Forget == deleted' = TRUE

Next == (\E w \in Write : Ask(w) \/ Do(w)) \/ Forget

Spec == Init /\ [][Next]_vars
=============================================================================
