-------------------------- MODULE MCSessionRecord --------------------------
(* SessionRecord on small instances.                                       *)
EXTENDS SessionRecord

CONSTANTS m1, m2, homeA, homeB

TwoHomes == [m \in Mention |-> IF m = m1 THEN homeA ELSE homeB]
=============================================================================
