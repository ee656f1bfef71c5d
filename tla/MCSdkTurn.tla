------------------------------ MODULE MCSdkTurn -----------------------------
(* SdkTurn on small instances.                                             *)
EXTENDS SdkTurn, TLC

CONSTANTS t1, t2
Commands == {"boot", "own"} \X {t1}
Output == [c \in Commands |-> IF c[1] = "own" THEN 1 ELSE 0]
AllFaults == {"slack", "disk", "prep", "break", "sdk", "quiet"}
=============================================================================
