------------------------------- MODULE MCAsks -------------------------------
(* Asks on small instances.                                                *)
EXTENDS Asks

CONSTANTS c1, c2, c3

\* Two calls that overlap in one turn, one of them in the next.
Turns == [c \in Call |-> IF c = c3 THEN 2 ELSE 1]
Kinds == [c \in Call |-> IF c = c1 THEN "multi_select"
                         ELSE IF c = c2 THEN "buttons" ELSE "text"]
=============================================================================
