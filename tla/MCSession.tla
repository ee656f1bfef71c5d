----------------------------- MODULE MCSession -----------------------------
(* Session on small instances: a thread with a few mentions and /stops.    *)
EXTENDS Session

MemoryFaults == {"kickoff", "turn", "crash"}
============================================================================
