------------------------------ MODULE MCIngest ------------------------------
(* Ingest on small instances: a root and two replies.                      *)
EXTENDS Ingest, TLC

CONSTANTS root, p1, m1
OneOrTwo == {{m1}, {root, m1}}
LastOnly == {{m1}}
AllMishaps == {"miss", "fetch", "write", "throw", "edit", "ask", "unlink", "wipe",
               "crash", "move"}
NoMishaps == {}
=============================================================================
