---------------------------- MODULE MCReactions ----------------------------
(* Reactions on small instances.                                           *)
EXTENDS Reactions

DiskFaults == {"kickoff", "turn", "write", "mkdir"}
============================================================================
