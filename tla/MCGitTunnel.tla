---------------------------- MODULE MCGitTunnel ----------------------------
(* GitTunnel on small instances.                                           *)
EXTENDS GitTunnel, TLC

CONSTANTS c1, c2
AllMishaps == {"drop", "refuse", "fail", "move", "wipe", "crash", "delete"}
============================================================================
