--------------------------- MODULE MCTunnelStream ---------------------------
(* TunnelStream on small instances.                                        *)
EXTENDS TunnelStream, TLC
=============================================================================
