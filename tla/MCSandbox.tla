----------------------------- MODULE MCSandbox -----------------------------
(* Sandbox on small instances.                                             *)
EXTENDS Sandbox, TLC

AllProviders == {"docker", "fly", "ecs"}
CONSTANTS o1, o2
Ensures == Permutations({o1, o2})
AllMishaps == {"fail", "slow", "die", "lose", "crash", "delete"}
============================================================================
