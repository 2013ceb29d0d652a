------------------------------- MODULE MCComLifetime -------------------------------
(* Instances of ComLifetime for TLC. *)
EXTENDS ComLifetime, TLC

CONSTANTS c1, c2, th1, th2

ClientsAndThreads == Permutations({c1, c2}) \cup Permutations({th1, th2})
=============================================================================
