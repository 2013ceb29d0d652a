------------------------------ MODULE MCServerRestart ------------------------------
(* Instances of ProfilingServerRestart for TLC. *)
EXTENDS ProfilingServerRestart
=============================================================================
