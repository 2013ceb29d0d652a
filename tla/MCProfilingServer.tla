---------------------------- MODULE MCProfilingServer ----------------------------
(* Instances of ProfilingServer for TLC. *)
EXTENDS ProfilingServer
=============================================================================
