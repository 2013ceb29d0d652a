------------------------------ MODULE MCILExecution ------------------------------
(* Instances of ILExecution for TLC: the bodies of MCILBodies, rewritten and *)
(* called.                                                                   *)
EXTENDS ILExecution, MCILBodies
=============================================================================
