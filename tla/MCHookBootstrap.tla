------------------------------ MODULE MCHookBootstrap ------------------------------
(* Instances of HookBootstrap for TLC: two modules in one AppDomain. *)
EXTENDS HookBootstrap

CONSTANTS m1, m2, d1

MCModules == {m1, m2}
OneDomain == [m \in MCModules |-> d1]
=============================================================================
