---------------------------- MODULE MCProfilingSystem ----------------------------
(* Instances of ProfilingSystem for TLC. *)
EXTENDS ProfilingSystem, TLC

CONSTANTS m1, m2, x1, x2, d1

\* Two modules with one method to profile each, which load at the same time.
TwoModules == {m1, m2}
TwoMethods == {x1, x2}
TwoModuleOf == [x \in TwoMethods |-> IF x = x1 THEN m1 ELSE m2]

\* One module with one method, for a process among others.
OneModule == {m1}
OneMethod == {x1}
OneModuleOf == [x \in OneMethod |-> m1]

AllPlain == [x \in Methods |-> "plain"]
OneDomain == {d1}
AllInOneDomain == [m \in Modules |-> d1]
=============================================================================
