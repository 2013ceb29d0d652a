------------------------------ MODULE MCProfilerHost ------------------------------
(* Instances of ProfilerHost for TLC: an application of three modules.  The *)
(* first has two methods to profile and one outside the namespace, the      *)
(* second one to profile, the third none; the first two have a bridge type  *)
(* with a method of its own, which an empty filter would select.            *)
EXTENDS ProfilerHost, TLC

CONSTANTS mA, mB, mC, a1, a2, aOther, b1, aBridge, bBridge

MCModules == {mA, mB, mC}
MCMethods == {a1, a2, aOther, b1, aBridge, bBridge}
MCModuleOf == [x \in MCMethods |-> IF x \in {b1, bBridge} THEN mB ELSE mA]
MCInNamespace == {a1, a2, b1}
MCBridge == {aBridge, bBridge}

\* Every method has IL with a RET.
PlainBodies == [x \in MCMethods |-> "plain"]

\* One method only throws, another has no IL.
MixedBodies == [x \in MCMethods |-> CASE x = a2 -> "noret" [] x = aOther -> "none"
                                      [] OTHER -> "plain"]
=============================================================================
