--------------------------------- MODULE ILMachine ---------------------------------
(***************************************************************************)
(* One call of a method body, as the CLR executes it: external to the      *)
(* repository, and as much of it as the rewriter's output depends on.  An  *)
(* exception goes to any clause that covers the instruction that threw it, *)
(* or leaves the method: types and filters decide which, and nesting which *)
(* comes first.  A filter is entered at its first instruction and, if it   *)
(* accepts, runs on into its handler; handlers are left by a leave.        *)
(***************************************************************************)
EXTENDS ILCode

CONSTANT HooksMayThrow

VARIABLES
    code, eh,  \* the body
    ip,        \* position of the next instruction
    state,     \* of the call: waiting, running, returned or thrown
    reports    \* the hooks that have run to their end, in order

callVars == <<ip, state, reports>>

InitCall ==
    /\ ip = 1
    /\ state = "waiting"
    /\ reports = <<>>

\* The positions control may go to from position k without an exception.
Successors(k) ==
    CASE code[k].op \in {"br.s", "br", "leave.s", "leave"} -> {TargetIn(code, k)}
      [] code[k].op \in {"brtrue.s", "brtrue"} -> {TargetIn(code, k), k + 1}
      [] code[k].op = "switch" ->
           {TargetIn(code, k + i) : i \in 1 .. code[k].arg} \cup {k + code[k].arg + 1}
      [] code[k].op \in {"ret", "throw"} -> {}
      [] OTHER -> {k + 1}

\* Where the clauses that cover position k catch.
Catchers(k) ==
    {PositionAt(OpsOf(code), Landing(eh[i])) :
       i \in {j \in DOMAIN eh : k \in Covered(code, eh[j].try, eh[j].tryLen)}}

\* What may throw: calls and the like, throw itself, and a hook that fails.
MayThrow(op) ==
    \/ op \in {"plain", "block", "throw"}
    \/ op \in Hooks /\ HooksMayThrow

Running == state = "running" /\ ip \in DOMAIN code

Call ==
    /\ state = "waiting"
    /\ state' = "running"
    /\ UNCHANGED <<ip, reports>>

Go ==
    /\ Running
    /\ ip' \in Successors(ip)
    /\ reports' = IF code[ip].op \in Hooks THEN Append(reports, code[ip].op) ELSE reports
    /\ UNCHANGED state

Catch ==
    /\ Running
    /\ MayThrow(code[ip].op)
    /\ ip' \in Catchers(ip)
    /\ UNCHANGED <<state, reports>>

Unwind ==
    /\ Running
    /\ MayThrow(code[ip].op)
    /\ state' = "thrown"
    /\ UNCHANGED <<ip, reports>>

Return ==
    /\ Running
    /\ code[ip].op = "ret"
    /\ state' = "returned"
    /\ UNCHANGED <<ip, reports>>

Step == Go \/ Catch \/ Unwind \/ Return

NextCall == (Call \/ Step) /\ UNCHANGED <<code, eh>>

Spec == InitCall /\ [][NextCall]_<<code, eh, callVars>>
=============================================================================
