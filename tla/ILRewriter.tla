-------------------------------- MODULE ILRewriter --------------------------------
(***************************************************************************)
(* The IL rewriter: a method body is imported into a list of instructions  *)
(* whose branches point at instructions instead of offsets, an enter probe *)
(* is put before the first instruction and an exit probe before each RET,  *)
(* and the list is exported: laid out, its branches resolved, laid out     *)
(* again for as long as some short branch does not reach, and installed.   *)
(*                                                                         *)
(* The input is one body as the compiler emits it, the output the body     *)
(* that SetILFunctionBody installs, both with displacements and offsets.   *)
(***************************************************************************)
EXTENDS ILCode, Functions

CONSTANTS
    Inputs,      \* method bodies
    PushTails,   \* what may lie behind the end of k_rgnStackPushes
    Faults       \* {"com"}: COM calls and allocations may fail

\* The two hooks are the rewriter's own: no compiler emits calls of them.
ASSUME InputAssumption == \A b \in Inputs : HookCalls(b.code) = {}

ASSUME SizeAssumption ==
    BlockSize \in Nat \ {0} /\ BlockPushes \in Nat /\ PushTails \subseteq Int

Bodies ==
    [code : Seq([op : Opcodes, arg : Nat, disp : Int]),
     eh : Seq([try : Nat, tryLen : Nat, handler : Nat, handlerLen : Nat, filter : Nat \cup {-1}]),
     maxStack : Nat]

\* A switch is followed by its targets, and targets belong to a switch.
SwitchesWhole(code) ==
    /\ \A k \in DOMAIN code : code[k].op = "switch" =>
         \A i \in 1 .. code[k].arg : k + i \in DOMAIN code /\ code[k + i].op = "arg"
    /\ \A k \in DOMAIN code : code[k].op = "arg" =>
         \E s \in 1 .. k - 1 : code[s].op = "switch" /\ k <= s + code[s].arg

\* A clause's ranges are made of whole instructions, and a method does not
\* return from inside them.
ClauseFits(code, c) ==
    LET at(off) == PositionAt(OpsOf(code), off)
        end     == Len(code) + 1
    IN  /\ at(c.try) \in DOMAIN code /\ at(c.try + c.tryLen) \in at(c.try) .. end
        /\ at(c.handler) \in DOMAIN code
        /\ at(c.handler + c.handlerLen) \in at(c.handler) + 1 .. end
        /\ c.filter # -1 => at(c.filter) \in DOMAIN code
        /\ \A k \in Covered(code, c.try, c.tryLen) \cup Covered(code, c.handler, c.handlerLen) :
             code[k].op # "ret"

\* Methods are well-formed, as a compiler emits them: branches lead to
\* instructions.
ASSUME BodyAssumption ==
    /\ Inputs \subseteq Bodies
    /\ \A b \in Inputs :
         /\ \A k \in DOMAIN b.code :
              HasTarget(b.code[k].op) => TargetIn(b.code, k) \in DOMAIN b.code
         /\ SwitchesWhole(b.code)
         /\ \A i \in DOMAIN b.eh : ClauseFits(b.code, b.eh[i])

\* Operators named Wrong... are plausible mistakes in the code: each replaces
\* the definition it precedes to show that a property notices.

\* An instruction of the list is named <<k, 0>> when it is the k-th of the
\* method, <<0, j>> in the enter probe and <<k, j>> in the probe of RET k.
Sentinel == <<0, 0>>

NameOf(code, k) == IF k > Len(code) THEN Sentinel ELSE <<k, 0>>

VARIABLES
    input,     \* the method, fixed
    stage,     \* how far InjectEnterExitHooks has got
    il,        \* the instruction list: names in order
    op, arg,   \* name -> opcode, argument
    target,    \* name -> name
    clauses,   \* m_pEH
    maxStack,  \* m_maxStack
    offset,    \* name -> m_offset
    disp,      \* name -> displacement in the output buffer
    body       \* what SetILFunctionBody has installed

listVars == <<il, arg, target, clauses>>
vars == <<input, stage, il, op, arg, target, clauses, maxStack, offset, disp, body>>

None == [code |-> <<>>, eh |-> <<>>, maxStack |-> 0]

Init ==
    /\ input \in Inputs
    /\ stage = "import"
    /\ il = <<>> /\ op = <<>> /\ arg = <<>> /\ target = <<>>
    /\ clauses = <<>>
    /\ maxStack = 0
    /\ offset = <<>> /\ disp = <<>>
    /\ body = None

\* A COM call or an allocation fails and the function returns its HRESULT.
Fails ==
    /\ "com" \in Faults
    /\ stage \in {"import", "install"}
    /\ stage' = "failed"
    /\ UNCHANGED <<input, listVars, op, maxStack, offset, disp, body>>

SumPushes(ops, tail) ==
    LET f[k \in 0 .. Len(ops)] == IF k = 0 THEN 0 ELSE f[k - 1] + PushesOf(ops[k], tail)
    IN  f[Len(ops)]

-----------------------------------------------------------------------------
(* Import.                                                                 *)

\* The handler's end is kept as the last instruction inside it.
ImportClause(code, c) ==
    LET at(off) == PositionAt(OpsOf(code), off)
    IN  [tryBegin     |-> NameOf(code, at(c.try)),
         tryEnd       |-> NameOf(code, at(c.try + c.tryLen)),
         handlerBegin |-> NameOf(code, at(c.handler)),
         handlerEnd   |-> NameOf(code, at(c.handler + c.handlerLen) - 1),
         filter       |-> IF c.filter = -1 THEN Sentinel ELSE NameOf(code, at(c.filter))]

\* Every instruction goes through InsertBefore, whose AdjustState counts it.
Import ==
    /\ stage = "import"
    /\ LET code  == input.code
           names == {<<k, 0>> : k \in DOMAIN code}
       IN  /\ il' = [k \in DOMAIN code |-> <<k, 0>>]
           /\ op' = [x \in names |-> code[x[1]].op]
           /\ arg' = [x \in names |-> code[x[1]].arg]
           /\ target' = [x \in names |->
                IF HasTarget(code[x[1]].op) THEN NameOf(code, TargetIn(code, x[1])) ELSE x]
           /\ clauses' = [i \in DOMAIN input.eh |-> ImportClause(code, input.eh[i])]
           /\ \E tail \in PushTails :
                maxStack' = input.maxStack + SumPushes(OpsOf(code), tail)
    /\ stage' = "enter"
    /\ UNCHANGED <<input, offset, disp, body>>

-----------------------------------------------------------------------------
(* AddEnterProbe and AddExitProbe.  A probe loads the token and calls the  *)
(* bridge type's hook.                                                     *)

Extend(f, g) == [x \in DOMAIN f \cup DOMAIN g |-> IF x \in DOMAIN g THEN g[x] ELSE f[x]]

ProbePushes == SumPushes(<<"ldc", "enter">>, 0)

AddEnterProbe ==
    /\ stage = "enter"
    /\ LET load == <<0, 1>>
           hook == <<0, 2>>
           new  == {load, hook}
       IN  /\ il' = <<load, hook>> \o il
           /\ op' = Extend(op, [x \in new |-> IF x = load THEN "ldc" ELSE "enter"])
           /\ arg' = Extend(arg, [x \in new |-> 0])
           /\ target' = Extend(target, [x \in new |-> x])
    /\ maxStack' = maxStack + ProbePushes
    /\ stage' = "exit"
    /\ UNCHANGED <<input, clauses, offset, disp, body>>

Rets == {x \in DOMAIN op : op[x] = "ret"}

WrongWithExits ==
    LET after(x) == IF x \in Rets THEN <<x, <<x[1], 1>>, <<x[1], 2>>>> ELSE <<x>>
        f[k \in 0 .. Len(il)] == IF k = 0 THEN <<>> ELSE f[k - 1] \o after(il[k])
    IN  f[Len(il)]

\* The list with every RET x followed by what is put behind it.
WithExits ==
    LET after(x) == IF x \in Rets
                    THEN <<x, <<x[1], 1>>, <<x[1], 2>>, <<x[1], 3>>>>
                    ELSE <<x>>
        f[k \in 0 .. Len(il)] == IF k = 0 THEN <<>> ELSE f[k - 1] \o after(il[k])
    IN  f[Len(il)]

WrongExitOps(x) == CASE x[2] = 1 -> "ldc" [] x[2] = 2 -> "exit" [] x[2] = 3 -> "nop" [] x[2] = 0 -> "ret"

\* What stands where RET x stood: the RET itself becomes a NOP, so that
\* branches to it run through the probe, and a new RET comes last.
ExitOps(x) == CASE x[2] = 0 -> "nop" [] x[2] = 1 -> "ldc" [] x[2] = 2 -> "exit" [] x[2] = 3 -> "ret"

ExitNames == {<<x[1], j>> : x \in Rets, j \in 0 .. 3}

\* Not one probe was added: E_FAIL, and no Export.
GivesUp == Rets = {}

AddExitProbe ==
    /\ stage = "exit"
    /\ IF GivesUp
       THEN stage' = "failed" /\ UNCHANGED <<il, op, arg, target, maxStack>>
       ELSE /\ stage' = "layout"
            /\ il' = WithExits
            /\ op' = Extend(op, [x \in ExitNames |-> ExitOps(x)])
            /\ arg' = Extend(arg, [x \in ExitNames |-> 0])
            /\ target' = Extend(target, [x \in ExitNames |-> x])
            /\ maxStack' = maxStack + Cardinality(Rets) * ProbePushes
    /\ UNCHANGED <<input, clauses, offset, disp, body>>

-----------------------------------------------------------------------------
(* Export.                                                                 *)

ListOps == [k \in DOMAIN il |-> op[il[k]]]
ListArgs == [k \in DOMAIN il |-> arg[il[k]]]

\* The first loop: every instruction, and the sentinel, gets its offset.
Layout ==
    /\ stage = "layout"
    /\ LET at == OffsetsOf(ListOps)
       IN  offset' = [x \in DOMAIN op \cup {Sentinel} |->
             IF x = Sentinel THEN at[Len(il) + 1]
             ELSE at[CHOOSE k \in DOMAIN il : il[k] = x]]
    /\ stage' = "resolve"
    /\ UNCHANGED <<input, listVars, op, maxStack, disp, body>>

\* (INT8) of an int.
Int8(n) == ((n + 128) % 256) - 128

Delta(k) == offset[target[il[k]]] - BaseOf(ListOps, ListArgs, k)

WrongTooFar == {}

\* The short branches whose target is out of reach.
TooFar == {il[k] : k \in {j \in DOMAIN il : op[il[j]] \in ShortBranch /\ ~FitsInt8(Delta(j))}}

WrongAgain(far) ==
    IF \A x \in DOMAIN op : x[2] = 0 => op[x] \in {input.code[x[1]].op, "nop"} /\ far = {}
    THEN "install"
    ELSE "layout"

\* fTryAgain: back to the layout when some branch has grown.
Again(far) == IF far = {} THEN "install" ELSE "layout"

\* The second loop: branches that reach are patched, the others made long.
Resolve ==
    /\ stage = "resolve"
    /\ disp' = [x \in DOMAIN op |->
         LET k == CHOOSE k \in DOMAIN il : il[k] = x
         IN  CASE op[x] \in ShortBranch -> Int8(Delta(k))
               [] op[x] \in LongBranch \cup {"arg"} -> Delta(k)
               [] OTHER -> 0]
    /\ op' = [x \in DOMAIN op |-> IF x \in TooFar THEN Lengthen(op[x]) ELSE op[x]]
    /\ stage' = Again(TooFar)
    /\ UNCHANGED <<input, listVars, maxStack, offset, body>>

NextOffset(x) ==
    LET k == CHOOSE k \in DOMAIN il : il[k] = x
    IN  IF k = Len(il) THEN offset[Sentinel] ELSE offset[il[k + 1]]

WrongExportClause(c) ==
    [try |-> offset[c.tryBegin], tryLen |-> offset[c.tryEnd] - offset[c.tryBegin],
     handler |-> offset[c.handlerBegin],
     handlerLen |-> offset[c.handlerEnd] - offset[c.handlerBegin],
     filter |-> IF c.filter = Sentinel THEN -1 ELSE offset[c.filter]]

ExportClause(c) ==
    [try |-> offset[c.tryBegin], tryLen |-> offset[c.tryEnd] - offset[c.tryBegin],
     handler |-> offset[c.handlerBegin],
     handlerLen |-> NextOffset(c.handlerEnd) - offset[c.handlerBegin],
     filter |-> IF c.filter = Sentinel THEN -1 ELSE offset[c.filter]]

WrongHeaderStack == input.maxStack

\* The header's field keeps the low 16 bits.
HeaderStack == maxStack % 65536

\* A fat header, the code and the clauses, handed to the CLR.
Install ==
    /\ stage = "install"
    /\ body' = [code |-> [k \in DOMAIN il |->
                            [op |-> op[il[k]], arg |-> arg[il[k]], disp |-> disp[il[k]]]],
                eh |-> [i \in DOMAIN clauses |-> ExportClause(clauses[i])],
                maxStack |-> HeaderStack]
    /\ stage' = "installed"
    /\ UNCHANGED <<input, listVars, op, maxStack, offset, disp>>

Step == Import \/ AddEnterProbe \/ AddExitProbe \/ Layout \/ Resolve \/ Install

Next == Step \/ Fails

Spec == Init /\ [][Next]_vars

-----------------------------------------------------------------------------
(* Properties.                                                             *)

Installed == stage = "installed"

\* The list has every instruction once, every branch and clause points at one
\* of them or at the end, and the stages follow each other.
TypeOK ==
    /\ stage \in {"import", "enter", "exit", "layout", "resolve", "install", "installed", "failed"}
    /\ Len(il) = Cardinality(DOMAIN op) /\ Range(il) = DOMAIN op
    /\ DOMAIN arg = DOMAIN op /\ DOMAIN target = DOMAIN op
    /\ \A x \in DOMAIN op : op[x] \in Opcodes /\ target[x] \in DOMAIN op \cup {Sentinel}
    /\ \A i \in DOMAIN clauses : \A f \in DOMAIN clauses[i] :
         clauses[i][f] \in DOMAIN op \cup {Sentinel}
    /\ maxStack \in Int

\* The position of instruction x in the list.
Place(x) == CHOOSE k \in DOMAIN il : il[k] = x

\* Wherever a branch or a switch target of the method led, the emitted one
\* leads to the emitted form of the same instruction, after however many
\* rounds of growing, and with the eight bits a short displacement has.
BranchesLand ==
    Installed => \A k \in DOMAIN input.code : HasTarget(input.code[k].op) =>
        TargetIn(body.code, Place(<<k, 0>>)) = Place(<<TargetIn(input.code, k), 0>>)

\* The instructions of the method an exception clause protects, and those of
\* its handler and filter, are the same before and after; no probe is inside.
SameCover(from, len, from2, len2) ==
    Covered(body.code, from2, len2) = {Place(<<k, 0>>) : k \in Covered(input.code, from, len)}

ClausesKept ==
    Installed => \A i \in DOMAIN input.eh :
        LET c == input.eh[i]
            d == body.eh[i]
        IN  /\ SameCover(c.try, c.tryLen, d.try, d.tryLen)
            /\ SameCover(c.handler, c.handlerLen, d.handler, d.handlerLen)
            /\ c.filter = -1 <=> d.filter = -1
            /\ c.filter # -1 => Place(<<PositionAt(OpsOf(input.code), c.filter), 0>>)
                                  = PositionAt(OpsOf(body.code), d.filter)

\* A probe pushes one value more than the method has there; the header allows
\* it, as long as the sum of all pushes fits the header's field and no switch
\* has added what lies behind the push table.
StackSuffices ==
    Installed /\ maxStack < 65536 /\ (\A k \in DOMAIN input.code : input.code[k].op # "arg")
        => body.maxStack > input.maxStack

\* There is one way in and, to every return, one way out: the body starts with
\* the enter probe and no branch, switch or handler leads into it, so that a
\* loop back to the method's first instruction enters once; every RET follows
\* its exit probe, and nothing leads between the two; and no clause covers a
\* probe, so that no handler of the method catches what a hook throws.
EntryPoints(code, eh) ==
    {TargetIn(code, k) : k \in {j \in DOMAIN code : HasTarget(code[j].op)}} \cup
    {PositionAt(OpsOf(code), Landing(eh[i])) : i \in DOMAIN eh}

WellProbed(code, eh) ==
    /\ Len(code) \in Nat /\ DOMAIN code = 1 .. Len(code)
    /\ 2 \in DOMAIN code /\ code[1].op = "ldc" /\ code[2].op = "enter"
    /\ \A k \in DOMAIN code :
         /\ code[k].op = "enter" => k = 2
         /\ code[k].op = "exit" => k + 1 \in DOMAIN code /\ code[k + 1].op = "ret"
         /\ code[k].op = "ret" => k - 1 \in DOMAIN code /\ code[k - 1].op = "exit"
         /\ code[k].op \in {"exit", "ret"} => k \notin EntryPoints(code, eh)
         /\ code[k].op = "switch" => code[k].arg \in Nat
         /\ code[k].op = "switch" =>
              \A i \in 1 .. code[k].arg : k + i \in DOMAIN code /\ code[k + i].op = "arg"
    /\ {1, 2} \cap EntryPoints(code, eh) = {}
    /\ \A i \in DOMAIN eh : Covered(code, eh[i].try, eh[i].tryLen) \cap HookCalls(code) = {}

ProbesOnEveryPath == Installed => WellProbed(body.code, body.eh)

Longer == {<<"br.s", "br">>, <<"brtrue.s", "brtrue">>, <<"leave.s", "leave">>}

\* While the list is exported only short branches change, each to the long
\* form of the same branch: the reason why the loop comes to an end, and why
\* a leave stays a leave.
OnlyGrows ==
    [][(stage \in {"layout", "resolve"}) =>
         /\ UNCHANGED <<il, target, clauses>>
         /\ \A x \in DOMAIN op : op'[x] # op[x] => <<op[x], op'[x]>> \in Longer]_vars

\* InjectEnterExitHooks comes to an end.
RewritingEnds == <>(stage \in {"installed", "failed"})

-----------------------------------------------------------------------------
(* What makes these inductive.                                             *)

\* The list is in the order of the names: the enter probe, and every
\* instruction of the method followed by the probe of its RET.
Key(x) == 4 * x[1] + x[2]

Ascending(names) == \A j, k \in DOMAIN names : j < k => Key(names[j]) < Key(names[k])

ListOK ==
    /\ il \in Seq(Nat \X (0 .. 3)) /\ Ascending(il)
    /\ Range(il) = DOMAIN op
    /\ DOMAIN arg = DOMAIN op /\ DOMAIN target = DOMAIN op
    /\ \A x \in DOMAIN op :
         /\ op[x] \in Opcodes /\ arg[x] \in Nat
         /\ target[x] \in DOMAIN op \cup {Sentinel}
    /\ \A i \in DOMAIN clauses : \A f \in DOMAIN clauses[i] :
         clauses[i][f] \in DOMAIN op \cup {Sentinel}
    /\ maxStack \in Int

Probing   == stage \in {"enter", "exit"}
Exporting == stage \in {"layout", "resolve", "install", "installed"}

Own        == {<<k, 0>> : k \in DOMAIN input.code}
EnterProbe == {<<0, 1>>, <<0, 2>>}
Returns    == {k \in DOMAIN input.code : input.code[k].op = "ret"}
ExitProbes == {<<k, j>> : k \in Returns, j \in 1 .. 3}

\* The names in the list.
NamesOK ==
    /\ stage = "enter" => DOMAIN op = Own
    /\ stage = "exit" => DOMAIN op = Own \cup EnterProbe
    /\ Exporting => DOMAIN op = Own \cup EnterProbe \cup ExitProbes

\* What has become of the method's instruction k: a RET is a NOP once its
\* probe is there, and a short branch may have grown.
OpOK(k) ==
    LET o == op[<<k, 0>>]
    IN  IF Probing \/ input.code[k].op # "ret"
        THEN o = input.code[k].op \/ (Exporting /\ <<input.code[k].op, o>> \in Longer)
        ELSE o = "nop"

OwnOK ==
    Probing \/ Exporting =>
        /\ \A k \in DOMAIN input.code :
             /\ OpOK(k)
             /\ input.code[k].op # "ret" => arg[<<k, 0>>] = input.code[k].arg
             /\ HasTarget(input.code[k].op) => target[<<k, 0>>] = <<TargetIn(input.code, k), 0>>
        /\ clauses = [i \in DOMAIN input.eh |-> ImportClause(input.code, input.eh[i])]

ProbesOK ==
    /\ stage = "exit" \/ Exporting => op[<<0, 1>>] = "ldc" /\ op[<<0, 2>>] = "enter"
    /\ Exporting => \A k \in Returns, j \in 1 .. 3 : op[<<k, j>>] = ExitOps(<<k, j>>)
    /\ Exporting => Returns # {}

\* The pushes counted so far.
StackOK ==
    (Probing \/ Exporting) /\ (\A k \in DOMAIN input.code : input.code[k].op # "arg") =>
        maxStack >= input.maxStack + (IF stage = "enter" THEN 0 ELSE 1)

\* The layout is that of the list as it is.
LaidOut ==
    stage \in {"resolve", "install", "installed"} =>
        LET at == OffsetsOf(ListOps)
        IN  offset = [x \in DOMAIN op \cup {Sentinel} |->
                        IF x = Sentinel THEN at[Len(il) + 1] ELSE at[Place(x)]]

Resolved ==
    stage \in {"install", "installed"} =>
        /\ DOMAIN disp = DOMAIN op
        /\ \A k \in DOMAIN il : HasTarget(op[il[k]]) => disp[il[k]] = Delta(k)

BodyOK ==
    Installed =>
        body = [code |-> [k \in DOMAIN il |->
                            [op |-> op[il[k]], arg |-> arg[il[k]], disp |-> disp[il[k]]]],
                eh |-> [i \in DOMAIN clauses |-> ExportClause(clauses[i])],
                maxStack |-> HeaderStack]

RewriteInductive ==
    /\ stage \in {"import", "enter", "exit", "layout", "resolve", "install", "installed", "failed"}
    /\ ListOK
    /\ NamesOK
    /\ OwnOK
    /\ ProbesOK
    /\ StackOK
    /\ LaidOut
    /\ Resolved
    /\ BodyOK

=============================================================================
