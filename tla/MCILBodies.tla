------------------------------- MODULE MCILBodies -------------------------------
(* Method bodies for ILRewriter.  A shape is a sequence of <<op, n>>, n the *)
(* position a branch leads to; assembling it puts displacements in.        *)
EXTENDS ILCode

Assemble(shape) ==
    LET ops  == [k \in DOMAIN shape |-> shape[k][1]]
        args == [k \in DOMAIN shape |-> IF ops[k] = "switch" THEN shape[k][2] ELSE 0]
        at   == OffsetsOf(ops)
    IN  [k \in DOMAIN shape |->
          [op |-> ops[k], arg |-> args[k],
           disp |-> IF HasTarget(ops[k]) THEN at[shape[k][2]] - BaseOf(ops, args, k) ELSE 0]]

\* What a compiler emits: short branches reach, the end is not run over.
Legal(code) ==
    /\ \A k \in DOMAIN code : code[k].op \in ShortBranch => FitsInt8(code[k].disp)
    /\ code[Len(code)].op \in {"ret", "throw", "br", "br.s", "leave.s"}

Plain(ops) == {<<o, 0>> : o \in ops}
Branch(ops, ns) == {<<o, n>> : o \in ops, n \in ns}

NoClauses(shapes, stack) ==
    {[code |-> c, eh |-> <<>>, maxStack |-> stack] :
       c \in {d \in {Assemble(s) : s \in shapes} : Legal(d)}}

\* Everything of up to three instructions.
Short ==
    UNION {[1 .. n -> Plain({"plain", "block", "ret", "throw"})
                        \cup Branch({"br.s", "brtrue.s", "br"}, 1 .. n)] : n \in 1 .. 3}

\* Five instructions, enough for a branch that grows because another has.
Cascades ==
    {<<a, b, c, d, <<"ret", 0>>>> :
       a, b, c, d \in Branch({"brtrue.s"}, 1 .. 5) \cup Plain({"block", "ret"})}

\* A switch of two targets, each behind it or the switch itself.
Switches ==
    {<<<<"switch", 2>>, <<"arg", a>>, <<"arg", b>>, c, d, <<"ret", 0>>>> :
       a, b \in {1, 4, 5, 6},
       c, d \in Branch({"brtrue.s"}, {1, 6}) \cup Plain({"block", "ret"})}

\* The clause over positions [a, b) whose handler is [h, e).
Clause(code, a, b, h, e, f) ==
    LET at == OffsetsOf(OpsOf(code))
    IN  [try |-> at[a], tryLen |-> at[b] - at[a],
         handler |-> at[h], handlerLen |-> at[e] - at[h],
         filter |-> IF f = 0 THEN -1 ELSE at[f]]

\* 1 before, 2-3 the try block, 4 a filter, 5-6 its handler, 7-8 after; and a
\* second clause that takes all of this as its try block and 9 as its handler,
\* which ends where the method ends.
Protected ==
    LET shapes ==
          {<<p, t, <<l, x>>, <<"plain", 0>>, h, <<e, 7>>, y, <<"ret", 0>>, <<"throw", 0>>>> :
             p \in Plain({"plain", "block"}), t \in Plain({"plain", "block", "throw"}),
             l \in {"leave.s"}, x \in {7, 8}, h \in Plain({"plain", "block"}),
             e \in {"leave.s", "throw"},
             y \in Plain({"plain", "block", "ret"}) \cup Branch({"brtrue.s"}, {1, 8})}
        codes == {c \in {Assemble(s) : s \in shapes} : Legal(c)}
    IN  {[code |-> c, maxStack |-> 8,
          eh |-> <<Clause(c, 2, 4, 5, 7, 4), Clause(c, 1, 7, 9, 10, 0)>>] : c \in codes}

MCInputs ==
    NoClauses(Short, 8) \cup NoClauses(Cascades, 65529) \cup NoClauses(Switches, 8) \cup Protected
SmallInputs == NoClauses(Cascades, 8)

MCPushTails == {0, -60}
=============================================================================
