---------------------------------- MODULE ILCode ----------------------------------
(***************************************************************************)
(* Method bodies in IL: opcodes with their sizes, byte offsets, branches   *)
(* and exception clauses, as the rewriter reads and writes them.           *)
(*                                                                         *)
(* A body is a record: code, a sequence of [op, arg, disp]; eh, a sequence *)
(* of clauses [try, tryLen, handler, handlerLen, filter] of byte offsets   *)
(* (filter = -1: not a filter clause); maxStack.  "plain" stands for any   *)
(* one-byte instruction and "block" for a run of straight-line ones.       *)
(***************************************************************************)
EXTENDS Integers, Sequences, FiniteSets

CONSTANTS
    BlockSize,   \* bytes in a block
    BlockPushes  \* values a block pushes

\* Operators named Wrong... are plausible mistakes in the code: each replaces
\* the definition it precedes to show that a property notices.

\* Opcodes.  A switch carries the number of its targets and is followed by
\* that many "arg" pseudo instructions (CEE_SWITCH_ARG); "ldc" loads the
\* token, "enter" and "exit" call the two hooks.
ShortBranch == {"br.s", "brtrue.s", "leave.s"}
LongBranch  == {"br", "brtrue", "leave"}
Opcodes     == ShortBranch \cup LongBranch \cup
               {"plain", "block", "nop", "ret", "throw", "switch", "arg", "ldc", "enter", "exit"}

HasTarget(op) == op \in ShortBranch \cup LongBranch \cup {"arg"}

WrongLengthen(op) == IF op = "brtrue.s" THEN "brtrue" ELSE "br"

Lengthen(op) == CASE op = "br.s" -> "br" [] op = "brtrue.s" -> "brtrue" [] op = "leave.s" -> "leave"

\* What the displacement of a short branch can be.
FitsInt8(n) == -128 <= n /\ n <= 127

\* s_OpCodeFlags, with the opcode's own byte.
SizeOf(op) ==
    CASE op = "block" -> BlockSize
      [] op \in {"plain", "nop", "ret", "throw"} -> 1
      [] op \in ShortBranch -> 2
      [] op \in LongBranch \cup {"ldc", "enter", "exit", "switch"} -> 5
      [] op = "arg" -> 4

\* k_rgnStackPushes ends with the last real opcode; "arg" is beyond it and
\* reads whatever is there.
PushesOf(op, tail) ==
    CASE op = "block" -> BlockPushes
      [] op \in {"plain", "ldc", "enter", "exit"} -> 1
      [] op = "arg" -> tail
      [] OTHER -> 0

\* Where the instructions of a sequence start, and the size of it all.
OffsetsOf(ops) ==
    LET f[k \in 1 .. Len(ops) + 1] == IF k = 1 THEN 0 ELSE f[k - 1] + SizeOf(ops[k - 1])
    IN  f

\* What a displacement at position k counts from: the next instruction, or
\* for a switch target the end of the switch.
BaseOf(ops, args, k) ==
    IF ops[k] = "arg"
    THEN LET s == CHOOSE s \in 1 .. k - 1 :
                    ops[s] = "switch" /\ \A j \in s + 1 .. k - 1 : ops[j] # "switch"
         IN  OffsetsOf(ops)[s] + 1 + 4 * (args[s] + 1)
    ELSE OffsetsOf(ops)[k + 1]

OpsOf(code)  == [k \in DOMAIN code |-> code[k].op]
ArgsOf(code) == [k \in DOMAIN code |-> code[k].arg]

\* GetInstrFromOffset: the position of the instruction at an offset; one past
\* the last stands for the list's sentinel, 0 for NULL.
PositionAt(ops, off) ==
    LET at == OffsetsOf(ops)
        ks == {k \in DOMAIN at : at[k] = off}
    IN  IF ks = {} THEN 0 ELSE CHOOSE k \in ks : TRUE

TargetIn(code, k) ==
    PositionAt(OpsOf(code), BaseOf(OpsOf(code), ArgsOf(code), k) + code[k].disp)

Hooks == {"enter", "exit"}

HookCalls(code) == {k \in DOMAIN code : code[k].op \in Hooks}

\* Where a clause catches: a filter clause at its filter.
Landing(c) == IF c.filter = -1 THEN c.handler ELSE c.filter

\* The instructions at the offsets of a clause's range.
Covered(code, from, len) ==
    {k \in DOMAIN code : from <= OffsetsOf(OpsOf(code))[k] /\ OffsetsOf(OpsOf(code))[k] < from + len}

=============================================================================
