----------------------------- MODULE ILExecution_proofs -----------------------------
(***************************************************************************)
(* Proofs about the rewriter, and about the execution of what it installs: *)
(* induction and what the recursive functions of ILCode and ILRewriter     *)
(* compute; the inductive invariant of the rewriter; the installed body;   *)
(* calls of it, what they report and what they do.                         *)
(***************************************************************************)
EXTENDS ILExecution, FiniteSetTheorems, SequenceTheorems, TLAPS

(* Induction.  The natural numbers are well-founded because their initial  *)
(* segments are, as finite sets.                                           *)

\* Every non-empty set of natural numbers has a least element.
LEMMA Least ==
    ASSUME NEW T \in SUBSET Nat, T # {}
    PROVE  \E n \in T : \A k \in T : n <= k
<1> DEFINE Below == {0 .. n - 1 : n \in T}
<1>1. Below \subseteq FiniteSubsetsOf(Nat) /\ Below # {}
  <2>1. ASSUME NEW n \in T PROVE IsFiniteSet(0 .. n - 1) /\ 0 .. n - 1 \subseteq Nat
    <3>1. n \in Nat /\ n - 1 \in Int
      OBVIOUS
    <3> QED BY <3>1, FS_Interval, SMT
  <2> QED BY <2>1 DEF FiniteSubsetsOf
<1>2. PICK b \in Below : \A c \in Below : <<c, b>> \notin StrictSubsetOrdering(Nat)
  <2> HIDE DEF Below
  <2> QED BY <1>1, WFMin, FS_StrictSubsetOrderingWellFounded
<1>3. PICK n \in T : b = 0 .. n - 1
  OBVIOUS
<1>4. ASSUME NEW k \in T, k < n PROVE FALSE
  <2>1. 0 .. k - 1 \in Below /\ 0 .. k - 1 \in SUBSET Nat /\ 0 .. n - 1 \in SUBSET Nat
    OBVIOUS
  <2>2. 0 .. k - 1 \subseteq 0 .. n - 1 /\ k \in 0 .. n - 1 /\ k \notin 0 .. k - 1
    BY <1>4
  <2>3. <<0 .. k - 1, 0 .. n - 1>> \in StrictSubsetOrdering(Nat)
    BY <2>1, <2>2 DEF StrictSubsetOrdering
  <2> QED BY <1>2, <1>3, <2>1, <2>3
<1> QED BY <1>4

\* A set that holds 0 and with each number below m the next holds all up to m.
LEMMA UpTo ==
    ASSUME NEW m \in Nat, NEW S,
           0 \in S,
           \A n \in 0 .. m - 1 : n \in S => n + 1 \in S
    PROVE  \A n \in 0 .. m : n \in S
<1> DEFINE T == {n \in 0 .. m : n \notin S}
<1> SUFFICES ASSUME T # {} PROVE FALSE
  OBVIOUS
<1>1. T \in SUBSET Nat
  OBVIOUS
<1>2. PICK n \in T : \A k \in T : n <= k
  <2> HIDE DEF T
  <2> QED BY <1>1, Least
<1>3. n - 1 \in 0 .. m - 1 /\ n - 1 \notin T
  BY <1>2
<1>4. n - 1 \in S
  BY <1>3
<1>5. (n - 1) + 1 \in S
  BY <1>3, <1>4
<1> QED BY <1>5

-----------------------------------------------------------------------------
(* Offsets.                                                                *)

\* Every instruction takes at least one byte.
LEMMA Sizes == \A o \in Opcodes : SizeOf(o) \in Nat \ {0}
BY SizeAssumption DEF SizeOf, Opcodes, ShortBranch, LongBranch

\* The recursion of OffsetsOf is well-founded.
LEMMA OffsetsDefined ==
    ASSUME NEW ops, Len(ops) \in Nat
    PROVE  OffsetsOf(ops) = [k \in 1 .. Len(ops) + 1 |->
             IF k = 1 THEN 0 ELSE OffsetsOf(ops)[k - 1] + SizeOf(ops[k - 1])]
<1> DEFINE F(n, f) == [k \in 1 .. n + 1 |-> IF k = 1 THEN 0 ELSE f[k - 1] + SizeOf(ops[k - 1])]
           S == {n \in Nat : \E f : f = F(n, f)}
           L == Len(ops)
<1>1. 0 \in S
  <2>1. F(0, <<>>) = F(0, F(0, <<>>))
    OBVIOUS
  <2> QED BY <2>1
<1>2. ASSUME NEW n \in 0 .. L - 1, n \in S PROVE n + 1 \in S
  <2>1. PICK f : f = F(n, f)
    BY <1>2
  <2>2. n \in Nat /\ n + 1 \in Nat
    OBVIOUS
  <2>3. \A k \in 1 .. n + 1 : f[k] = IF k = 1 THEN 0 ELSE f[k - 1] + SizeOf(ops[k - 1])
    BY <2>1
  <2> DEFINE g == F(n + 1, f)
  <2>4. /\ \A k \in 1 .. n + 1 : g[k] = f[k]
        /\ g = F(n + 1, f)
    BY <2>2, <2>3
  <2>5. F(n + 1, g) = F(n + 1, f)
    <3> HIDE DEF g
    <3>1. \A k \in 1 .. (n + 1) + 1 : k # 1 => g[k - 1] = f[k - 1]
      <4>1. \A k \in 1 .. (n + 1) + 1 : k # 1 => k - 1 \in 1 .. n + 1
        BY <2>2
      <4> HIDE DEF F
      <4> QED BY <2>4, <4>1
    <3> QED BY <2>2, <3>1
  <2>6. \E h : h = F(n + 1, h)
    <3> HIDE DEF F, g
    <3> QED BY <2>4, <2>5
  <2> QED BY <2>2, <2>6
<1>3. L \in S
  <2> HIDE DEF S, L
  <2>1. L \in Nat
    BY DEF L
  <2>2. \A n \in 0 .. L : n \in S
    BY <1>1, <1>2, <2>1, UpTo
  <2> QED BY <2>1, <2>2
<1>4. PICK f : f = F(L, f)
  BY <1>3
<1>5. OffsetsOf(ops) = CHOOSE h : h = F(L, h)
  BY DEF OffsetsOf
<1> HIDE DEF F
<1>6. OffsetsOf(ops) = F(L, OffsetsOf(ops))
  BY <1>4, <1>5
<1> QED BY <1>6 DEF F

\* Offsets start at 0 and grow by the size of each instruction.
LEMMA OffsetsType ==
    ASSUME NEW ops \in Seq(Opcodes)
    PROVE  /\ OffsetsOf(ops) \in [1 .. Len(ops) + 1 -> Nat]
           /\ OffsetsOf(ops)[1] = 0
           /\ \A k \in 1 .. Len(ops) :
                OffsetsOf(ops)[k + 1] = OffsetsOf(ops)[k] + SizeOf(ops[k])
<1> DEFINE at == OffsetsOf(ops)
           S == {n \in Nat : at[n + 1] \in Nat}
<1>1. Len(ops) \in Nat /\ \A k \in 1 .. Len(ops) : SizeOf(ops[k]) \in Nat
  BY Sizes, LenProperties, ElementOfSeq
<1>2. at = [k \in 1 .. Len(ops) + 1 |-> IF k = 1 THEN 0 ELSE at[k - 1] + SizeOf(ops[k - 1])]
  BY <1>1, OffsetsDefined
<1> HIDE DEF at
<1>3. at[1] = 0
  BY <1>1, <1>2
<1>4. ASSUME NEW k \in 1 .. Len(ops) PROVE at[k + 1] = at[k] + SizeOf(ops[k])
  <2>1. k + 1 \in 1 .. Len(ops) + 1 /\ k + 1 # 1 /\ (k + 1) - 1 = k
    BY <1>1
  <2> QED BY <1>2, <2>1
<1>5. \A n \in 0 .. Len(ops) : n \in S
  <2>1. 0 \in S
    BY <1>3
  <2>2. ASSUME NEW n \in 0 .. Len(ops) - 1, n \in S PROVE n + 1 \in S
    <3>1. n + 1 \in 1 .. Len(ops)
      BY <1>1
    <3> QED BY <1>1, <1>4, <2>2, <3>1
  <2> HIDE DEF S
  <2> QED BY <1>1, <2>1, <2>2, UpTo
<1>6. \A k \in 1 .. Len(ops) + 1 : at[k] \in Nat
  <2> TAKE k \in 1 .. Len(ops) + 1
  <2>1. k - 1 \in 0 .. Len(ops) /\ (k - 1) + 1 = k
    BY <1>1
  <2> QED BY <1>5, <2>1
<1>7. at \in [1 .. Len(ops) + 1 -> Nat]
  <2>1. \E g : at = [k \in 1 .. Len(ops) + 1 |-> g[k]]
    BY <1>2
  <2> QED BY <1>6, <2>1
<1> QED BY <1>3, <1>4, <1>7 DEF at

\* No instruction is empty: offsets tell positions apart.
LEMMA OffsetsGrow ==
    ASSUME NEW ops \in Seq(Opcodes),
           NEW j \in 1 .. Len(ops) + 1, NEW k \in 1 .. Len(ops) + 1, j < k
    PROVE  OffsetsOf(ops)[j] < OffsetsOf(ops)[k]
<1> DEFINE at == OffsetsOf(ops)
           L  == Len(ops)
           S  == {n \in Nat : j + n + 1 <= L + 1 => at[j] < at[j + n + 1]}
<1>1. L \in Nat /\ \A i \in 1 .. L : SizeOf(ops[i]) \in Nat \ {0}
  BY Sizes, LenProperties, ElementOfSeq
<1>2. at \in [1 .. L + 1 -> Nat] /\ \A i \in 1 .. L : at[i + 1] = at[i] + SizeOf(ops[i])
  BY OffsetsType
<1> HIDE DEF at, L
<1>3. 0 \in S
  BY <1>1, <1>2
<1>4. ASSUME NEW n \in 0 .. L - 1, n \in S PROVE n + 1 \in S
  <2> SUFFICES ASSUME j + (n + 1) + 1 <= L + 1 PROVE at[j] < at[j + (n + 1) + 1]
    BY <1>1
  <2>1. j + n + 1 \in 1 .. L /\ (j + n + 1) + 1 = j + (n + 1) + 1
    BY <1>1 DEF L
  <2> QED BY SMTT(20), <1>1, <1>2, <1>4, <2>1
<1>5. \A n \in 0 .. L : n \in S
  <2> HIDE DEF S
  <2> QED BY <1>1, <1>3, <1>4, UpTo
<1>6. PICK n \in 0 .. L : j + n + 1 = k /\ k <= L + 1
  <2>1. (k - j) - 1 \in 0 .. L /\ j + ((k - j) - 1) + 1 = k /\ k <= L + 1
    BY <1>1 DEF L
  <2> QED BY <2>1
<1>7. at[j] < at[k]
  BY <1>5, <1>6
<1> QED BY <1>7 DEF at

\* PositionAt is the inverse of OffsetsOf.
LEMMA PositionsFound ==
    ASSUME NEW ops \in Seq(Opcodes), NEW k \in 1 .. Len(ops) + 1
    PROVE  PositionAt(ops, OffsetsOf(ops)[k]) = k
<1> DEFINE at == OffsetsOf(ops)
<1>1. at \in [1 .. Len(ops) + 1 -> Nat] /\ Len(ops) \in Nat
  BY OffsetsType, LenProperties
<1>2. ASSUME NEW j \in 1 .. Len(ops) + 1, at[j] = at[k] PROVE j = k
  <2>1. ~(j < k)
    <3> SUFFICES ASSUME j < k PROVE FALSE
      OBVIOUS
    <3>1. at[j] < at[k]
      BY OffsetsGrow
    <3> QED BY <1>1, <1>2, <3>1
  <2>2. ~(k < j)
    <3> SUFFICES ASSUME k < j PROVE FALSE
      OBVIOUS
    <3>1. at[k] < at[j]
      BY OffsetsGrow
    <3> QED BY <1>1, <1>2, <3>1
  <2> QED BY <1>1, <2>1, <2>2
<1>3. {j \in DOMAIN at : at[j] = at[k]} = {k}
  <2> HIDE DEF at
  <2> QED BY <1>1, <1>2
<1>4. PositionAt(ops, at[k]) = CHOOSE j \in {k} : TRUE
  BY <1>3 DEF PositionAt
<1> QED BY <1>4

\* A position found is that of an instruction or the end, and has the offset.
LEMMA PositionsRight ==
    ASSUME NEW ops \in Seq(Opcodes), NEW off, PositionAt(ops, off) # 0
    PROVE  /\ PositionAt(ops, off) \in 1 .. Len(ops) + 1
           /\ OffsetsOf(ops)[PositionAt(ops, off)] = off
<1> DEFINE ks == {k \in DOMAIN OffsetsOf(ops) : OffsetsOf(ops)[k] = off}
<1>1. DOMAIN OffsetsOf(ops) = 1 .. Len(ops) + 1
  BY OffsetsType
<1>2. PositionAt(ops, off) = IF ks = {} THEN 0 ELSE CHOOSE k \in ks : TRUE
  BY DEF PositionAt
<1>3. PositionAt(ops, off) \in ks
  BY <1>2
<1> QED BY <1>1, <1>3

\* What the displacement of a target counts from is a number: a switch target
\* has its switch before it.
LEMMA BasesType ==
    ASSUME NEW ops \in Seq(Opcodes), NEW args, NEW k \in 1 .. Len(ops),
           \A s \in 1 .. Len(ops) : args[s] \in Int,
           ops[k] = "arg" => \E s \in 1 .. k - 1 : ops[s] = "switch"
    PROVE  BaseOf(ops, args, k) \in Int
<1>1. OffsetsOf(ops) \in [1 .. Len(ops) + 1 -> Nat] /\ Len(ops) \in Nat
  BY OffsetsType, LenProperties
<1>2. CASE ops[k] # "arg"
  <2>1. BaseOf(ops, args, k) = OffsetsOf(ops)[k + 1]
    BY <1>2 DEF BaseOf
  <2> QED BY <1>1, <2>1
<1>3. CASE ops[k] = "arg"
  <2> DEFINE Latest(s) == ops[s] = "switch" /\ \A j \in s + 1 .. k - 1 : ops[j] # "switch"
             T == {n \in Nat : \E s \in 1 .. k - 1 : ops[s] = "switch" /\ n = k - s}
  <2>1. T \in SUBSET Nat /\ T # {}
    <3>1. PICK s \in 1 .. k - 1 : ops[s] = "switch"
      BY <1>3
    <3>2. k - s \in Nat
      BY <1>1
    <3>3. k - s \in T
      BY <3>1, <3>2
    <3> QED BY <3>3
  <2>2. PICK n \in T : \A i \in T : n <= i
    <3> HIDE DEF T
    <3> QED BY <2>1, Least
  <2>3. PICK s \in 1 .. k - 1 : ops[s] = "switch" /\ n = k - s
    BY <2>2
  <2>4. Latest(s)
    <3> SUFFICES ASSUME NEW j \in s + 1 .. k - 1, ops[j] = "switch" PROVE FALSE
      BY <2>3
    <3>1. k - j \in T
      BY <1>1
    <3>2. n <= k - j
      BY <2>2, <3>1
    <3> QED BY <1>1, <2>3, <3>2
  <2> DEFINE c == CHOOSE i \in 1 .. k - 1 : Latest(i)
  <2>5. c \in 1 .. k - 1
    <3> HIDE DEF Latest
    <3> QED BY <2>4
  <2>6. BaseOf(ops, args, k) = OffsetsOf(ops)[c] + 1 + 4 * (args[c] + 1)
    BY <1>3 DEF BaseOf
  <2>7. c \in 1 .. Len(ops) + 1 /\ args[c] \in Int
    <3> HIDE DEF c
    <3> QED BY <1>1, <2>5
  <2> HIDE DEF c
  <2> QED BY SMTT(20), <1>1, <2>6, <2>7
<1> QED BY <1>2, <1>3

-----------------------------------------------------------------------------
(* Pushes.                                                                 *)

\* Only what lies behind the push table can be negative.
LEMMA Pushes ==
    ASSUME NEW o \in Opcodes, NEW tail \in Int
    PROVE  PushesOf(o, tail) \in Int /\ (o # "arg" => PushesOf(o, tail) \in Nat)
BY SizeAssumption DEF PushesOf

\* The recursion of SumPushes is well-founded.
LEMMA SumDefined ==
    ASSUME NEW ops, NEW tail, Len(ops) \in Nat
    PROVE  \E f : /\ f = [k \in 0 .. Len(ops) |->
                           IF k = 0 THEN 0 ELSE f[k - 1] + PushesOf(ops[k], tail)]
                  /\ SumPushes(ops, tail) = f[Len(ops)]
<1> DEFINE F(n, f) == [k \in 0 .. n |-> IF k = 0 THEN 0 ELSE f[k - 1] + PushesOf(ops[k], tail)]
           S == {n \in Nat : \E f : f = F(n, f)}
           L == Len(ops)
<1>1. 0 \in S
  <2>1. F(0, <<>>) = F(0, F(0, <<>>))
    OBVIOUS
  <2> QED BY <2>1
<1>2. ASSUME NEW n \in 0 .. L - 1, n \in S PROVE n + 1 \in S
  <2>1. PICK f : f = F(n, f)
    BY <1>2
  <2>2. n \in Nat /\ n + 1 \in Nat
    OBVIOUS
  <2>3. \A k \in 0 .. n : f[k] = IF k = 0 THEN 0 ELSE f[k - 1] + PushesOf(ops[k], tail)
    BY <2>1
  <2> DEFINE g == F(n + 1, f)
  <2>4. /\ \A k \in 0 .. n : g[k] = f[k]
        /\ g = F(n + 1, f)
    BY <2>2, <2>3
  <2>5. F(n + 1, g) = F(n + 1, f)
    <3> HIDE DEF g
    <3>1. \A k \in 0 .. n + 1 : k # 0 => g[k - 1] = f[k - 1]
      <4>1. \A k \in 0 .. n + 1 : k # 0 => k - 1 \in 0 .. n
        BY <2>2
      <4> HIDE DEF F
      <4> QED BY <2>4, <4>1
    <3> QED BY <2>2, <3>1
  <2>6. \E h : h = F(n + 1, h)
    <3> HIDE DEF F, g
    <3> QED BY <2>4, <2>5
  <2> QED BY <2>2, <2>6
<1>3. L \in S
  <2> HIDE DEF S, L
  <2>1. L \in Nat
    BY DEF L
  <2>2. \A n \in 0 .. L : n \in S
    BY <1>1, <1>2, <2>1, UpTo
  <2> QED BY <2>1, <2>2
<1>4. PICK f : f = F(L, f)
  BY <1>3
<1> DEFINE c == CHOOSE h : h = F(L, h)
<1>5. SumPushes(ops, tail) = c[L]
  BY DEF SumPushes
<1>6. c = F(L, c)
  <2> HIDE DEF F
  <2> QED BY <1>4
<1> HIDE DEF c
<1> QED BY <1>5, <1>6

\* So the sum of pushes is a number, and not negative without switches.
LEMMA SumType ==
    ASSUME NEW ops \in Seq(Opcodes), NEW tail \in Int
    PROVE  /\ SumPushes(ops, tail) \in Int
           /\ (\A k \in 1 .. Len(ops) : ops[k] # "arg") => SumPushes(ops, tail) \in Nat
<1> DEFINE L == Len(ops)
           NoArgs == \A k \in 1 .. L : ops[k] # "arg"
<1>1. L \in Nat
  BY LenProperties
<1>2. \A k \in 1 .. L : PushesOf(ops[k], tail) \in Int /\ (NoArgs => PushesOf(ops[k], tail) \in Nat)
  BY Pushes, ElementOfSeq
<1>3. PICK f : /\ f = [k \in 0 .. L |-> IF k = 0 THEN 0 ELSE f[k - 1] + PushesOf(ops[k], tail)]
               /\ SumPushes(ops, tail) = f[L]
  BY <1>1, SumDefined
<1> DEFINE S == {n \in Nat : f[n] \in Int /\ (NoArgs => f[n] \in Nat)}
<1> HIDE DEF NoArgs, L
<1>4. 0 \in S
  BY <1>1, <1>3
<1>5. ASSUME NEW n \in 0 .. L - 1, n \in S PROVE n + 1 \in S
  <2>1. n + 1 \in 1 .. L /\ n + 1 \in 0 .. L /\ n + 1 # 0 /\ (n + 1) - 1 = n
    BY <1>1
  <2>2. f[n + 1] = f[n] + PushesOf(ops[n + 1], tail)
    BY <1>3, <2>1
  <2> QED BY <1>2, <1>5, <2>1, <2>2
<1>6. L \in S
  <2>1. \A n \in 0 .. L : n \in S
    <3> HIDE DEF S
    <3> QED BY <1>1, <1>4, <1>5, UpTo
  <2> QED BY <1>1, <2>1
<1> QED BY <1>3, <1>6 DEF NoArgs, L

\* A probe pushes the token and what the push table says of a call.
LEMMA ProbePushesTwo == ProbePushes = 2
<1> DEFINE ops == <<"ldc", "enter">>
<1>1. Len(ops) = 2 /\ ops[1] = "ldc" /\ ops[2] = "enter"
  OBVIOUS
<1>2. PICK f : /\ f = [k \in 0 .. 2 |-> IF k = 0 THEN 0 ELSE f[k - 1] + PushesOf(ops[k], 0)]
               /\ SumPushes(ops, 0) = f[2]
  BY <1>1, SumDefined
<1>3. PushesOf("ldc", 0) = 1 /\ PushesOf("enter", 0) = 1
  BY DEF PushesOf
<1> HIDE DEF ops
<1>4. f[0] = 0 /\ f[1] = f[0] + PushesOf(ops[1], 0) /\ f[2] = f[1] + PushesOf(ops[2], 0)
  BY <1>2
<1>5. f[2] = 2
  BY <1>1, <1>3, <1>4
<1> QED BY <1>2, <1>5 DEF ProbePushes, ops

-----------------------------------------------------------------------------
(* The list of names.                                                      *)

Names == Nat \X (0 .. 3)

\* Keys tell names apart and order them by instruction, then by place in the
\* probe.
LEMMA Keys ==
    ASSUME NEW x \in Names, NEW y \in Names
    PROVE  /\ Key(x) \in Nat
           /\ Key(x) = Key(y) => x = y
           /\ x[1] < y[1] => Key(x) < Key(y)
           /\ x[1] = y[1] /\ x[2] < y[2] => Key(x) < Key(y)
<1>1. /\ x[1] \in Nat /\ x[2] \in 0 .. 3 /\ x = <<x[1], x[2]>>
      /\ y[1] \in Nat /\ y[2] \in 0 .. 3 /\ y = <<y[1], y[2]>>
  BY DEF Names
<1>2. 4 * x[1] + x[2] = 4 * y[1] + y[2] => x[1] = y[1] /\ x[2] = y[2]
  BY <1>1
<1> QED BY <1>1, <1>2 DEF Key

\* Two lists in order, the second behind the first, make one.
LEMMA ConcatAscending ==
    ASSUME NEW s \in Seq(Names), NEW t \in Seq(Names), Ascending(s), Ascending(t),
           \A x \in Range(s), y \in Range(t) : Key(x) < Key(y)
    PROVE  /\ s \o t \in Seq(Names) /\ Ascending(s \o t)
           /\ Range(s \o t) = Range(s) \cup Range(t)
<1>1. /\ s \o t \in Seq(Names) /\ Len(s \o t) = Len(s) + Len(t)
      /\ \A i \in 1 .. Len(s) + Len(t) :
           (s \o t)[i] = IF i <= Len(s) THEN s[i] ELSE t[i - Len(s)]
      /\ DOMAIN (s \o t) = 1 .. Len(s) + Len(t)
  BY ConcatProperties, LenProperties
<1>2. /\ Len(s) \in Nat /\ DOMAIN s = 1 .. Len(s)
      /\ Len(t) \in Nat /\ DOMAIN t = 1 .. Len(t)
  BY LenProperties
<1>3. ASSUME NEW j \in DOMAIN (s \o t), NEW k \in DOMAIN (s \o t), j < k
      PROVE  Key((s \o t)[j]) < Key((s \o t)[k])
  <2>1. CASE k <= Len(s)
    <3>1. j \in DOMAIN s /\ k \in DOMAIN s /\ (s \o t)[j] = s[j] /\ (s \o t)[k] = s[k]
      BY <1>1, <1>2, <1>3, <2>1
    <3> QED BY <1>3, <3>1 DEF Ascending
  <2>2. CASE j <= Len(s) /\ k > Len(s)
    <3>1. (s \o t)[j] = s[j] /\ (s \o t)[k] = t[k - Len(s)] /\ j \in DOMAIN s /\ k - Len(s) \in DOMAIN t
      BY <1>1, <1>2, <2>2
    <3> QED BY <3>1 DEF Range
  <2>3. CASE j > Len(s)
    <3>1. /\ (s \o t)[j] = t[j - Len(s)] /\ (s \o t)[k] = t[k - Len(s)]
          /\ j - Len(s) \in DOMAIN t /\ k - Len(s) \in DOMAIN t /\ j - Len(s) < k - Len(s)
      BY <1>1, <1>2, <1>3, <2>3
    <3> QED BY <3>1 DEF Ascending
  <2> QED BY <1>1, <1>2, <2>1, <2>2, <2>3
<1>4. Range(s \o t) = Range(s) \cup Range(t)
  BY RangeConcatenation
<1> QED BY <1>1, <1>3, <1>4 DEF Ascending

\* What AddExitProbe puts in the place of x.
After(x) ==
    IF x \in Rets THEN <<x, <<x[1], 1>>, <<x[1], 2>>, <<x[1], 3>>>> ELSE <<x>>

Probed(x) == {x} \cup IF x \in Rets THEN {<<x[1], j>> : j \in 1 .. 3} ELSE {}

\* What is put in the place of an instruction is in order.
LEMMA AfterAscending ==
    ASSUME NEW x \in Names, x \in Rets => x[2] = 0
    PROVE  After(x) \in Seq(Names) /\ Ascending(After(x)) /\ Range(After(x)) = Probed(x)
<1>1. CASE x \notin Rets
  <2>1. /\ After(x) = <<x>> /\ <<x>> \in Seq(Names) /\ Len(<<x>>) = 1 /\ <<x>>[1] = x
        /\ Probed(x) = {x}
    BY <1>1 DEF After, Probed
  <2>2. DOMAIN <<x>> = {1}
    BY <2>1, LenProperties
  <2> QED BY <2>1, <2>2 DEF Ascending, Range
<1>2. CASE x \in Rets
  <2> DEFINE s == <<x, <<x[1], 1>>, <<x[1], 2>>, <<x[1], 3>>>>
  <2>1. x[1] \in Nat /\ x = <<x[1], 0>>
    BY <1>2 DEF Names
  <2>2. /\ s \in Seq(Names) /\ Len(s) = 4
        /\ s[1] = <<x[1], 0>> /\ s[2] = <<x[1], 1>> /\ s[3] = <<x[1], 2>> /\ s[4] = <<x[1], 3>>
    BY <2>1 DEF Names
  <2>3. After(x) = s
    BY <1>2 DEF After
  <2> HIDE DEF s
  <2>4. DOMAIN s = {1, 2, 3, 4}
    BY <2>2, LenProperties
  <2>5. Key(s[1]) = 4 * x[1] /\ Key(s[2]) = 4 * x[1] + 1 /\ Key(s[3]) = 4 * x[1] + 2 /\ Key(s[4]) = 4 * x[1] + 3
    BY <2>1, <2>2 DEF Key
  <2>6. Ascending(s)
    BY <2>1, <2>4, <2>5 DEF Ascending
  <2>7. Range(s) = {s[1], s[2], s[3], s[4]}
    BY <2>4 DEF Range
  <2>8. {<<x[1], j>> : j \in 1 .. 3} = {<<x[1], 1>>, <<x[1], 2>>, <<x[1], 3>>}
    OBVIOUS
  <2>9. Range(s) = Probed(x)
    BY <1>2, <2>1, <2>2, <2>7, <2>8 DEF Probed
  <2> QED BY <2>2, <2>3, <2>6, <2>9
<1> QED BY <1>1, <1>2

\* The recursion of WithExits is well-founded.
LEMMA WithExitsDefined ==
    ASSUME Len(il) \in Nat
    PROVE  \E f : /\ f = [k \in 0 .. Len(il) |-> IF k = 0 THEN <<>> ELSE f[k - 1] \o After(il[k])]
                  /\ WithExits = f[Len(il)]
<1> DEFINE F(n, f) == [k \in 0 .. n |-> IF k = 0 THEN <<>> ELSE f[k - 1] \o After(il[k])]
           S == {n \in Nat : \E f : f = F(n, f)}
           L == Len(il)
<1>1. 0 \in S
  <2>1. F(0, <<>>) = F(0, F(0, <<>>))
    OBVIOUS
  <2> QED BY <2>1
<1>2. ASSUME NEW n \in 0 .. L - 1, n \in S PROVE n + 1 \in S
  <2>1. PICK f : f = F(n, f)
    BY <1>2
  <2>2. n \in Nat /\ n + 1 \in Nat
    OBVIOUS
  <2>3. \A k \in 0 .. n : f[k] = IF k = 0 THEN <<>> ELSE f[k - 1] \o After(il[k])
    BY <2>1
  <2> DEFINE g == F(n + 1, f)
  <2>4. /\ \A k \in 0 .. n : g[k] = f[k]
        /\ g = F(n + 1, f)
    <3>1. ASSUME NEW k \in 0 .. n PROVE g[k] = f[k]
      <4>1. k \in 0 .. n + 1
        BY <2>2
      <4>2. g[k] = IF k = 0 THEN <<>> ELSE f[k - 1] \o After(il[k])
        BY <4>1
      <4> HIDE DEF g
      <4> QED BY <2>3, <4>2
    <3> QED BY <3>1
  <2>5. F(n + 1, g) = F(n + 1, f)
    <3> HIDE DEF g
    <3>1. \A k \in 0 .. n + 1 : k # 0 => g[k - 1] = f[k - 1]
      <4>1. \A k \in 0 .. n + 1 : k # 0 => k - 1 \in 0 .. n
        BY <2>2
      <4> HIDE DEF F
      <4> QED BY <2>4, <4>1
    <3> QED BY <2>2, <3>1
  <2>6. \E h : h = F(n + 1, h)
    <3> HIDE DEF F, g
    <3> QED BY <2>4, <2>5
  <2> QED BY <2>2, <2>6
<1>3. L \in S
  <2> HIDE DEF S, L
  <2>1. L \in Nat
    BY DEF L
  <2>2. \A n \in 0 .. L : n \in S
    BY <1>1, <1>2, <2>1, UpTo
  <2> QED BY <2>1, <2>2
<1>4. PICK f : f = F(L, f)
  BY <1>3
<1> DEFINE c == CHOOSE h : h = F(L, h)
<1>5. WithExits = c[L]
  BY DEF WithExits, After
<1>6. c = F(L, c)
  <2> HIDE DEF F
  <2> QED BY <1>4
<1> HIDE DEF c
<1> QED BY <1>5, <1>6

\* The exit probes come in behind their RETs, and the list stays in order.
LEMMA WithExitsAscending ==
    ASSUME il \in Seq(Names), Ascending(il),
           \A x \in Rets : x[2] = 0,
           \A x \in Rets, y \in Range(il) : Key(x) < Key(y) => Key(x) + 3 < Key(y)
    PROVE  /\ WithExits \in Seq(Names) /\ Ascending(WithExits)
           /\ Range(WithExits) = UNION {Probed(x) : x \in Range(il)}
<1> DEFINE L == Len(il)
           Upto(n) == {il[i] : i \in 1 .. n}
<1>1. L \in Nat /\ DOMAIN il = 1 .. L
  BY LenProperties
<1>2. PICK f : /\ f = [k \in 0 .. L |-> IF k = 0 THEN <<>> ELSE f[k - 1] \o After(il[k])]
               /\ WithExits = f[L]
  BY <1>1, WithExitsDefined
<1> DEFINE S == {n \in Nat : /\ f[n] \in Seq(Names)
                             /\ Ascending(f[n])
                             /\ Range(f[n]) = UNION {Probed(x) : x \in Upto(n)}}
<1>3. 0 \in S
  <2>1. f[0] = <<>>
    BY <1>1, <1>2
  <2>2. <<>> \in Seq(Names) /\ DOMAIN <<>> = {}
    OBVIOUS
  <2>3. Range(<<>>) = {} /\ Ascending(<<>>)
    BY <2>2 DEF Range, Ascending
  <2>4. Upto(0) = {}
    OBVIOUS
  <2> HIDE DEF Upto
  <2> QED BY <2>1, <2>2, <2>3, <2>4
<1>4. ASSUME NEW n \in 0 .. L - 1, n \in S PROVE n + 1 \in S
  <2> DEFINE x == il[n + 1]
  <2>1. n + 1 \in 1 .. L /\ n + 1 \in 0 .. L /\ n + 1 # 0 /\ (n + 1) - 1 = n /\ n \in Nat
    BY <1>1
  <2>2. f[n + 1] = f[n] \o After(x)
    BY <1>2, <2>1
  <2>3. /\ f[n] \in Seq(Names) /\ Ascending(f[n])
        /\ Range(f[n]) = UNION {Probed(z) : z \in Upto(n)}
    BY <1>4
  <2>4. x \in Names /\ x \in Range(il)
    BY <1>1, <2>1, ElementOfSeq DEF Range
  <2>5. After(x) \in Seq(Names) /\ Ascending(After(x)) /\ Range(After(x)) = Probed(x)
    BY <2>4, AfterAscending
  <2>6. ASSUME NEW i \in 1 .. n PROVE Key(il[i]) < Key(x) /\ il[i] \in Range(il) /\ il[i] \in Names
    <3>1. i \in 1 .. L /\ i < n + 1
      BY <2>1
    <3> QED BY <1>1, <2>1, <3>1, ElementOfSeq DEF Ascending, Range
  <2>7. ASSUME NEW y \in Range(f[n]), NEW z \in Probed(x) PROVE Key(y) < Key(z)
    <3>1. PICK i \in 1 .. n : y \in Probed(il[i])
      BY <2>3
    <3> DEFINE w == il[i]
    <3>2. Key(w) < Key(x) /\ w \in Names /\ Key(w) \in Nat /\ Key(x) \in Nat
      BY <2>4, <2>6, Keys
    <3>3. Key(z) \in Nat /\ Key(x) <= Key(z)
      <4>1. CASE z = x
        BY <3>2, <4>1
      <4>2. CASE x \in Rets /\ \E j \in 1 .. 3 : z = <<x[1], j>>
        BY SMTT(20), <2>4, <4>2 DEF Key, Names
      <4> QED BY <4>1, <4>2 DEF Probed
    <3>4. Key(y) \in Nat /\ Key(y) < Key(x)
      <4>1. CASE y = w
        BY <3>2, <4>1
      <4>2. CASE w \in Rets /\ \E j \in 1 .. 3 : y = <<w[1], j>>
        <5>1. Key(w) + 3 < Key(x)
          BY <2>4, <3>2, <4>2
        <5>2. PICK j \in 1 .. 3 : y = <<w[1], j>>
          BY <4>2
        <5>3. w[1] \in Nat /\ w[2] \in 0 .. 3
          BY <3>2 DEF Names
        <5>4. Key(y) = 4 * w[1] + j /\ Key(w) = 4 * w[1] + w[2]
          BY <5>2 DEF Key
        <5> HIDE DEF w
        <5>5. Key(y) \in Nat /\ Key(y) <= Key(w) + 3
          BY SMTT(20), <5>3, <5>4
        <5> QED BY <3>2, <5>1, <5>5
      <4> QED BY <3>1, <4>1, <4>2 DEF Probed
    <3> QED BY <3>2, <3>3, <3>4
  <2>8. /\ f[n + 1] \in Seq(Names) /\ Ascending(f[n + 1])
        /\ Range(f[n + 1]) = Range(f[n]) \cup Probed(x)
    <3> HIDE DEF x
    <3>1. \A y \in Range(f[n]), z \in Range(After(x)) : Key(y) < Key(z)
      BY <2>5, <2>7
    <3> DEFINE s == f[n]
               t == After(x)
    <3>2. /\ s \in Seq(Names) /\ t \in Seq(Names) /\ Ascending(s) /\ Ascending(t)
          /\ \A y \in Range(s), z \in Range(t) : Key(y) < Key(z)
      BY <2>3, <2>5, <3>1
    <3>3. f[n + 1] = s \o t /\ Range(f[n]) = Range(s) /\ Probed(x) = Range(t)
      BY <2>2, <2>5
    <3> HIDE DEF s, t
    <3>4. /\ s \o t \in Seq(Names) /\ Ascending(s \o t)
          /\ Range(s \o t) = Range(s) \cup Range(t)
      BY <3>2, ConcatAscending
    <3> QED BY <3>3, <3>4
  <2>9. Upto(n + 1) = Upto(n) \cup {x}
    BY <2>1
  <2>10. Range(f[n + 1]) = UNION {Probed(z) : z \in Upto(n + 1)}
    <3> HIDE DEF Upto, x
    <3> QED BY <2>3, <2>8, <2>9
  <2> QED BY <2>1, <2>8, <2>10
<1>5. L \in S
  <2>1. \A n \in 0 .. L : n \in S
    <3> HIDE DEF S, L
    <3> QED BY <1>1, <1>3, <1>4, UpTo
  <2> HIDE DEF S, L
  <2> QED BY <1>1, <2>1
<1>6. Upto(L) = Range(il)
  BY <1>1 DEF Range
<1> QED BY <1>2, <1>5, <1>6

\* The list and Place are inverse to each other.
LEMMA ListFacts ==
    ASSUME ListOK
    PROVE  /\ Len(il) \in Nat /\ DOMAIN il = 1 .. Len(il)
           /\ il \in Seq(Names) /\ DOMAIN op \subseteq Names
           /\ \A k \in DOMAIN il : il[k] \in DOMAIN op /\ Place(il[k]) = k
           /\ \A x \in DOMAIN op : Place(x) \in DOMAIN il /\ il[Place(x)] = x
<1>1. il \in Seq(Names) /\ Ascending(il) /\ Range(il) = DOMAIN op
  BY DEF ListOK, Names
<1>2. Len(il) \in Nat /\ DOMAIN il = 1 .. Len(il) /\ \A k \in DOMAIN il : il[k] \in Names
  BY <1>1, LenProperties, ElementOfSeq
<1>3. \A k \in DOMAIN il : il[k] \in DOMAIN op
  BY <1>1 DEF Range
<1>4. \A x \in DOMAIN op : \E k \in DOMAIN il : il[k] = x
  BY <1>1 DEF Range
<1>5. ASSUME NEW j \in DOMAIN il, NEW k \in DOMAIN il, il[j] = il[k] PROVE j = k
  <2>1. Key(il[j]) \in Nat
    BY <1>2, Keys
  <2>2. ~(j < k) /\ ~(k < j)
    BY <1>1, <1>5, <2>1 DEF Ascending
  <2> QED BY <1>2, <2>2
<1>6. ASSUME NEW x \in DOMAIN op PROVE Place(x) \in DOMAIN il /\ il[Place(x)] = x
  BY <1>4 DEF Place
<1>7. ASSUME NEW k \in DOMAIN il PROVE Place(il[k]) = k
  BY <1>3, <1>5, <1>6
<1>8. DOMAIN op \subseteq Names
  BY <1>2, <1>4
<1> QED BY <1>1, <1>2, <1>3, <1>6, <1>7, <1>8

\* The list is in the order of the keys.
LEMMA PlacesOrdered ==
    ASSUME ListOK, NEW x \in DOMAIN op, NEW y \in DOMAIN op
    PROVE  Place(x) < Place(y) <=> Key(x) < Key(y)
<1>1. /\ x \in Names /\ y \in Names
      /\ Place(x) \in DOMAIN il /\ il[Place(x)] = x
      /\ Place(y) \in DOMAIN il /\ il[Place(y)] = y
      /\ DOMAIN il = 1 .. Len(il) /\ Len(il) \in Nat
  BY ListFacts
<1>2. Key(x) \in Nat /\ Key(y) \in Nat
  BY <1>1, Keys
<1>3. /\ Place(x) < Place(y) => Key(x) < Key(y)
      /\ Place(y) < Place(x) => Key(y) < Key(x)
  BY <1>1 DEF ListOK, Ascending
<1> QED BY <1>1, <1>2, <1>3

\* The opcodes in the order of the list,
LEMMA OpsListed ==
    ASSUME ListOK
    PROVE  /\ ListOps \in Seq(Opcodes) /\ Len(ListOps) = Len(il)
           /\ \A k \in DOMAIN il : ListOps[k] = op[il[k]]
<1>1. Len(il) \in Nat /\ DOMAIN il = 1 .. Len(il) /\ \A k \in DOMAIN il : il[k] \in DOMAIN op
  BY ListFacts
<1>2. \A k \in DOMAIN il : op[il[k]] \in Opcodes
  BY <1>1 DEF ListOK
<1> QED BY <1>1, <1>2 DEF ListOps

\* and their arguments.
LEMMA ArgsListed ==
    ASSUME ListOK
    PROVE  \A k \in DOMAIN il : ListArgs[k] = arg[il[k]] /\ ListArgs[k] \in Nat
BY ListFacts DEF ListOK, ListArgs

(***************************************************************************)
(* The list has every instruction once.                                    *)
(***************************************************************************)
LEMMA ListComplete ==
    ASSUME ListOK
    PROVE  IsFiniteSet(DOMAIN op) /\ Len(il) = Cardinality(DOMAIN op)
<1>1. Len(il) \in Nat /\ DOMAIN il = 1 .. Len(il)
  BY ListFacts
<1>2. il \in Bijection(1 .. Len(il), DOMAIN op)
  <2>1. il \in [1 .. Len(il) -> DOMAIN op]
    BY <1>1, ListFacts, LenProperties
  <2>2. \A x \in DOMAIN op : \E k \in 1 .. Len(il) : il[k] = x
    BY <1>1, ListFacts
  <2>3. \A j, k \in 1 .. Len(il) : il[j] = il[k] => j = k
    BY <1>1, ListFacts
  <2> QED BY <2>1, <2>2, <2>3 DEF Bijection, Injection, Surjection, IsInjective
<1>3. ExistsBijection(1 .. Len(il), DOMAIN op)
  BY <1>2 DEF ExistsBijection
<1> QED BY <1>1, <1>3, FS_CountingElements, FS_NatBijection

-----------------------------------------------------------------------------
(* The method.                                                             *)

\* What BodyAssumption says of the method that is rewritten.
LEMMA InputFacts ==
    ASSUME input \in Inputs
    PROVE  /\ Len(input.code) \in Nat /\ DOMAIN input.code = 1 .. Len(input.code)
           /\ \A k \in DOMAIN input.code :
                /\ input.code[k].op \in Opcodes \ Hooks
                /\ input.code[k].arg \in Nat /\ input.code[k].disp \in Int
                /\ HasTarget(input.code[k].op) => TargetIn(input.code, k) \in DOMAIN input.code
           /\ SwitchesWhole(input.code)
           /\ \A i \in DOMAIN input.eh : ClauseFits(input.code, input.eh[i])
           /\ input.maxStack \in Nat
           /\ OpsOf(input.code) \in Seq(Opcodes) /\ Len(OpsOf(input.code)) = Len(input.code)
           /\ \A k \in DOMAIN input.code : OpsOf(input.code)[k] = input.code[k].op
<1> DEFINE c == input.code
<1>1. /\ input \in Bodies /\ HookCalls(c) = {}
      /\ \A k \in DOMAIN c : HasTarget(c[k].op) => TargetIn(c, k) \in DOMAIN c
      /\ SwitchesWhole(c) /\ \A i \in DOMAIN input.eh : ClauseFits(c, input.eh[i])
  BY InputAssumption, BodyAssumption
<1>2. c \in Seq([op : Opcodes, arg : Nat, disp : Int]) /\ input.maxStack \in Nat
  BY <1>1 DEF Bodies
<1> HIDE DEF c
<1>3. Len(c) \in Nat /\ DOMAIN c = 1 .. Len(c)
      /\ \A k \in DOMAIN c : c[k] \in [op : Opcodes, arg : Nat, disp : Int]
  BY <1>2, LenProperties, ElementOfSeq
<1>4. OpsOf(c) \in Seq(Opcodes) /\ Len(OpsOf(c)) = Len(c) /\ \A k \in DOMAIN c : OpsOf(c)[k] = c[k].op
  BY <1>3 DEF OpsOf
<1>5. \A k \in DOMAIN c : c[k].op \in Opcodes \ Hooks
  BY <1>1, <1>3 DEF HookCalls
<1> QED BY <1>1, <1>2, <1>3, <1>4, <1>5 DEF c

\* Positions of the method are named by its instructions, its end by the
\* sentinel.
LEMMA NamesOf ==
    ASSUME input \in Inputs, NEW k \in 1 .. Len(input.code) + 1
    PROVE  NameOf(input.code, k) = (IF k = Len(input.code) + 1 THEN Sentinel ELSE <<k, 0>>)
           /\ NameOf(input.code, k) \in Own \cup {Sentinel}
BY InputFacts DEF NameOf, Own

\* A clause's bounds are instructions of the method, or its end.
LEMMA ClauseImported ==
    ASSUME input \in Inputs, NEW i \in DOMAIN input.eh,
           NEW f \in DOMAIN ImportClause(input.code, input.eh[i])
    PROVE  ImportClause(input.code, input.eh[i])[f] \in Own \cup {Sentinel}
<1> DEFINE code == input.code
           c == input.eh[i]
           d == ImportClause(code, c)
           at(off) == PositionAt(OpsOf(code), off)
<1>1. Len(code) \in Nat /\ DOMAIN code = 1 .. Len(code)
  BY InputFacts
<1>2. /\ at(c.try) \in 1 .. Len(code) + 1
      /\ at(c.try + c.tryLen) \in 1 .. Len(code) + 1
      /\ at(c.handler) \in 1 .. Len(code) + 1
      /\ at(c.handler + c.handlerLen) - 1 \in 1 .. Len(code) + 1
      /\ c.filter # -1 => at(c.filter) \in 1 .. Len(code) + 1
  <2>1. ClauseFits(code, c)
    BY InputFacts
  <2> HIDE DEF code, c
  <2> QED BY <1>1, <2>1 DEF ClauseFits
<1>3. /\ d.tryBegin \in Own \cup {Sentinel} /\ d.tryEnd \in Own \cup {Sentinel}
      /\ d.handlerBegin \in Own \cup {Sentinel} /\ d.handlerEnd \in Own \cup {Sentinel}
      /\ d.filter \in Own \cup {Sentinel}
  BY <1>2, NamesOf DEF ImportClause
<1>4. f \in {"tryBegin", "tryEnd", "handlerBegin", "handlerEnd", "filter"}
  BY DEF ImportClause
<1> HIDE DEF d
<1>5. d[f] \in Own \cup {Sentinel}
  BY <1>3, <1>4
<1> QED BY <1>5 DEF d

-----------------------------------------------------------------------------
(* One step of the rewriter.                                               *)

\* Import establishes the invariant.
LEMMA ImportKeeps ==
    ASSUME input \in Inputs, Import
    PROVE  RewriteInductive'
<1> DEFINE code == input.code
           n == Len(code)
<1>1. /\ il' = [k \in DOMAIN code |-> <<k, 0>>]
      /\ op' = [x \in Own |-> code[x[1]].op]
      /\ arg' = [x \in Own |-> code[x[1]].arg]
      /\ target' = [x \in Own |->
           IF HasTarget(code[x[1]].op) THEN NameOf(code, TargetIn(code, x[1])) ELSE x]
      /\ clauses' = [i \in DOMAIN input.eh |-> ImportClause(code, input.eh[i])]
      /\ \E tail \in PushTails : maxStack' = input.maxStack + SumPushes(OpsOf(code), tail)
      /\ stage' = "enter" /\ input' = input
  BY DEF Import, Own
<1>2. /\ n \in Nat /\ DOMAIN code = 1 .. n
      /\ \A k \in DOMAIN code : code[k].op \in Opcodes /\ code[k].arg \in Nat
      /\ input.maxStack \in Nat
      /\ OpsOf(code) \in Seq(Opcodes) /\ Len(OpsOf(code)) = n
      /\ \A k \in DOMAIN code : OpsOf(code)[k] = code[k].op
  BY InputFacts
<1>3. il' \in Seq(Nat \X (0 .. 3)) /\ DOMAIN il' = 1 .. n /\ \A k \in 1 .. n : il'[k] = <<k, 0>>
  BY <1>1, <1>2
<1>4. Ascending(il')
  BY <1>2, <1>3 DEF Ascending, Key
<1>5. Range(il') = Own /\ DOMAIN op' = Own /\ DOMAIN arg' = Own /\ DOMAIN target' = Own
  BY <1>1 DEF Range, Own
<1>6. ASSUME NEW k \in DOMAIN code, HasTarget(code[k].op)
      PROVE  target'[<<k, 0>>] = <<TargetIn(code, k), 0>> /\ target'[<<k, 0>>] \in Own
  <2>1. TargetIn(code, k) \in DOMAIN code
    BY <1>6, InputFacts
  <2>2. TargetIn(code, k) \in 1 .. n + 1 /\ TargetIn(code, k) # n + 1
    BY <1>2, <2>1
  <2>3. NameOf(code, TargetIn(code, k)) = <<TargetIn(code, k), 0>>
    BY <2>2, NamesOf
  <2>4. <<k, 0>> \in Own /\ <<TargetIn(code, k), 0>> \in Own
    BY <2>1 DEF Own
  <2> QED BY <1>1, <1>6, <2>3, <2>4
<1>7. ASSUME NEW x \in Own
      PROVE  /\ op'[x] \in Opcodes /\ arg'[x] \in Nat
             /\ target'[x] \in Own \cup {Sentinel}
  <2>1. PICK k \in DOMAIN code : x = <<k, 0>>
    BY DEF Own
  <2>2. op'[x] = code[k].op /\ arg'[x] = code[k].arg
    BY <1>1, <2>1
  <2>3. ~HasTarget(code[k].op) => target'[x] = x
    BY <1>1, <2>1
  <2> QED BY <1>2, <1>6, <2>1, <2>2, <2>3
<1>8. \A i \in DOMAIN clauses' : \A f \in DOMAIN clauses'[i] : clauses'[i][f] \in Own \cup {Sentinel}
  BY <1>1, ClauseImported
<1>9. /\ maxStack' \in Int
      /\ (\A k \in DOMAIN code : code[k].op # "arg") => maxStack' >= input.maxStack
  <2>1. PICK tail \in PushTails : maxStack' = input.maxStack + SumPushes(OpsOf(code), tail)
    BY <1>1
  <2>2. tail \in Int
    BY SizeAssumption
  <2>3. /\ SumPushes(OpsOf(code), tail) \in Int
        /\ (\A k \in 1 .. n : OpsOf(code)[k] # "arg") => SumPushes(OpsOf(code), tail) \in Nat
    BY <1>2, <2>2, SumType
  <2> QED BY <1>2, <2>1, <2>3
<1>10. ListOK'
  BY <1>3, <1>4, <1>5, <1>7, <1>8, <1>9 DEF ListOK
<1>11. NamesOK' /\ ProbesOK' /\ LaidOut' /\ Resolved' /\ BodyOK'
  BY <1>1, <1>5 DEF NamesOK, ProbesOK, LaidOut, Resolved, BodyOK, Exporting, Installed, Own
<1>12. OwnOK'
  <2>1. ASSUME NEW k \in DOMAIN code
        PROVE  op'[<<k, 0>>] = code[k].op /\ arg'[<<k, 0>>] = code[k].arg
    <3>1. <<k, 0>> \in Own
      BY DEF Own
    <3> QED BY <1>1, <3>1
  <2>2. ASSUME NEW k \in DOMAIN code PROVE OpOK(k)'
    BY <1>1, <2>1 DEF OpOK, Probing
  <2>3. ASSUME NEW k \in DOMAIN input'.code
        PROVE  /\ OpOK(k)'
               /\ input'.code[k].op # "ret" => arg'[<<k, 0>>] = input'.code[k].arg
               /\ HasTarget(input'.code[k].op) =>
                    target'[<<k, 0>>] = <<TargetIn(input'.code, k), 0>>
    <3>1. input'.code = code
      BY <1>1
    <3> HIDE DEF code
    <3> QED BY <1>6, <2>1, <2>2, <3>1
  <2>4. clauses' = [i \in DOMAIN input'.eh |-> ImportClause(input'.code, input'.eh[i])]
    BY <1>1
  <2> HIDE DEF code
  <2> QED BY <2>3, <2>4 DEF OwnOK
<1>13. StackOK'
  BY <1>1, <1>2, <1>9 DEF StackOK
<1> QED BY <1>1, <1>10, <1>11, <1>12, <1>13 DEF RewriteInductive

\* In the terms of the next state, what OwnOK says of one instruction.
LEMMA OwnKept ==
    ASSUME (Probing \/ Exporting)',
           \A k \in DOMAIN input'.code :
             /\ OpOK(k)'
             /\ input'.code[k].op # "ret" => arg'[<<k, 0>>] = input'.code[k].arg
             /\ HasTarget(input'.code[k].op) =>
                  target'[<<k, 0>>] = <<TargetIn(input'.code, k), 0>>,
           clauses' = [i \in DOMAIN input'.eh |-> ImportClause(input'.code, input'.eh[i])]
    PROVE  OwnOK'
BY DEF OwnOK

\* The enter probe goes before everything else.
LEMMA EnterKeeps ==
    ASSUME input \in Inputs, RewriteInductive, AddEnterProbe
    PROVE  RewriteInductive'
<1> DEFINE load == <<0, 1>>
           hook == <<0, 2>>
           code == input.code
<1>1. /\ stage = "enter" /\ stage' = "exit"
      /\ il' = <<load, hook>> \o il
      /\ op' = Extend(op, [x \in EnterProbe |-> IF x = load THEN "ldc" ELSE "enter"])
      /\ arg' = Extend(arg, [x \in EnterProbe |-> 0])
      /\ target' = Extend(target, [x \in EnterProbe |-> x])
      /\ maxStack' = maxStack + 2
      /\ input' = input /\ clauses' = clauses
  BY ProbePushesTwo DEF AddEnterProbe, EnterProbe
<1>2. /\ ListOK /\ DOMAIN op = Own /\ OwnOK /\ StackOK
      /\ DOMAIN arg = Own /\ DOMAIN target = Own
      /\ il \in Seq(Names) /\ Ascending(il) /\ Range(il) = Own
      /\ maxStack \in Int /\ input.maxStack \in Nat
      /\ Len(code) \in Nat /\ DOMAIN code = 1 .. Len(code)
  BY <1>1, InputFacts DEF RewriteInductive, ListOK, NamesOK, Names
<1>3. Own \cap EnterProbe = {}
  BY <1>2 DEF Own, EnterProbe
<1>4. /\ DOMAIN op' = Own \cup EnterProbe /\ DOMAIN arg' = Own \cup EnterProbe
      /\ DOMAIN target' = Own \cup EnterProbe
      /\ \A x \in Own : op'[x] = op[x] /\ arg'[x] = arg[x] /\ target'[x] = target[x]
      /\ op'[load] = "ldc" /\ op'[hook] = "enter"
      /\ \A x \in EnterProbe : arg'[x] = 0 /\ target'[x] = x
  <2>1. load \in EnterProbe /\ hook \in EnterProbe /\ load # hook
    BY DEF EnterProbe
  <2> DEFINE o == [x \in EnterProbe |-> IF x = load THEN "ldc" ELSE "enter"]
             a == [x \in EnterProbe |-> 0]
             t == [x \in EnterProbe |-> x]
  <2>3. /\ DOMAIN o = EnterProbe /\ DOMAIN a = EnterProbe /\ DOMAIN t = EnterProbe
        /\ o[load] = "ldc" /\ o[hook] = "enter"
        /\ \A x \in EnterProbe : a[x] = 0 /\ t[x] = x
    BY <2>1
  <2>4. op' = Extend(op, o) /\ arg' = Extend(arg, a) /\ target' = Extend(target, t)
    BY <1>1
  <2> HIDE DEF o, a, t, load, hook
  <2>0. DOMAIN op = Own /\ DOMAIN arg = Own /\ DOMAIN target = Own
    BY <1>2
  <2>5. op' = [x \in Own \cup EnterProbe |-> IF x \in EnterProbe THEN o[x] ELSE op[x]]
    BY <2>0, <2>3, <2>4 DEF Extend
  <2>6. arg' = [x \in Own \cup EnterProbe |-> IF x \in EnterProbe THEN a[x] ELSE arg[x]]
    BY <2>0, <2>3, <2>4 DEF Extend
  <2>7. target' = [x \in Own \cup EnterProbe |-> IF x \in EnterProbe THEN t[x] ELSE target[x]]
    BY <2>0, <2>3, <2>4 DEF Extend
  <2> QED BY <1>3, <2>1, <2>3, <2>5, <2>6, <2>7
<1>5. il' \in Seq(Names) /\ Ascending(il') /\ Range(il') = Own \cup EnterProbe
  <2> DEFINE s == <<load, hook>>
  <2>1. s \in Seq(Names) /\ Len(s) = 2 /\ s[1] = <<0, 1>> /\ s[2] = <<0, 2>>
    BY DEF Names
  <2> HIDE DEF s
  <2>2. DOMAIN s = {1, 2}
    BY <2>1, LenProperties
  <2>3. Key(s[1]) = 1 /\ Key(s[2]) = 2
    BY <2>1 DEF Key
  <2>4. Ascending(s) /\ Range(s) = EnterProbe
    BY <2>1, <2>2, <2>3 DEF Ascending, Range, EnterProbe
  <2>5. \A x \in EnterProbe, y \in Own : Key(x) < Key(y)
    BY <1>2 DEF EnterProbe, Own, Key
  <2>6. /\ s \o il \in Seq(Names) /\ Ascending(s \o il)
        /\ Range(s \o il) = Range(s) \cup Range(il)
    BY <1>2, <2>1, <2>4, <2>5, ConcatAscending
  <2> QED BY <1>1, <1>2, <2>4, <2>6 DEF s
<1>6. ListOK'
  <2>1. \A x \in Own \cup EnterProbe :
          /\ op'[x] \in Opcodes /\ arg'[x] \in Nat
          /\ target'[x] \in (Own \cup EnterProbe) \cup {Sentinel}
    <3>1. \A x \in Own : op[x] \in Opcodes /\ arg[x] \in Nat /\ target[x] \in Own \cup {Sentinel}
      BY <1>2 DEF ListOK
    <3>2. \A x \in EnterProbe : op'[x] \in Opcodes
      BY <1>4 DEF EnterProbe, Opcodes
    <3> QED BY <1>4, <3>1, <3>2
  <2>2. \A i \in DOMAIN clauses : \A f \in DOMAIN clauses[i] : clauses[i][f] \in Own \cup {Sentinel}
    BY <1>2 DEF ListOK
  <2>3. maxStack' \in Int
    BY <1>1, <1>2
  <2> QED BY <1>1, <1>4, <1>5, <2>1, <2>2, <2>3 DEF ListOK, Names
<1>7. NamesOK' /\ ProbesOK' /\ LaidOut' /\ Resolved' /\ BodyOK'
  <2>1. Own' = Own /\ EnterProbe' = EnterProbe
    BY <1>1 DEF Own, EnterProbe
  <2> QED BY <1>1, <1>4, <2>1 DEF NamesOK, ProbesOK, LaidOut, Resolved, BodyOK, Exporting, Installed
<1>8. OwnOK'
  <2>1. /\ \A k \in DOMAIN code :
             /\ OpOK(k)
             /\ code[k].op # "ret" => arg[<<k, 0>>] = code[k].arg
             /\ HasTarget(code[k].op) => target[<<k, 0>>] = <<TargetIn(code, k), 0>>
        /\ clauses = [i \in DOMAIN input.eh |-> ImportClause(code, input.eh[i])]
    BY <1>1, <1>2 DEF OwnOK, Probing
  <2>2. \A k \in DOMAIN code : <<k, 0>> \in Own
    BY DEF Own
  <2>3. ASSUME NEW k \in DOMAIN code PROVE OpOK(k)'
    BY <1>1, <1>4, <2>1, <2>2 DEF OpOK, Probing, Exporting
  <2>4. (Probing \/ Exporting)'
    BY <1>1 DEF Probing
  <2> QED BY <1>1, <1>4, <2>1, <2>2, <2>3, <2>4, OwnKept
<1>9. StackOK'
  <2>1. (\A k \in DOMAIN code : code[k].op # "arg") => maxStack >= input.maxStack
    BY <1>1, <1>2 DEF StackOK, Probing
  <2> QED BY <1>1, <1>2, <2>1 DEF StackOK
<1> QED BY <1>1, <1>6, <1>7, <1>8, <1>9 DEF RewriteInductive

\* A rewriter that has failed keeps its list, and promises nothing else.
LEMMA FailedKeeps ==
    ASSUME RewriteInductive, stage' = "failed",
           UNCHANGED <<input, il, op, arg, target, clauses, maxStack>>
    PROVE  RewriteInductive'
<1>1. ListOK'
  BY DEF RewriteInductive, ListOK
<1>2. NamesOK' /\ OwnOK' /\ ProbesOK' /\ StackOK' /\ LaidOut' /\ Resolved' /\ BodyOK'
  BY DEF NamesOK, OwnOK, ProbesOK, StackOK, LaidOut, Resolved, BodyOK, Probing, Exporting, Installed
<1> QED BY <1>1, <1>2 DEF RewriteInductive

\* A failure leaves the list as it is.
LEMMA FailsKeeps ==
    ASSUME RewriteInductive, Fails
    PROVE  RewriteInductive'
BY FailedKeeps DEF Fails, listVars

\* Before the exit probes come in, the RETs in the list are the method's.
LEMMA RetsOwn ==
    ASSUME input \in Inputs, RewriteInductive, stage = "exit"
    PROVE  Rets = {<<k, 0>> : k \in Returns}
<1>1. DOMAIN op = Own \cup EnterProbe /\ op[<<0, 1>>] = "ldc" /\ op[<<0, 2>>] = "enter"
  BY DEF RewriteInductive, NamesOK, ProbesOK
<1>2. \A k \in DOMAIN input.code : op[<<k, 0>>] = input.code[k].op
  BY DEF RewriteInductive, OwnOK, OpOK, Probing, Exporting
<1> QED BY <1>1, <1>2 DEF Rets, Returns, Own, EnterProbe

\* The exit probes go behind the RETs, and the list stays in order.
LEMMA ExitKeeps ==
    ASSUME input \in Inputs, RewriteInductive, AddExitProbe, ~GivesUp
    PROVE  RewriteInductive'
<1> DEFINE code == input.code
           Before == Own \cup EnterProbe
           All == Before \cup ExitProbes
           o == [x \in ExitNames |-> ExitOps(x)]
           a == [x \in ExitNames |-> 0]
           t == [x \in ExitNames |-> x]
<1>1. /\ stage = "exit" /\ stage' = "layout"
      /\ il' = WithExits
      /\ op' = Extend(op, o) /\ arg' = Extend(arg, a) /\ target' = Extend(target, t)
      /\ maxStack' = maxStack + Cardinality(Rets) * 2
      /\ input' = input /\ clauses' = clauses
  BY ProbePushesTwo DEF AddExitProbe
<1>2. /\ ListOK /\ DOMAIN op = Before /\ OwnOK /\ StackOK
      /\ DOMAIN arg = Before /\ DOMAIN target = Before
      /\ il \in Seq(Names) /\ Ascending(il) /\ Range(il) = Before
      /\ maxStack \in Int /\ input.maxStack \in Nat
      /\ Len(code) \in Nat /\ DOMAIN code = 1 .. Len(code)
      /\ op[<<0, 1>>] = "ldc" /\ op[<<0, 2>>] = "enter"
  BY <1>1, InputFacts DEF RewriteInductive, ListOK, NamesOK, ProbesOK, Names
<1>3. /\ Rets = {<<k, 0>> : k \in Returns}
      /\ Returns \subseteq DOMAIN code
  BY <1>1, RetsOwn DEF Returns
<1>4. /\ ExitNames = {<<k, j>> : k \in Returns, j \in 0 .. 3}
      /\ Before \cup ExitNames = All
      /\ \A x \in Before : x \in ExitNames <=> x \in Rets
      /\ \A k \in DOMAIN code : <<k, 0>> \in Before /\ (<<k, 0>> \in ExitNames <=> k \in Returns)
      /\ <<0, 1>> \notin ExitNames /\ <<0, 2>> \notin ExitNames
  <2>1. ExitNames = {<<k, j>> : k \in Returns, j \in 0 .. 3}
    <3> DEFINE E == {<<k, j>> : k \in Returns, j \in 0 .. 3}
    <3>1. ASSUME NEW y \in E PROVE y \in ExitNames
      <4>1. PICK k \in Returns, j \in 0 .. 3 : y = <<k, j>>
        OBVIOUS
      <4>2. <<k, 0>> \in Rets /\ <<k, 0>>[1] = k
        BY <1>3
      <4>3. \E x \in Rets, i \in 0 .. 3 : y = <<x[1], i>>
        BY <4>1, <4>2
      <4> HIDE DEF E
      <4> QED BY <4>3 DEF ExitNames
    <3>2. ASSUME NEW y \in ExitNames PROVE y \in E
      <4>1. PICK x \in Rets, j \in 0 .. 3 : y = <<x[1], j>>
        BY DEF ExitNames
      <4>2. PICK k \in Returns : x = <<k, 0>>
        BY <1>3
      <4> QED BY <4>1, <4>2
    <3> HIDE DEF E
    <3>3. ExitNames = E
      BY <3>1, <3>2
    <3> QED BY <3>3 DEF E
  <2>2. \A k \in Returns : <<k, 0>> \in Own
    BY <1>3 DEF Own
  <2>3. ExitNames = Rets \cup ExitProbes
    <3>1. 0 .. 3 = {0} \cup (1 .. 3)
      OBVIOUS
    <3> QED BY <1>3, <2>1, <3>1 DEF ExitProbes
  <2>4. \A x \in Before : x \notin ExitProbes
    BY <1>2, <1>3 DEF Own, EnterProbe, ExitProbes
  <2>5. Rets \subseteq Before
    BY <1>3, <2>2
  <2>6. \A k \in DOMAIN code : <<k, 0>> \in Own /\ (<<k, 0>> \in Rets <=> k \in Returns)
    BY <1>3 DEF Own
  <2>7. <<0, 1>> \notin ExitNames /\ <<0, 2>> \notin ExitNames
    BY <1>2, <1>3, <2>1
  <2> QED BY <2>1, <2>3, <2>4, <2>5, <2>6, <2>7
<1>5. /\ op' = [x \in All |-> IF x \in ExitNames THEN o[x] ELSE op[x]]
      /\ arg' = [x \in All |-> IF x \in ExitNames THEN a[x] ELSE arg[x]]
      /\ target' = [x \in All |-> IF x \in ExitNames THEN t[x] ELSE target[x]]
  <2>1. DOMAIN op = Before /\ DOMAIN arg = Before /\ DOMAIN target = Before
    BY <1>2
  <2>2. DOMAIN o = ExitNames /\ DOMAIN a = ExitNames /\ DOMAIN t = ExitNames
    OBVIOUS
  <2>3. Before \cup ExitNames = All
    BY <1>4
  <2>4. op' = Extend(op, o) /\ arg' = Extend(arg, a) /\ target' = Extend(target, t)
    BY <1>1
  <2> HIDE DEF Before, All, o, a, t
  <2>5. op' = [x \in All |-> IF x \in ExitNames THEN o[x] ELSE op[x]]
    BY <2>1, <2>2, <2>3, <2>4 DEF Extend
  <2>6. arg' = [x \in All |-> IF x \in ExitNames THEN a[x] ELSE arg[x]]
    BY <2>1, <2>2, <2>3, <2>4 DEF Extend
  <2>7. target' = [x \in All |-> IF x \in ExitNames THEN t[x] ELSE target[x]]
    BY <2>1, <2>2, <2>3, <2>4 DEF Extend
  <2> QED BY <2>5, <2>6, <2>7
<1>6. /\ \A x \in ExitNames : op'[x] = ExitOps(x) /\ arg'[x] = 0 /\ target'[x] = x
      /\ \A x \in Before \ ExitNames : op'[x] = op[x] /\ arg'[x] = arg[x] /\ target'[x] = target[x]
      /\ DOMAIN op' = All /\ DOMAIN arg' = All /\ DOMAIN target' = All
  <2>1. ExitNames \subseteq All /\ Before \subseteq All
    BY <1>4
  <2> HIDE DEF Before, All
  <2> QED BY <1>5, <2>1
<1>7. il' \in Seq(Names) /\ Ascending(il') /\ Range(il') = All
  <2>1. \A x \in Rets : x[2] = 0
    BY <1>3
  <2>2. ASSUME NEW x \in Rets, NEW y \in Range(il), Key(x) < Key(y)
        PROVE  Key(x) + 3 < Key(y)
    <3>1. PICK k \in Returns : x = <<k, 0>>
      BY <1>3
    <3>2. k \in Nat /\ k > 0 /\ Key(x) = 4 * k
      BY <1>2, <1>3, <3>1 DEF Key
    <3>3. CASE y \in Own
      <4>1. PICK n \in DOMAIN code : y = <<n, 0>>
        BY <3>3 DEF Own
      <4>2. n \in Nat /\ Key(y) = 4 * n
        BY <1>2, <4>1 DEF Key
      <4> QED BY <2>2, <3>2, <4>2
    <3>4. CASE y \in EnterProbe
      <4>1. Key(y) \in {1, 2}
        BY <3>4 DEF EnterProbe, Key
      <4> QED BY <2>2, <3>2, <4>1
    <3> QED BY <1>2, <3>3, <3>4
  <2>3. /\ WithExits \in Seq(Names) /\ Ascending(WithExits)
        /\ Range(WithExits) = UNION {Probed(x) : x \in Before}
    BY <1>2, <2>1, <2>2, WithExitsAscending
  <2>4. UNION {Probed(x) : x \in Before} = All
    <3>1. ASSUME NEW x \in Before, NEW y \in Probed(x) PROVE y \in All
      <4>1. CASE y = x
        BY <4>1
      <4>2. CASE x \in Rets /\ \E j \in 1 .. 3 : y = <<x[1], j>>
        BY <1>3, <4>2 DEF ExitProbes
      <4> QED BY <3>1, <4>1, <4>2 DEF Probed
    <3>2. ASSUME NEW y \in ExitProbes PROVE \E x \in Before : y \in Probed(x)
      <4>1. PICK k \in Returns, j \in 1 .. 3 : y = <<k, j>>
        BY DEF ExitProbes
      <4>2. <<k, 0>> \in Rets /\ <<k, 0>> \in Own /\ <<k, 0>>[1] = k
        BY <1>3 DEF Own
      <4> QED BY <4>1, <4>2 DEF Probed
    <3>3. \A x \in Before : x \in Probed(x)
      BY DEF Probed
    <3> HIDE DEF Before
    <3> QED BY <3>1, <3>2, <3>3
  <2> QED BY <1>1, <2>3, <2>4
<1>8. maxStack' \in Int /\ maxStack' >= maxStack
  <2>1. IsFiniteSet(DOMAIN op) /\ Rets \subseteq DOMAIN op
    BY <1>2, ListComplete DEF Rets
  <2>2. Cardinality(Rets) \in Nat
    BY <2>1, FS_Subset, FS_CardinalityType
  <2> QED BY <1>1, <1>2, <2>2
<1>9. ListOK'
  <2>1. \A x \in All : /\ op'[x] \in Opcodes /\ arg'[x] \in Nat
                       /\ target'[x] \in All \cup {Sentinel}
    <3>1. \A x \in Before : op[x] \in Opcodes /\ arg[x] \in Nat /\ target[x] \in Before \cup {Sentinel}
      BY <1>2 DEF ListOK
    <3>2. ASSUME NEW x \in ExitNames PROVE ExitOps(x) \in Opcodes
      <4>1. x[2] \in 0 .. 3
        BY <1>4
      <4> QED BY <4>1 DEF ExitOps, Opcodes
    <3>3. All = Before \cup ExitNames
      BY <1>4
    <3> HIDE DEF Before, All
    <3> QED BY <1>6, <3>1, <3>2, <3>3
  <2>2. \A i \in DOMAIN clauses : \A f \in DOMAIN clauses[i] : clauses[i][f] \in Before \cup {Sentinel}
    BY <1>2 DEF ListOK
  <2> HIDE DEF All
  <2>3. Before \subseteq All
    BY DEF All
  <2> HIDE DEF Before
  <2> QED BY <1>1, <1>6, <1>7, <1>8, <2>1, <2>2, <2>3 DEF ListOK, Names
<1>10. NamesOK' /\ LaidOut' /\ Resolved' /\ BodyOK'
  <2>1. Own' = Own /\ EnterProbe' = EnterProbe /\ ExitProbes' = ExitProbes
    BY <1>1 DEF Own, EnterProbe, ExitProbes, Returns
  <2> QED BY <1>1, <1>6, <2>1 DEF NamesOK, LaidOut, Resolved, BodyOK, Exporting, Installed
<1>11. ProbesOK'
  <2>1. op'[<<0, 1>>] = "ldc" /\ op'[<<0, 2>>] = "enter"
    <3>1. <<0, 1>> \in Before \ ExitNames /\ <<0, 2>> \in Before \ ExitNames
      BY <1>4 DEF EnterProbe
    <3> QED BY <1>2, <1>6, <3>1
  <2>2. \A k \in Returns, j \in 1 .. 3 : op'[<<k, j>>] = ExitOps(<<k, j>>)
    BY <1>4, <1>6
  <2>3. Returns' = Returns
    BY <1>1 DEF Returns
  <2>4. Returns # {}
    <3>1. Rets # {} /\ Rets = {<<k, 0>> : k \in Returns}
      BY <1>1, RetsOwn DEF GivesUp
    <3> QED BY <3>1
  <2> QED BY <1>1, <2>1, <2>2, <2>3, <2>4 DEF ProbesOK
<1>12. OwnOK'
  <2>1. /\ \A k \in DOMAIN code :
             /\ op[<<k, 0>>] = code[k].op
             /\ code[k].op # "ret" => arg[<<k, 0>>] = code[k].arg
             /\ HasTarget(code[k].op) => target[<<k, 0>>] = <<TargetIn(code, k), 0>>
        /\ clauses = [i \in DOMAIN input.eh |-> ImportClause(code, input.eh[i])]
    BY <1>1, <1>2 DEF OwnOK, OpOK, Probing, Exporting
  <2>2. (Probing \/ Exporting)'
    BY <1>1 DEF Exporting
  <2>3. ASSUME NEW k \in DOMAIN code
        PROVE  /\ OpOK(k)'
               /\ code[k].op # "ret" => arg'[<<k, 0>>] = code[k].arg
               /\ HasTarget(code[k].op) => target'[<<k, 0>>] = <<TargetIn(code, k), 0>>
    <3>1. CASE k \in Returns
      <4>1. code[k].op = "ret" /\ ~HasTarget("ret")
        BY <3>1 DEF Returns, HasTarget, ShortBranch, LongBranch
      <4>2. op'[<<k, 0>>] = "nop"
        BY <1>4, <1>6, <3>1 DEF ExitOps
      <4> QED BY <1>1, <4>1, <4>2 DEF OpOK, Probing, Exporting
    <3>2. CASE k \notin Returns
      <4>1. code[k].op # "ret"
        BY <3>2 DEF Returns
      <4>2. <<k, 0>> \in Before \ ExitNames
        BY <1>4, <3>2
      <4>3. op'[<<k, 0>>] = op[<<k, 0>>] /\ arg'[<<k, 0>>] = arg[<<k, 0>>] /\ target'[<<k, 0>>] = target[<<k, 0>>]
        BY <1>6, <4>2
      <4> QED BY <1>1, <2>1, <4>1, <4>3 DEF OpOK
    <3> QED BY <3>1, <3>2
  <2> QED BY <1>1, <2>1, <2>2, <2>3, OwnKept
<1>13. StackOK'
  <2>1. (\A k \in DOMAIN code : code[k].op # "arg") => maxStack >= input.maxStack + 1
    BY <1>1, <1>2 DEF StackOK, Probing
  <2> QED BY <1>1, <1>2, <1>8, <2>1 DEF StackOK
<1> QED BY <1>1, <1>9, <1>10, <1>11, <1>12, <1>13 DEF RewriteInductive

\* Where the layout puts instruction x, and the end.
LEMMA LayoutFacts ==
    ASSUME ListOK, LaidOut, stage \in {"resolve", "install", "installed"}
    PROVE  /\ \A x \in DOMAIN op : x # Sentinel => offset[x] = OffsetsOf(ListOps)[Place(x)]
           /\ offset[Sentinel] = OffsetsOf(ListOps)[Len(il) + 1]
           /\ \A x \in DOMAIN op \cup {Sentinel} : offset[x] \in Nat
<1> DEFINE at == OffsetsOf(ListOps)
<1>1. offset = [x \in DOMAIN op \cup {Sentinel} |->
                  IF x = Sentinel THEN at[Len(il) + 1] ELSE at[Place(x)]]
  BY DEF LaidOut
<1>2. at \in [1 .. Len(il) + 1 -> Nat] /\ Len(il) \in Nat
  BY OpsListed, OffsetsType, ListFacts
<1>3. \A x \in DOMAIN op : Place(x) \in 1 .. Len(il)
  BY ListFacts
<1> HIDE DEF at
<1>4. \A x \in DOMAIN op \cup {Sentinel} : offset[x] \in Nat
  BY <1>1, <1>2, <1>3
<1> QED BY <1>1, <1>4 DEF at

\* Layout gives offsets to the list as it is.
LEMMA LayoutKeeps ==
    ASSUME RewriteInductive, Layout
    PROVE  RewriteInductive'
<1>1. /\ stage = "layout" /\ stage' = "resolve"
      /\ UNCHANGED <<input, il, op, arg, target, clauses, maxStack, disp>>
      /\ offset' = [x \in DOMAIN op \cup {Sentinel} |->
             IF x = Sentinel THEN OffsetsOf(ListOps)[Len(il) + 1]
             ELSE OffsetsOf(ListOps)[Place(x)]]
  BY DEF Layout, listVars, Place
<1>2. ListOps' = ListOps /\ \A x : Place(x)' = Place(x)
  BY <1>1 DEF ListOps, Place
<1>3. LaidOut'
  BY <1>1, <1>2 DEF LaidOut
<1>4. ListOK'
  BY <1>1 DEF RewriteInductive, ListOK
<1>5. NamesOK' /\ ProbesOK'
  BY <1>1 DEF RewriteInductive, NamesOK, ProbesOK, Exporting, Own, EnterProbe, ExitProbes, Returns
<1>6. OwnOK'
  BY <1>1 DEF RewriteInductive, OwnOK, OpOK, Probing, Exporting
<1>7. StackOK'
  BY <1>1 DEF RewriteInductive, StackOK, Probing, Exporting
<1>8. Resolved' /\ BodyOK'
  BY <1>1 DEF Resolved, BodyOK, Installed
<1> QED BY <1>1, <1>3, <1>4, <1>5, <1>6, <1>7, <1>8 DEF RewriteInductive

\* What there is in a list that is being exported.
LEMMA NamesHold ==
    ASSUME input \in Inputs, RewriteInductive, Exporting, NEW x \in DOMAIN op
    PROVE  \/ \E k \in DOMAIN input.code :
                /\ x = <<k, 0>> /\ x # Sentinel
                /\ \/ input.code[k].op # "ret" /\ op[x] = input.code[k].op
                   \/ <<input.code[k].op, op[x]>> \in Longer
                   \/ k \in Returns /\ op[x] = "nop"
           \/ x = <<0, 1>> /\ op[x] = "ldc"
           \/ x = <<0, 2>> /\ op[x] = "enter"
           \/ \E k \in Returns : \/ x = <<k, 1>> /\ op[x] = "ldc"
                                 \/ x = <<k, 2>> /\ op[x] = "exit"
                                 \/ x = <<k, 3>> /\ op[x] = "ret"
<1>1. /\ DOMAIN op = Own \cup EnterProbe \cup ExitProbes
      /\ \A k \in DOMAIN input.code : OpOK(k)
      /\ op[<<0, 1>>] = "ldc" /\ op[<<0, 2>>] = "enter"
      /\ \A k \in Returns, j \in 1 .. 3 : op[<<k, j>>] = ExitOps(<<k, j>>)
  BY DEF RewriteInductive, NamesOK, OwnOK, ProbesOK
<1>2. DOMAIN input.code = 1 .. Len(input.code) /\ Len(input.code) \in Nat
  BY InputFacts
<1>3. CASE x \in Own
  <2>1. PICK k \in DOMAIN input.code : x = <<k, 0>>
    BY <1>3 DEF Own
  <2>2. x # Sentinel
    BY <1>2, <2>1 DEF Sentinel
  <2>3. CASE input.code[k].op = "ret"
    BY <1>1, <2>1, <2>2, <2>3 DEF OpOK, Exporting, Probing, Returns
  <2>4. CASE input.code[k].op # "ret"
    BY <1>1, <2>1, <2>2, <2>4 DEF OpOK, Exporting, Probing
  <2> QED BY <2>3, <2>4
<1>4. CASE x \in EnterProbe
  BY <1>1, <1>4 DEF EnterProbe
<1>5. CASE x \in ExitProbes
  <2>1. PICK k \in Returns, j \in 1 .. 3 : x = <<k, j>>
    BY <1>5 DEF ExitProbes
  <2>2. op[x] = ExitOps(<<k, j>>)
    BY <1>1, <2>1
  <2>3. j = 1 \/ j = 2 \/ j = 3
    OBVIOUS
  <2> QED BY <2>1, <2>2, <2>3 DEF ExitOps
<1> QED BY <1>1, <1>3, <1>4, <1>5

\* A switch target has its switch before it, also in the list.
LEMMA SwitchBefore ==
    ASSUME input \in Inputs, RewriteInductive, Exporting, NEW k \in DOMAIN il, ListOps[k] = "arg"
    PROVE  \E s \in 1 .. k - 1 : ListOps[s] = "switch"
<1>1. ListOK /\ il[k] \in DOMAIN op /\ op[il[k]] = "arg" /\ Place(il[k]) = k
  BY ListFacts, OpsListed DEF RewriteInductive
<1>2. PICK n \in DOMAIN input.code : il[k] = <<n, 0>> /\ input.code[n].op = "arg"
  BY <1>1, NamesHold DEF Longer
<1>3. PICK s \in 1 .. n - 1 : input.code[s].op = "switch"
  BY <1>2, InputFacts DEF SwitchesWhole
<1>4. s \in DOMAIN input.code /\ s \in Nat /\ n \in Nat /\ s < n
  BY <1>2, InputFacts
<1>5. OpOK(s) /\ <<s, 0>> \in DOMAIN op
  BY <1>4 DEF RewriteInductive, OwnOK, NamesOK, Own
<1>6. op[<<s, 0>>] = "switch"
  BY <1>3, <1>5 DEF OpOK, Longer
<1>7. Key(<<s, 0>>) < Key(il[k])
  BY <1>2, <1>4 DEF Key
<1>8. Place(<<s, 0>>) < k /\ Place(<<s, 0>>) \in DOMAIN il /\ il[Place(<<s, 0>>)] = <<s, 0>>
  BY <1>1, <1>5, <1>7, PlacesOrdered, ListFacts
<1>9. DOMAIN il = 1 .. Len(il) /\ Len(il) \in Nat
  BY <1>1, ListFacts
<1>10. ListOps[Place(<<s, 0>>)] = "switch"
  BY <1>1, <1>6, <1>8, OpsListed
<1> QED BY <1>8, <1>9, <1>10

\* So displacements in the list count from a number.
LEMMA BasesInList ==
    ASSUME input \in Inputs, RewriteInductive, Exporting, NEW k \in DOMAIN il
    PROVE  BaseOf(ListOps, ListArgs, k) \in Int
<1>1. ListOK
  BY DEF RewriteInductive
<1>2. /\ ListOps \in Seq(Opcodes) /\ Len(ListOps) = Len(il) /\ DOMAIN il = 1 .. Len(il)
      /\ \A s \in DOMAIN il : ListArgs[s] \in Int
  BY <1>1, OpsListed, ListFacts, ArgsListed
<1>3. ListOps[k] = "arg" => \E s \in 1 .. k - 1 : ListOps[s] = "switch"
  BY SwitchBefore
<1> QED BY <1>2, <1>3, BasesType

\* And displacements are numbers.
LEMMA DeltasType ==
    ASSUME input \in Inputs, RewriteInductive, stage \in {"resolve", "install", "installed"},
           NEW k \in DOMAIN il
    PROVE  Delta(k) \in Int
<1>1. ListOK /\ LaidOut /\ Exporting
  BY DEF RewriteInductive, Exporting
<1>2. target[il[k]] \in DOMAIN op \cup {Sentinel}
  BY <1>1, ListFacts DEF ListOK
<1>3. offset[target[il[k]]] \in Nat
  BY <1>1, <1>2, LayoutFacts
<1>4. BaseOf(ListOps, ListArgs, k) \in Int
  BY <1>1, BasesInList
<1> QED BY <1>3, <1>4 DEF Delta

\* A displacement that fits keeps its value in eight bits.
LEMMA Int8Fits == ASSUME NEW n \in Int, FitsInt8(n) PROVE Int8(n) = n
BY DEF FitsInt8, Int8

\* Branches that reach are patched, and when all do the layout still holds.
LEMMA ResolveKeeps ==
    ASSUME input \in Inputs, RewriteInductive, Resolve
    PROVE  RewriteInductive'
<1>1. /\ stage = "resolve" /\ stage' \in {"install", "layout"}
      /\ stage' = "install" => TooFar = {}
      /\ UNCHANGED <<input, il, arg, target, clauses, maxStack, offset>>
      /\ op' = [x \in DOMAIN op |-> IF x \in TooFar THEN Lengthen(op[x]) ELSE op[x]]
      /\ disp' = [x \in DOMAIN op |->
           CASE op[x] \in ShortBranch -> Int8(Delta(Place(x)))
             [] op[x] \in LongBranch \cup {"arg"} -> Delta(Place(x))
             [] OTHER -> 0]
  BY DEF Resolve, Again, listVars, Place
<1>2. ListOK /\ NamesOK /\ OwnOK /\ ProbesOK /\ StackOK /\ LaidOut
  BY DEF RewriteInductive
<1>3. ASSUME NEW x \in DOMAIN op
      PROVE  op'[x] = op[x] \/ (op[x] \in ShortBranch /\ <<op[x], op'[x]>> \in Longer)
  <2>1. x \in TooFar => op[x] \in ShortBranch
    BY DEF TooFar
  <2> QED BY <1>1, <2>1 DEF ShortBranch, Lengthen, Longer
<1>4. DOMAIN op' = DOMAIN op
  BY <1>1
<1>5. ListOK'
  <2>1. \A x \in DOMAIN op : op'[x] \in Opcodes
    BY <1>2, <1>3 DEF ListOK, Longer, Opcodes, ShortBranch, LongBranch
  <2> QED BY <1>1, <1>2, <1>4, <2>1 DEF ListOK
<1>6. Own' = Own /\ EnterProbe' = EnterProbe /\ ExitProbes' = ExitProbes /\ Returns' = Returns
  BY <1>1 DEF Own, EnterProbe, ExitProbes, Returns
<1>7. NamesOK'
  BY <1>1, <1>2, <1>4, <1>6 DEF NamesOK, Exporting
<1>8. ProbesOK'
  <2>1. /\ DOMAIN op = Own \cup EnterProbe \cup ExitProbes
        /\ op[<<0, 1>>] = "ldc" /\ op[<<0, 2>>] = "enter"
        /\ \A k \in Returns, j \in 1 .. 3 : op[<<k, j>>] = ExitOps(<<k, j>>)
        /\ Returns # {}
    BY <1>1, <1>2 DEF NamesOK, ProbesOK, Exporting
  <2>2. op'[<<0, 1>>] = "ldc" /\ op'[<<0, 2>>] = "enter"
    BY <1>3, <2>1 DEF EnterProbe, ShortBranch
  <2>3. ASSUME NEW k \in Returns, NEW j \in 1 .. 3 PROVE op'[<<k, j>>] = ExitOps(<<k, j>>)
    <3>0. <<k, j>> \in ExitProbes
      BY DEF ExitProbes
    <3>1. <<k, j>> \in DOMAIN op /\ op[<<k, j>>] = ExitOps(<<k, j>>)
      BY <2>1, <3>0
    <3>2. j = 1 \/ j = 2 \/ j = 3
      OBVIOUS
    <3>3. ExitOps(<<k, j>>) \notin ShortBranch
      BY <3>2 DEF ExitOps, ShortBranch
    <3> QED BY <1>3, <3>1, <3>3
  <2> QED BY <1>1, <1>6, <2>1, <2>2, <2>3 DEF ProbesOK
<1>9. OwnOK'
  <2>1. /\ \A k \in DOMAIN input.code :
             /\ OpOK(k)
             /\ input.code[k].op # "ret" => arg[<<k, 0>>] = input.code[k].arg
             /\ HasTarget(input.code[k].op) => target[<<k, 0>>] = <<TargetIn(input.code, k), 0>>
        /\ clauses = [i \in DOMAIN input.eh |-> ImportClause(input.code, input.eh[i])]
    BY <1>1, <1>2 DEF OwnOK, Exporting
  <2>2. ASSUME NEW k \in DOMAIN input.code PROVE OpOK(k)'
    <3>1. <<k, 0>> \in DOMAIN op
      BY <1>1, <1>2 DEF NamesOK, Exporting, Own
    <3>2. OpOK(k)
      BY <2>1
    <3>3. input.code[k].op \in ShortBranch \/ op[<<k, 0>>] \in LongBranch => input.code[k].op # "ret"
      BY <1>1, <3>2 DEF OpOK, ShortBranch, LongBranch, Exporting, Probing, Longer
    <3>4. op'[<<k, 0>>] = op[<<k, 0>>] \/
            (op[<<k, 0>>] \in ShortBranch /\ <<op[<<k, 0>>], op'[<<k, 0>>]>> \in Longer)
      BY <1>3, <3>1
    <3>5. op[<<k, 0>>] \in ShortBranch => op[<<k, 0>>] = input.code[k].op /\ input.code[k].op # "ret"
      BY <1>1, <3>2 DEF OpOK, ShortBranch, Exporting, Probing, Longer
    <3> QED BY <1>1, <3>2, <3>4, <3>5 DEF OpOK, Exporting, Probing
  <2>3. (Probing \/ Exporting)'
    BY <1>1 DEF Exporting
  <2> QED BY <1>1, <2>1, <2>2, <2>3, OwnKept
<1>10. StackOK'
  BY <1>1, <1>2 DEF StackOK, Probing, Exporting
<1>11. BodyOK'
  BY <1>1 DEF BodyOK, Installed
<1>12. CASE stage' = "layout"
  BY <1>1, <1>5, <1>7, <1>8, <1>9, <1>10, <1>11, <1>12 DEF RewriteInductive, LaidOut, Resolved
<1>13. CASE stage' = "install"
  <2>1. \A x \in DOMAIN op : op'[x] = op[x]
    BY <1>1, <1>13
  <2>2. \A k \in DOMAIN il : il[k] \in DOMAIN op
    BY <1>2, ListFacts
  <2>3. ListOps' = ListOps /\ ListArgs' = ListArgs /\ \A x : Place(x)' = Place(x)
    BY <1>1, <2>1, <2>2 DEF ListOps, ListArgs, Place
  <2>4. LaidOut'
    BY <1>1, <1>2, <1>4, <2>3 DEF LaidOut
  <2>5. ASSUME NEW k \in DOMAIN il PROVE Delta(k)' = Delta(k)
    BY <1>1, <2>3 DEF Delta
  <2>6. ASSUME NEW k \in DOMAIN il, HasTarget(op[il[k]]) PROVE disp'[il[k]] = Delta(k)
    <3>1. il[k] \in DOMAIN op /\ Place(il[k]) = k
      BY <1>2, ListFacts
    <3>2. Delta(k) \in Int
      BY <1>1, DeltasType
    <3>3. CASE op[il[k]] \in ShortBranch
      <4>1. FitsInt8(Delta(k))
        BY <1>1, <1>13, <3>3 DEF TooFar
      <4> QED BY <1>1, <3>1, <3>2, <3>3, <4>1, Int8Fits
    <3>4. CASE op[il[k]] \in LongBranch \cup {"arg"}
      BY <1>1, <3>1, <3>4 DEF ShortBranch, LongBranch
    <3> QED BY <2>6, <3>3, <3>4 DEF HasTarget
  <2>7. Resolved'
    <3>1. DOMAIN disp' = DOMAIN op'
      BY <1>1
    <3>2. \A k \in DOMAIN il' : HasTarget(op'[il'[k]]) => disp'[il'[k]] = Delta(k)'
      BY <1>1, <2>1, <2>2, <2>5, <2>6
    <3> QED BY <3>1, <3>2 DEF Resolved
  <2> QED BY <1>1, <1>5, <1>7, <1>8, <1>9, <1>10, <1>11, <2>4, <2>7 DEF RewriteInductive
<1> QED BY <1>1, <1>12, <1>13

\* Install writes the list out.
LEMMA InstallKeeps ==
    ASSUME RewriteInductive, Install
    PROVE  RewriteInductive'
<1>1. /\ stage = "install" /\ stage' = "installed"
      /\ UNCHANGED <<input, il, op, arg, target, clauses, maxStack, offset, disp>>
      /\ body' = [code |-> [k \in DOMAIN il |->
                              [op |-> op[il[k]], arg |-> arg[il[k]], disp |-> disp[il[k]]]],
                  eh |-> [i \in DOMAIN clauses |-> ExportClause(clauses[i])],
                  maxStack |-> HeaderStack]
  BY DEF Install, listVars
<1>2. ListOps' = ListOps /\ ListArgs' = ListArgs /\ \A x : Place(x)' = Place(x)
  BY <1>1 DEF ListOps, ListArgs, Place
<1>3. LaidOut' /\ Resolved'
  <2>1. \A k : Delta(k)' = Delta(k)
    BY <1>1, <1>2 DEF Delta
  <2> QED BY <1>1, <1>2, <2>1 DEF RewriteInductive, LaidOut, Resolved
<1>4. ListOK'
  BY <1>1 DEF RewriteInductive, ListOK
<1>5. NamesOK' /\ ProbesOK'
  BY <1>1 DEF RewriteInductive, NamesOK, ProbesOK, Exporting, Own, EnterProbe, ExitProbes, Returns
<1>6. OwnOK'
  BY <1>1 DEF RewriteInductive, OwnOK, OpOK, Probing, Exporting
<1>7. StackOK'
  BY <1>1 DEF RewriteInductive, StackOK, Probing, Exporting
<1>8. BodyOK'
  <2>1. HeaderStack' = HeaderStack /\ \A c : ExportClause(c)' = ExportClause(c)
    BY <1>1 DEF HeaderStack, ExportClause, NextOffset
  <2> QED BY <1>1, <2>1 DEF BodyOK
<1> QED BY <1>1, <1>3, <1>4, <1>5, <1>6, <1>7, <1>8 DEF RewriteInductive

\* Every step keeps the invariant.
LEMMA StepKeepsRewriter ==
    ASSUME input \in Inputs, RewriteInductive, [Next]_vars
    PROVE  RewriteInductive'
<1>1. CASE Import
  BY <1>1, ImportKeeps
<1>2. CASE AddEnterProbe
  BY <1>2, EnterKeeps
<1>3. CASE AddExitProbe
  <2>1. CASE GivesUp
    BY <1>3, <2>1, FailedKeeps DEF AddExitProbe
  <2> QED BY <1>3, <2>1, ExitKeeps
<1>4. CASE Layout
  BY <1>4, LayoutKeeps
<1>5. CASE Resolve
  BY <1>5, ResolveKeeps
<1>6. CASE Install
  BY <1>6, InstallKeeps
<1>7. CASE Fails
  BY <1>7, FailsKeeps
<1>8. CASE UNCHANGED vars
  <2>1. ListOps' = ListOps /\ ListArgs' = ListArgs /\ \A x : Place(x)' = Place(x)
    BY <1>8 DEF ListOps, ListArgs, Place, vars
  <2>2. \A k : Delta(k)' = Delta(k)
    BY <1>8, <2>1 DEF Delta, vars
  <2>3. HeaderStack' = HeaderStack /\ \A c : ExportClause(c)' = ExportClause(c)
    BY <1>8 DEF HeaderStack, ExportClause, NextOffset, vars
  <2>4. LaidOut' /\ Resolved' /\ BodyOK'
    BY <1>8, <2>1, <2>2, <2>3 DEF RewriteInductive, LaidOut, Resolved, BodyOK, Installed, vars
  <2>5. ListOK'
    BY <1>8 DEF RewriteInductive, ListOK, vars
  <2>6. NamesOK' /\ ProbesOK'
    BY <1>8 DEF RewriteInductive, NamesOK, ProbesOK, Exporting, Own, EnterProbe, ExitProbes, Returns,
                vars
  <2>7. OwnOK'
    BY <1>8 DEF RewriteInductive, OwnOK, OpOK, Probing, Exporting, vars
  <2>8. StackOK'
    BY <1>8 DEF RewriteInductive, StackOK, Probing, Exporting, vars
  <2> QED BY <1>8, <2>4, <2>5, <2>6, <2>7, <2>8 DEF RewriteInductive, vars
<1> QED BY <1>1, <1>2, <1>3, <1>4, <1>5, <1>6, <1>7, <1>8 DEF Next, Step

\* It holds of an empty list.
LEMMA StartsInductive == Init => RewriteInductive
<1> SUFFICES ASSUME Init PROVE RewriteInductive
  OBVIOUS
<1>1. /\ stage = "import" /\ il = <<>> /\ op = <<>> /\ arg = <<>> /\ target = <<>>
      /\ clauses = <<>> /\ maxStack = 0
  BY DEF Init
<1>2. DOMAIN <<>> = {} /\ <<>> \in Seq(Nat \X (0 .. 3))
  OBVIOUS
<1>3. ListOK
  BY <1>1, <1>2 DEF ListOK, Ascending, Range
<1>4. NamesOK /\ OwnOK /\ ProbesOK /\ StackOK /\ LaidOut /\ Resolved /\ BodyOK
  BY <1>1 DEF NamesOK, OwnOK, ProbesOK, StackOK, LaidOut, Resolved, BodyOK, Probing, Exporting, Installed
<1> QED BY <1>1, <1>3, <1>4 DEF RewriteInductive

\* The method that is rewritten stays the same.
LEMMA RewriterInputStays == Spec => [](input \in Inputs)
<1>1. Init => input \in Inputs
  BY DEF Init
<1>2. input \in Inputs /\ [Next]_vars => (input \in Inputs)'
  BY DEF vars, Next, Step, Fails, Import, AddEnterProbe, AddExitProbe, Layout, Resolve, Install
<1> QED BY <1>1, <1>2, PTL DEF Spec

-----------------------------------------------------------------------------
(* The installed body.                                                     *)

\* Between neighbours in the order of the names there is nothing in the list.
LEMMA Neighbours ==
    ASSUME ListOK, NEW x \in DOMAIN op, NEW y \in DOMAIN op, Key(x) < Key(y),
           \A z \in DOMAIN op : ~(Key(x) < Key(z) /\ Key(z) < Key(y))
    PROVE  Place(y) = Place(x) + 1
<1>1. /\ Place(x) \in DOMAIN il /\ Place(y) \in DOMAIN il
      /\ DOMAIN il = 1 .. Len(il) /\ Len(il) \in Nat
  BY ListFacts
<1>2. Place(x) < Place(y)
  BY PlacesOrdered
<1>3. CASE Place(x) + 1 < Place(y)
  <2> DEFINE z == il[Place(x) + 1]
  <2>1. Place(x) + 1 \in DOMAIN il
    BY <1>1, <1>3
  <2>2. z \in DOMAIN op /\ Place(z) = Place(x) + 1
    BY <2>1, ListFacts
  <2> HIDE DEF z
  <2>3. Place(x) < Place(z) /\ Place(z) < Place(y)
    BY <1>1, <1>3, <2>2
  <2>4. Key(x) < Key(z) /\ Key(z) < Key(y)
    BY <2>2, <2>3, PlacesOrdered
  <2> QED BY <2>2, <2>4
<1> QED BY <1>1, <1>2, <1>3

\* The name with the least key comes first.
LEMMA FirstInList ==
    ASSUME ListOK, NEW x \in DOMAIN op, \A z \in DOMAIN op : ~(Key(z) < Key(x))
    PROVE  Place(x) = 1
<1>1. /\ Place(x) \in DOMAIN il
      /\ DOMAIN il = 1 .. Len(il) /\ Len(il) \in Nat
  BY ListFacts
<1>2. CASE 1 < Place(x)
  <2>1. 1 \in DOMAIN il
    BY <1>1
  <2>2. il[1] \in DOMAIN op /\ Place(il[1]) = 1
    BY <2>1, ListFacts
  <2>3. Key(il[1]) < Key(x)
    BY <1>2, <2>2, PlacesOrdered
  <2> QED BY <2>2, <2>3
<1> QED BY <1>1, <1>2

\* The body is the list.
LEMMA BodyFacts ==
    ASSUME input \in Inputs, RewriteInductive, Installed
    PROVE  /\ ListOK /\ LaidOut /\ Exporting
           /\ Len(body.code) = Len(il) /\ DOMAIN body.code = DOMAIN il
           /\ DOMAIN il = 1 .. Len(il) /\ Len(il) \in Nat
           /\ \A k \in DOMAIN il : /\ body.code[k].op = op[il[k]]
                                   /\ body.code[k].arg = arg[il[k]]
                                   /\ body.code[k].disp = disp[il[k]]
           /\ OpsOf(body.code) = ListOps /\ ArgsOf(body.code) = ListArgs
           /\ DOMAIN body.eh = DOMAIN input.eh
           /\ \A i \in DOMAIN input.eh :
                body.eh[i] = ExportClause(ImportClause(input.code, input.eh[i]))
<1>1. ListOK /\ LaidOut /\ Exporting /\ OwnOK /\ BodyOK
  BY DEF RewriteInductive, Installed, Exporting
<1>2. DOMAIN il = 1 .. Len(il) /\ Len(il) \in Nat
  BY <1>1, ListFacts
<1>3. /\ body.code = [k \in DOMAIN il |->
                        [op |-> op[il[k]], arg |-> arg[il[k]], disp |-> disp[il[k]]]]
      /\ body.eh = [i \in DOMAIN clauses |-> ExportClause(clauses[i])]
  BY <1>1 DEF BodyOK
<1>4. clauses = [i \in DOMAIN input.eh |-> ImportClause(input.code, input.eh[i])]
  BY <1>1 DEF OwnOK
<1>5. Len(body.code) = Len(il) /\ DOMAIN body.code = DOMAIN il
  BY <1>2, <1>3
<1>6. \A k \in DOMAIN il : /\ body.code[k].op = op[il[k]]
                           /\ body.code[k].arg = arg[il[k]]
                           /\ body.code[k].disp = disp[il[k]]
  BY <1>3
<1>7. OpsOf(body.code) = ListOps /\ ArgsOf(body.code) = ListArgs
  BY <1>5, <1>6 DEF OpsOf, ArgsOf, ListOps, ListArgs
<1>8. /\ DOMAIN body.eh = DOMAIN input.eh
      /\ \A i \in DOMAIN input.eh :
           body.eh[i] = ExportClause(ImportClause(input.code, input.eh[i]))
  BY <1>3, <1>4
<1> QED BY <1>1, <1>2, <1>5, <1>6, <1>7, <1>8

\* An offset of the layout is found again in the body.
LEMMA FoundInBody ==
    ASSUME input \in Inputs, RewriteInductive, Installed, NEW x \in DOMAIN op, x # Sentinel
    PROVE  PositionAt(OpsOf(body.code), offset[x]) = Place(x)
<1>1. ListOK /\ LaidOut /\ OpsOf(body.code) = ListOps
  BY BodyFacts
<1>2. offset[x] = OffsetsOf(ListOps)[Place(x)]
  BY <1>1, LayoutFacts DEF Installed
<1>3. ListOps \in Seq(Opcodes) /\ Len(ListOps) = Len(il)
  BY <1>1, OpsListed
<1>4. Place(x) \in 1 .. Len(ListOps) + 1
  BY <1>1, <1>3, ListFacts
<1> QED BY <1>1, <1>2, <1>3, <1>4, PositionsFound

\* A branch of the list leads where it points.
LEMMA TargetsInBody ==
    ASSUME input \in Inputs, RewriteInductive, Installed,
           NEW k \in DOMAIN il, HasTarget(op[il[k]]), target[il[k]] # Sentinel
    PROVE  TargetIn(body.code, k) = Place(target[il[k]])
<1>1. /\ ListOK /\ LaidOut /\ Exporting
      /\ OpsOf(body.code) = ListOps /\ ArgsOf(body.code) = ListArgs
      /\ body.code[k].disp = disp[il[k]]
  BY BodyFacts
<1>2. target[il[k]] \in DOMAIN op
  BY <1>1, ListFacts DEF ListOK
<1>3. disp[il[k]] = offset[target[il[k]]] - BaseOf(ListOps, ListArgs, k)
  BY DEF RewriteInductive, Resolved, Delta, Installed
<1>4. offset[target[il[k]]] \in Nat
  BY <1>1, <1>2, LayoutFacts DEF Installed
<1>5. BaseOf(ListOps, ListArgs, k) \in Int
  BY <1>1, BasesInList
<1>6. TargetIn(body.code, k) = PositionAt(OpsOf(body.code), offset[target[il[k]]])
  BY <1>1, <1>3, <1>4, <1>5 DEF TargetIn
<1> QED BY <1>2, <1>6, FoundInBody

\* The instructions of the method in the list.
LEMMA OwnInList ==
    ASSUME input \in Inputs, RewriteInductive, Exporting, NEW k \in DOMAIN input.code
    PROVE  /\ <<k, 0>> \in DOMAIN op /\ <<k, 0>> # Sentinel
           /\ Place(<<k, 0>>) \in DOMAIN il /\ il[Place(<<k, 0>>)] = <<k, 0>>
           /\ HasTarget(input.code[k].op) =>
                HasTarget(op[<<k, 0>>]) /\ target[<<k, 0>>] = <<TargetIn(input.code, k), 0>>
<1>1. ListOK /\ NamesOK /\ OwnOK
  BY DEF RewriteInductive
<1>2. <<k, 0>> \in DOMAIN op /\ k # 0
  BY <1>1, InputFacts DEF NamesOK, Own
<1>3. Place(<<k, 0>>) \in DOMAIN il /\ il[Place(<<k, 0>>)] = <<k, 0>>
  BY <1>1, <1>2, ListFacts
<1>4. ASSUME HasTarget(input.code[k].op)
      PROVE  HasTarget(op[<<k, 0>>]) /\ target[<<k, 0>>] = <<TargetIn(input.code, k), 0>>
  BY <1>1, <1>4 DEF OwnOK, OpOK, HasTarget, ShortBranch, LongBranch, Longer
<1> QED BY <1>2, <1>3, <1>4 DEF Sentinel

(***************************************************************************)
(* Branches keep their targets.                                            *)
(***************************************************************************)
LEMMA LandsInBody ==
    ASSUME input \in Inputs, RewriteInductive
    PROVE  BranchesLand
<1> SUFFICES ASSUME Installed, NEW k \in DOMAIN input.code, HasTarget(input.code[k].op)
             PROVE  TargetIn(body.code, Place(<<k, 0>>)) = Place(<<TargetIn(input.code, k), 0>>)
  BY DEF BranchesLand
<1> DEFINE t == TargetIn(input.code, k)
           n == Place(<<k, 0>>)
<1>1. Exporting /\ t \in DOMAIN input.code
  BY InputFacts DEF Installed, Exporting
<1>2. <<t, 0>> # Sentinel
  <2> HIDE DEF t
  <2> QED BY <1>1, OwnInList
<1>3. n \in DOMAIN il /\ HasTarget(op[il[n]]) /\ target[il[n]] = <<t, 0>>
  BY <1>1, OwnInList
<1> HIDE DEF t, n
<1>4. TargetIn(body.code, n) = Place(<<t, 0>>)
  BY <1>2, <1>3, TargetsInBody
<1> QED BY <1>4 DEF t, n

-----------------------------------------------------------------------------
(* Exception clauses.                                                      *)

\* A range from the offset of one instruction to that of another covers what
\* lies between them.
LEMMA RangeCovers ==
    ASSUME NEW code, OpsOf(code) \in Seq(Opcodes), Len(OpsOf(code)) = Len(code),
           DOMAIN code = 1 .. Len(code),
           NEW p \in 1 .. Len(code) + 1, NEW q \in 1 .. Len(code) + 1,
           NEW from \in Int, NEW len \in Int,
           OffsetsOf(OpsOf(code))[p] = from, OffsetsOf(OpsOf(code))[q] = from + len
    PROVE  Covered(code, from, len) = p .. q - 1
<1> DEFINE at == OffsetsOf(OpsOf(code))
<1>1. Len(code) \in Nat /\ at \in [1 .. Len(code) + 1 -> Nat]
  BY OffsetsType, LenProperties
<1>2. ASSUME NEW j \in 1 .. Len(code) + 1, NEW k \in 1 .. Len(code) + 1
      PROVE  at[j] < at[k] <=> j < k
  <2>1. j < k => at[j] < at[k]
    BY OffsetsGrow
  <2>2. k < j => at[k] < at[j]
    BY OffsetsGrow
  <2> HIDE DEF at
  <2> QED BY <1>1, <2>1, <2>2
<1>3. ASSUME NEW k \in DOMAIN code
      PROVE  from <= at[k] /\ at[k] < from + len <=> k \in p .. q - 1
  <2>1. k \in 1 .. Len(code) + 1
    BY <1>1
  <2>2. (at[k] < at[p] <=> k < p) /\ (at[k] < at[q] <=> k < q)
    BY <1>2, <2>1
  <2> HIDE DEF at
  <2>3. at[p] = from /\ at[q] = from + len
    BY DEF at
  <2> QED BY <1>1, <2>1, <2>2, <2>3
<1>4. p .. q - 1 \subseteq DOMAIN code
  BY <1>1
<1>5. Covered(code, from, len) = {k \in DOMAIN code : from <= at[k] /\ at[k] < from + len}
  BY DEF Covered
<1> HIDE DEF at
<1> QED BY <1>3, <1>4, <1>5

\* Between two instructions of the method without a RET the list has the
\* instructions of the method and nothing else.
LEMMA OwnBetween ==
    ASSUME input \in Inputs, RewriteInductive, Exporting,
           NEW p \in DOMAIN input.code, NEW q \in p .. Len(input.code) + 1,
           \A k \in p .. q - 1 : input.code[k].op # "ret",
           NEW to \in 1 .. Len(il) + 1,
           \A j \in DOMAIN il : j < to <=> Key(il[j]) < 4 * q
    PROVE  Place(<<p, 0>>) .. to - 1 = {Place(<<k, 0>>) : k \in p .. q - 1}
<1> DEFINE P == Place(<<p, 0>>)
<1>1. ListOK /\ DOMAIN il = 1 .. Len(il) /\ Len(il) \in Nat
  BY ListFacts DEF RewriteInductive
<1>2. DOMAIN input.code = 1 .. Len(input.code) /\ Len(input.code) \in Nat
  BY InputFacts
<1>3. p \in Nat /\ q \in Nat /\ 1 <= p /\ \A k \in p .. q - 1 : k \in DOMAIN input.code
  BY <1>2
<1>4. P \in DOMAIN il /\ il[P] = <<p, 0>> /\ <<p, 0>> \in DOMAIN op
  BY OwnInList
<1>5. ASSUME NEW j \in P .. to - 1 PROVE \E k \in p .. q - 1 : j = Place(<<k, 0>>)
  <2>1. j \in DOMAIN il /\ j < to /\ ~(j < P)
    BY <1>1, <1>4
  <2>2. il[j] \in DOMAIN op /\ Place(il[j]) = j
    BY <1>1, <2>1, ListFacts
  <2>3. Key(il[j]) < 4 * q
    BY <2>1
  <2>4. ~(Key(il[j]) < Key(<<p, 0>>))
    BY <1>1, <1>4, <2>1, <2>2, PlacesOrdered
  <2>5. Key(<<p, 0>>) = 4 * p
    BY <1>3 DEF Key
  <2>6. il[j] \in Names
    BY <1>1, <2>2, ListFacts
  <2>7. PICK n \in Nat, i \in 0 .. 3 : il[j] = <<n, i>>
    BY <2>6 DEF Names
  <2>8. Key(il[j]) = 4 * n + i
    BY <2>7 DEF Key
  <2>9. n \in p .. q - 1
    BY <1>3, <2>3, <2>4, <2>5, <2>8
  <2>10. n \in DOMAIN input.code /\ input.code[n].op # "ret" /\ n # 0
    BY <1>3, <2>9
  <2>11. i = 0
    <3>1. n \notin Returns
      BY <2>10 DEF Returns
    <3>2. DOMAIN op = Own \cup EnterProbe \cup ExitProbes
      BY DEF RewriteInductive, NamesOK
    <3> QED BY <2>2, <2>7, <2>10, <3>1, <3>2 DEF Own, EnterProbe, ExitProbes
  <2> QED BY <2>2, <2>7, <2>9, <2>11
<1>6. ASSUME NEW k \in p .. q - 1 PROVE Place(<<k, 0>>) \in P .. to - 1
  <2>1. k \in DOMAIN input.code /\ k \in Nat
    BY <1>2, <1>3
  <2>2. <<k, 0>> \in DOMAIN op /\ Place(<<k, 0>>) \in DOMAIN il /\ il[Place(<<k, 0>>)] = <<k, 0>>
    BY <2>1, OwnInList
  <2>3. Key(<<k, 0>>) < 4 * q /\ ~(Key(<<k, 0>>) < Key(<<p, 0>>))
    BY <1>3, <2>1 DEF Key
  <2>4. Place(<<k, 0>>) < to
    BY <2>2, <2>3
  <2>5. ~(Place(<<k, 0>>) < P)
    BY <1>1, <1>4, <2>2, <2>3, PlacesOrdered
  <2> QED BY <1>1, <1>4, <2>2, <2>4, <2>5
<1> HIDE DEF P
<1>7. P .. to - 1 = {Place(<<k, 0>>) : k \in p .. q - 1}
  BY <1>5, <1>6
<1> QED BY <1>7 DEF P

\* Where a range ends that runs to an instruction of the method, or its end.
LEMMA EndBefore ==
    ASSUME input \in Inputs, RewriteInductive, Installed, NEW q \in 1 .. Len(input.code) + 1
    PROVE  \E to \in 1 .. Len(il) + 1 :
             /\ offset[NameOf(input.code, q)] = OffsetsOf(ListOps)[to]
             /\ \A j \in DOMAIN il : j < to <=> Key(il[j]) < 4 * q
<1>1. /\ ListOK /\ LaidOut /\ Exporting
      /\ DOMAIN il = 1 .. Len(il) /\ Len(il) \in Nat
  BY BodyFacts
<1>2. DOMAIN input.code = 1 .. Len(input.code) /\ Len(input.code) \in Nat
  BY InputFacts
<1>3. CASE q = Len(input.code) + 1
  <2>1. offset[NameOf(input.code, q)] = OffsetsOf(ListOps)[Len(il) + 1]
    BY <1>1, <1>3, NamesOf, LayoutFacts DEF Installed
  <2>2. ASSUME NEW j \in DOMAIN il PROVE Key(il[j]) < 4 * q
    <3>1. il[j] \in Own \cup EnterProbe \cup ExitProbes
      BY <1>1, ListFacts DEF RewriteInductive, NamesOK
    <3>2. \E n \in 0 .. Len(input.code), i \in 0 .. 3 : il[j] = <<n, i>>
      BY <1>2, <3>1 DEF Own, EnterProbe, ExitProbes, Returns
    <3>3. PICK n \in 0 .. Len(input.code), i \in 0 .. 3 : il[j] = <<n, i>>
      BY <3>2
    <3>4. Key(il[j]) = 4 * n + i
      BY <3>3 DEF Key
    <3> QED BY <1>2, <1>3, <3>4
  <2>3. \A j \in DOMAIN il : j < Len(il) + 1
    BY <1>1
  <2> QED BY <1>1, <2>1, <2>2, <2>3
<1>4. CASE q # Len(input.code) + 1
  <2>1. q \in DOMAIN input.code /\ NameOf(input.code, q) = <<q, 0>>
    <3>1. q \in DOMAIN input.code
      BY <1>2, <1>4
    <3> QED BY <1>4, <3>1, NamesOf
  <2>2. <<q, 0>> \in DOMAIN op /\ <<q, 0>> # Sentinel /\ Place(<<q, 0>>) \in DOMAIN il
    BY <1>1, <2>1, OwnInList
  <2>3. offset[<<q, 0>>] = OffsetsOf(ListOps)[Place(<<q, 0>>)]
    BY <1>1, <2>2, LayoutFacts DEF Installed
  <2>4. Key(<<q, 0>>) = 4 * q
    BY <1>2 DEF Key
  <2>5. ASSUME NEW j \in DOMAIN il PROVE j < Place(<<q, 0>>) <=> Key(il[j]) < 4 * q
    <3>1. il[j] \in DOMAIN op /\ Place(il[j]) = j
      BY <1>1, ListFacts
    <3> QED BY <1>1, <2>2, <2>4, <3>1, PlacesOrdered
  <2> QED BY <1>1, <2>1, <2>2, <2>3, <2>5
<1> QED BY <1>3, <1>4

\* The position of an offset in the method.
At(off) == PositionAt(OpsOf(input.code), off)

\* What ClauseFits says, for the first and last instructions of a clause.
Bounds(c, p, q, h, e) ==
           /\ p \in DOMAIN input.code /\ q \in p .. Len(input.code) + 1
           /\ h \in DOMAIN input.code /\ e \in h + 1 .. Len(input.code) + 1
           /\ Covered(input.code, c.try, c.tryLen) = p .. q - 1
           /\ Covered(input.code, c.handler, c.handlerLen) = h .. e - 1
           /\ \A k \in p .. q - 1 : input.code[k].op # "ret"
           /\ \A k \in h .. e - 1 : input.code[k].op # "ret"
           /\ c.filter = -1 \/ At(c.filter) \in DOMAIN input.code

\* This follows for the clauses of the method from ClauseFits.
LEMMA ClauseBounds ==
    ASSUME input \in Inputs, NEW i \in DOMAIN input.eh
    PROVE  Bounds(input.eh[i], At(input.eh[i].try), At(input.eh[i].try + input.eh[i].tryLen),
                  At(input.eh[i].handler), At(input.eh[i].handler + input.eh[i].handlerLen))
<1> DEFINE code == input.code
           ops  == OpsOf(code)
           c == input.eh[i]
           p == At(c.try)
           q == At(c.try + c.tryLen)
           h == At(c.handler)
           e == At(c.handler + c.handlerLen)
<1>1. /\ DOMAIN code = 1 .. Len(code) /\ Len(code) \in Nat
      /\ ops \in Seq(Opcodes) /\ Len(ops) = Len(code)
  BY InputFacts
<1>2. ClauseFits(code, c)
  BY InputFacts
<1>3. c \in [try : Nat, tryLen : Nat, handler : Nat, handlerLen : Nat, filter : Nat \cup {-1}]
  <2>1. input.eh \in Seq([try : Nat, tryLen : Nat, handler : Nat, handlerLen : Nat,
                           filter : Nat \cup {-1}])
    BY BodyAssumption DEF Bodies
  <2> QED BY <2>1, ElementOfSeq, LenProperties
<1>4. c.try \in Nat /\ c.tryLen \in Nat /\ c.handler \in Nat /\ c.handlerLen \in Nat
  BY <1>3
<1>5. /\ p \in DOMAIN code /\ q \in p .. Len(code) + 1
      /\ h \in DOMAIN code /\ e \in h + 1 .. Len(code) + 1
      /\ c.filter = -1 \/ PositionAt(ops, c.filter) \in DOMAIN code
      /\ \A k \in Covered(code, c.try, c.tryLen) \cup Covered(code, c.handler, c.handlerLen) :
           code[k].op # "ret"
  BY <1>2 DEF ClauseFits, At
<1>6. \A k \in {p, q, h, e} : k \in 1 .. Len(code) + 1 /\ k # 0
  <2> HIDE DEF code
  <2> QED BY <1>1, <1>5
<1>7. /\ OffsetsOf(ops)[p] = c.try /\ OffsetsOf(ops)[q] = c.try + c.tryLen
      /\ OffsetsOf(ops)[h] = c.handler /\ OffsetsOf(ops)[e] = c.handler + c.handlerLen
  <2> HIDE DEF ops
  <2>1. /\ p = PositionAt(ops, c.try) /\ q = PositionAt(ops, c.try + c.tryLen)
        /\ h = PositionAt(ops, c.handler) /\ e = PositionAt(ops, c.handler + c.handlerLen)
    BY DEF ops, At
  <2> HIDE DEF p, q, h, e
  <2> QED BY <1>1, <1>6, <2>1, PositionsRight
<1> HIDE DEF p, q, h, e
<1>8. Covered(code, c.try, c.tryLen) = p .. q - 1
  <2> HIDE DEF code
  <2> QED BY <1>1, <1>4, <1>6, <1>7, RangeCovers DEF ops
<1>9. Covered(code, c.handler, c.handlerLen) = h .. e - 1
  <2> HIDE DEF code
  <2> QED BY <1>1, <1>4, <1>6, <1>7, RangeCovers DEF ops
<1> HIDE DEF code
<1>10. /\ \A k \in p .. q - 1 : code[k].op # "ret"
       /\ \A k \in h .. e - 1 : code[k].op # "ret"
  BY <1>5, <1>8, <1>9
<1>11. Bounds(c, p, q, h, e)
  BY <1>5, <1>8, <1>9, <1>10 DEF Bounds, code, ops, At
<1> QED BY <1>11 DEF c, p, q, h, e

\* A range of the body between the offsets of two instructions.
LEMMA CoveredInBody ==
    ASSUME input \in Inputs, RewriteInductive, Installed,
           NEW p \in DOMAIN input.code, NEW q \in p .. Len(input.code) + 1,
           \A k \in p .. q - 1 : input.code[k].op # "ret",
           NEW to \in 1 .. Len(il) + 1,
           \A j \in DOMAIN il : j < to <=> Key(il[j]) < 4 * q,
           offset[<<p, 0>>] \in Int
    PROVE  Covered(body.code, offset[<<p, 0>>], OffsetsOf(ListOps)[to] - offset[<<p, 0>>])
             = {Place(<<k, 0>>) : k \in p .. q - 1}
<1> DEFINE P == Place(<<p, 0>>)
           c == body.code
           from == offset[<<p, 0>>]
           len == OffsetsOf(ListOps)[to] - from
<1>1. /\ ListOK /\ LaidOut /\ Exporting
      /\ DOMAIN c = 1 .. Len(c) /\ Len(c) = Len(il) /\ Len(il) \in Nat
      /\ OpsOf(c) = ListOps /\ DOMAIN il = 1 .. Len(il)
  BY BodyFacts
<1>2. OpsOf(c) \in Seq(Opcodes) /\ Len(OpsOf(c)) = Len(c)
  BY <1>1, OpsListed
<1>3. P \in DOMAIN il /\ <<p, 0>> \in DOMAIN op /\ <<p, 0>> # Sentinel
  BY <1>1, OwnInList
<1>4. OffsetsOf(OpsOf(c))[P] = from
  BY <1>1, <1>3, LayoutFacts DEF Installed
<1>5. OffsetsOf(OpsOf(c))[to] = from + len /\ len \in Int
  <2>1. OffsetsOf(ListOps)[to] \in Int
    BY <1>1, OpsListed, OffsetsType
  <2> QED BY <1>1, <2>1
<1>6. P \in 1 .. Len(c) + 1 /\ to \in 1 .. Len(c) + 1
  BY <1>1, <1>3
<1>7. P .. to - 1 = {Place(<<k, 0>>) : k \in p .. q - 1}
  BY <1>1, OwnBetween
<1> HIDE DEF P, c, from, len
<1>8. Covered(c, from, len) = P .. to - 1
  <2>1. from \in Int
    BY DEF from
  <2> QED BY <1>1, <1>2, <1>4, <1>5, <1>6, <2>1, RangeCovers
<1> QED BY <1>7, <1>8 DEF c, from, len

\* The sentinel is not an instruction.
LEMMA SentinelApart ==
    ASSUME input \in Inputs, RewriteInductive, Exporting
    PROVE  Sentinel \notin DOMAIN op
<1>1. DOMAIN op = Own \cup EnterProbe \cup ExitProbes
  BY DEF RewriteInductive, NamesOK
<1>2. DOMAIN input.code = 1 .. Len(input.code) /\ Len(input.code) \in Nat
  BY InputFacts
<1> QED BY <1>1, <1>2 DEF Own, EnterProbe, ExitProbes, Sentinel

\* A handler's last instruction and where the one behind it starts.
LEMMA EndOfHandler ==
    ASSUME input \in Inputs, RewriteInductive, Installed, NEW k \in DOMAIN input.code,
           input.code[k].op # "ret"
    PROVE  \E to \in 1 .. Len(il) + 1 :
             /\ NextOffset(<<k, 0>>) = OffsetsOf(ListOps)[to]
             /\ \A j \in DOMAIN il : j < to <=> Key(il[j]) < 4 * (k + 1)
<1> DEFINE P == Place(<<k, 0>>)
<1>1. /\ ListOK /\ LaidOut /\ Exporting
      /\ DOMAIN il = 1 .. Len(il) /\ Len(il) \in Nat
  BY BodyFacts
<1>2. DOMAIN input.code = 1 .. Len(input.code) /\ Len(input.code) \in Nat /\ k \in Nat /\ k # 0
  BY InputFacts
<1>3. P \in DOMAIN il /\ il[P] = <<k, 0>> /\ <<k, 0>> \in DOMAIN op
  BY <1>1, OwnInList
<1>4. NextOffset(<<k, 0>>) = IF P = Len(il) THEN offset[Sentinel] ELSE offset[il[P + 1]]
  BY DEF NextOffset, Place
<1>5. NextOffset(<<k, 0>>) = OffsetsOf(ListOps)[P + 1]
  <2>1. CASE P = Len(il)
    BY <1>1, <1>4, <2>1, LayoutFacts DEF Installed
  <2>2. CASE P # Len(il)
    <3>1. P + 1 \in DOMAIN il
      BY <1>1, <1>3, <2>2
    <3>2. il[P + 1] \in DOMAIN op /\ Place(il[P + 1]) = P + 1
      BY <1>1, <3>1, ListFacts
    <3>3. il[P + 1] # Sentinel
      BY <1>1, <3>2, SentinelApart
    <3>4. offset[il[P + 1]] = OffsetsOf(ListOps)[P + 1]
      BY <1>1, <3>2, <3>3, LayoutFacts DEF Installed
    <3> QED BY <1>4, <2>2, <3>4
  <2> QED BY <2>1, <2>2
<1>6. ASSUME NEW j \in DOMAIN il PROVE j < P + 1 <=> Key(il[j]) < 4 * (k + 1)
  <2>1. il[j] \in DOMAIN op /\ Place(il[j]) = j /\ il[j] \in Names
    BY <1>1, ListFacts
  <2>2. P < j <=> Key(<<k, 0>>) < Key(il[j])
    BY <1>1, <1>3, <2>1, PlacesOrdered
  <2>3. Key(<<k, 0>>) = 4 * k
    BY <1>2 DEF Key
  <2>4. PICK n \in Nat, i \in 0 .. 3 : il[j] = <<n, i>>
    BY <2>1 DEF Names
  <2>5. Key(il[j]) = 4 * n + i
    BY <2>4 DEF Key
  <2>6. n = k => i = 0
    <3>1. k \notin Returns
      BY DEF Returns
    <3>2. DOMAIN op = Own \cup EnterProbe \cup ExitProbes
      BY <1>1 DEF RewriteInductive, NamesOK
    <3> QED BY <1>2, <2>1, <2>4, <3>1, <3>2 DEF Own, EnterProbe, ExitProbes
  <2>7. ~(4 * k < 4 * n + i) <=> 4 * n + i < 4 * (k + 1)
    BY <1>2, <2>6
  <2>8. j < P + 1 <=> ~(P < j)
    BY <1>1, <1>3
  <2> QED BY <2>2, <2>3, <2>5, <2>7, <2>8
<1>7. P + 1 \in 1 .. Len(il) + 1
  BY <1>1, <1>3
<1> HIDE DEF P
<1> QED BY <1>5, <1>6, <1>7

\* What becomes of clause c of the method: d protects and handles with the
\* same instructions, and is entered where c was.
Kept(c, d) ==
    /\ SameCover(c.try, c.tryLen, d.try, d.tryLen)
    /\ SameCover(c.handler, c.handlerLen, d.handler, d.handlerLen)
    /\ c.filter = -1 <=> d.filter = -1
    /\ c.filter # -1 => /\ At(c.filter) \in DOMAIN input.code
                        /\ Place(<<At(c.filter), 0>>) = PositionAt(OpsOf(body.code), d.filter)
    /\ At(c.handler) \in DOMAIN input.code
    /\ Place(<<At(c.handler), 0>>) = PositionAt(OpsOf(body.code), d.handler)

(***************************************************************************)
(* Exception clauses protect, and handle with, the same instructions.      *)
(***************************************************************************)
LEMMA CoversInBody ==
    ASSUME input \in Inputs, RewriteInductive, Installed, NEW i \in DOMAIN input.eh
    PROVE  Kept(input.eh[i], body.eh[i])
<1> DEFINE c == input.eh[i]
           d == body.eh[i]
           p == At(c.try)
           q == At(c.try + c.tryLen)
           h == At(c.handler)
           e == At(c.handler + c.handlerLen)
           f == At(c.filter)
           code == input.code
<1>1. /\ ListOK /\ LaidOut /\ Exporting
      /\ d = ExportClause(ImportClause(code, c))
  BY BodyFacts
<1>2. Bounds(c, p, q, h, e)
  BY ClauseBounds
<1>3. DOMAIN code = 1 .. Len(code) /\ Len(code) \in Nat
  BY InputFacts
<1>4. /\ d.try = offset[NameOf(code, p)]
      /\ d.tryLen = offset[NameOf(code, q)] - offset[NameOf(code, p)]
      /\ d.handler = offset[NameOf(code, h)]
      /\ d.handlerLen = NextOffset(NameOf(code, e - 1)) - offset[NameOf(code, h)]
      /\ c.filter = -1 => d.filter = -1
      /\ c.filter # -1 => d.filter = IF NameOf(code, f) = Sentinel THEN -1
                                    ELSE offset[NameOf(code, f)]
  <2> HIDE DEF d, c
  <2> QED BY <1>1 DEF ExportClause, ImportClause, At
<1> HIDE DEF c, d, p, q, h, e, f
<1>5. /\ e - 1 \in DOMAIN code /\ (e - 1) + 1 = e /\ e - 1 \in h .. e - 1
      /\ e \in h .. Len(code) + 1 /\ q \in 1 .. Len(code) + 1
  BY <1>2, <1>3 DEF Bounds
<1>6. /\ p \in DOMAIN code /\ q \in p .. Len(code) + 1
      /\ h \in DOMAIN code
      /\ Covered(code, c.try, c.tryLen) = p .. q - 1
      /\ Covered(code, c.handler, c.handlerLen) = h .. e - 1
      /\ \A k \in p .. q - 1 : code[k].op # "ret"
      /\ \A k \in h .. e - 1 : code[k].op # "ret"
      /\ c.filter = -1 \/ f \in DOMAIN code
  BY <1>2 DEF Bounds, f
<1>7. \A k \in DOMAIN code : /\ NameOf(code, k) = <<k, 0>> /\ <<k, 0>> # Sentinel
                             /\ <<k, 0>> \in DOMAIN op /\ offset[<<k, 0>>] \in Nat
  <2> TAKE k \in DOMAIN code
  <2>1. NameOf(code, k) = <<k, 0>>
    BY <1>3 DEF NameOf
  <2>2. <<k, 0>> \in DOMAIN op /\ <<k, 0>> # Sentinel
    BY <1>1, OwnInList
  <2>3. offset[<<k, 0>>] \in Nat
    BY <1>1, <2>2, LayoutFacts DEF Installed
  <2> QED BY <2>1, <2>2, <2>3
<1>8. \A k \in DOMAIN code : PositionAt(OpsOf(body.code), offset[<<k, 0>>]) = Place(<<k, 0>>)
  BY <1>7, FoundInBody
<1>9. SameCover(c.try, c.tryLen, d.try, d.tryLen)
  <2>1. PICK to \in 1 .. Len(il) + 1 :
          /\ offset[NameOf(code, q)] = OffsetsOf(ListOps)[to]
          /\ \A j \in DOMAIN il : j < to <=> Key(il[j]) < 4 * q
    BY <1>5, EndBefore
  <2>2. d.try = offset[<<p, 0>>] /\ d.tryLen = OffsetsOf(ListOps)[to] - offset[<<p, 0>>]
    BY <1>4, <1>6, <1>7, <2>1
  <2>3. offset[<<p, 0>>] \in Int
    BY <1>6, <1>7
  <2>4. Covered(body.code, d.try, d.tryLen) = {Place(<<k, 0>>) : k \in p .. q - 1}
    BY <1>1, <1>6, <2>1, <2>2, <2>3, CoveredInBody
  <2> QED BY <1>6, <2>4 DEF SameCover
<1>10. SameCover(c.handler, c.handlerLen, d.handler, d.handlerLen)
  <2>0. code[e - 1].op # "ret"
    BY <1>5, <1>6
  <2>1. PICK to \in 1 .. Len(il) + 1 :
          /\ NextOffset(<<e - 1, 0>>) = OffsetsOf(ListOps)[to]
          /\ \A j \in DOMAIN il : j < to <=> Key(il[j]) < 4 * ((e - 1) + 1)
    BY <1>5, <2>0, EndOfHandler
  <2>2. d.handler = offset[<<h, 0>>] /\ d.handlerLen = OffsetsOf(ListOps)[to] - offset[<<h, 0>>]
    BY <1>4, <1>5, <1>6, <1>7, <2>1
  <2>3. offset[<<h, 0>>] \in Int
    BY <1>6, <1>7
  <2>4. \A j \in DOMAIN il : j < to <=> Key(il[j]) < 4 * e
    BY <1>5, <2>1
  <2>5. Covered(body.code, d.handler, d.handlerLen) = {Place(<<k, 0>>) : k \in h .. e - 1}
    <3>1. h \in DOMAIN code /\ e \in h .. Len(code) + 1 /\ \A k \in h .. e - 1 : code[k].op # "ret"
      BY <1>5, <1>6
    <3>2. Covered(body.code, offset[<<h, 0>>], OffsetsOf(ListOps)[to] - offset[<<h, 0>>])
            = {Place(<<k, 0>>) : k \in h .. e - 1}
      BY <2>3, <2>4, <3>1, CoveredInBody
    <3> QED BY <2>2, <3>2
  <2> QED BY <1>6, <2>5 DEF SameCover
<1>11. c.filter # -1 => d.filter = offset[<<f, 0>>] /\ f \in DOMAIN code /\ d.filter \in Nat
  BY <1>4, <1>6, <1>7
<1>12. /\ c.filter = -1 <=> d.filter = -1
       /\ c.filter # -1 => f \in DOMAIN code /\ Place(<<f, 0>>) = PositionAt(OpsOf(body.code), d.filter)
  <2>1. -1 \notin Nat
    OBVIOUS
  <2> QED BY <1>4, <1>8, <1>11, <2>1
<1>13. h \in DOMAIN code /\ Place(<<h, 0>>) = PositionAt(OpsOf(body.code), d.handler)
  BY <1>4, <1>6, <1>7, <1>8
<1>14. Kept(c, d)
  BY <1>9, <1>10, <1>12, <1>13 DEF Kept, f, h
<1> QED BY <1>14 DEF c, d

\* So all clauses of the method are kept.
LEMMA CoversKept ==
    ASSUME input \in Inputs, RewriteInductive
    PROVE  ClausesKept
BY CoversInBody DEF ClausesKept, Kept, At

-----------------------------------------------------------------------------
(* Probes on every path.                                                   *)

\* The probes in the list: where they are and what surrounds them.
LEMMA ProbesInList ==
    ASSUME input \in Inputs, RewriteInductive, Exporting
    PROVE  /\ <<0, 1>> \in DOMAIN op /\ <<0, 2>> \in DOMAIN op
           /\ Place(<<0, 1>>) = 1 /\ Place(<<0, 2>>) = 2
           /\ op[<<0, 1>>] = "ldc" /\ op[<<0, 2>>] = "enter"
           /\ \A k \in Returns :
                /\ <<k, 2>> \in DOMAIN op /\ <<k, 3>> \in DOMAIN op
                /\ Place(<<k, 3>>) = Place(<<k, 2>>) + 1
                /\ op[<<k, 2>>] = "exit" /\ op[<<k, 3>>] = "ret"
<1>1. /\ ListOK /\ DOMAIN op = Own \cup EnterProbe \cup ExitProbes
      /\ op[<<0, 1>>] = "ldc" /\ op[<<0, 2>>] = "enter"
      /\ \A k \in Returns, j \in 1 .. 3 : op[<<k, j>>] = ExitOps(<<k, j>>)
  BY DEF RewriteInductive, NamesOK, ProbesOK
<1>2. DOMAIN input.code = 1 .. Len(input.code) /\ Len(input.code) \in Nat
  BY InputFacts
<1>3. <<0, 1>> \in DOMAIN op /\ <<0, 2>> \in DOMAIN op
  BY <1>1 DEF EnterProbe
<1>4. DOMAIN op \subseteq Names
  BY <1>1, ListFacts
<1>5. ASSUME NEW z \in DOMAIN op
      PROVE  \/ z[1] \in DOMAIN input.code /\ Key(z) \in Nat /\ Key(z) >= 4
             \/ z = <<0, 1>>
             \/ z = <<0, 2>>
  <2>1. z \in Own \cup ExitProbes \/ z = <<0, 1>> \/ z = <<0, 2>>
    BY <1>1 DEF EnterProbe
  <2>2. z \in Own \cup ExitProbes => \E k \in DOMAIN input.code, j \in 0 .. 3 : z = <<k, j>>
    BY DEF Own, ExitProbes, Returns
  <2>3. CASE z \in Own \cup ExitProbes
    <3>1. PICK k \in DOMAIN input.code, j \in 0 .. 3 : z = <<k, j>>
      BY <2>2, <2>3
    <3>2. z[1] = k /\ Key(z) = 4 * k + j
      BY <3>1 DEF Key
    <3> QED BY <1>2, <3>2
  <2> QED BY <2>1, <2>3
<1>6. Key(<<0, 1>>) = 1 /\ Key(<<0, 2>>) = 2
  BY DEF Key
<1>7. Place(<<0, 1>>) = 1
  <2>1. \A z \in DOMAIN op : ~(Key(z) < Key(<<0, 1>>))
    BY <1>5, <1>6
  <2> QED BY <1>1, <1>3, <2>1, FirstInList
<1>8. Place(<<0, 2>>) = 2
  <2>1. \A z \in DOMAIN op : ~(Key(<<0, 1>>) < Key(z) /\ Key(z) < Key(<<0, 2>>))
    BY <1>5, <1>6
  <2>2. Key(<<0, 1>>) < Key(<<0, 2>>)
    BY <1>6
  <2> QED BY <1>1, <1>3, <1>7, <2>1, <2>2, Neighbours
<1>9. ASSUME NEW k \in Returns
      PROVE  /\ <<k, 2>> \in DOMAIN op /\ <<k, 3>> \in DOMAIN op
             /\ Place(<<k, 3>>) = Place(<<k, 2>>) + 1
             /\ op[<<k, 2>>] = "exit" /\ op[<<k, 3>>] = "ret"
  <2>1. <<k, 2>> \in DOMAIN op /\ <<k, 3>> \in DOMAIN op
    BY <1>1 DEF ExitProbes
  <2>2. k \in Nat
    BY <1>2 DEF Returns
  <2>3. Key(<<k, 2>>) = 4 * k + 2 /\ Key(<<k, 3>>) = 4 * k + 3
    BY DEF Key
  <2>4. \A z \in DOMAIN op : ~(Key(<<k, 2>>) < Key(z) /\ Key(z) < Key(<<k, 3>>))
    <3>1. \A z \in DOMAIN op : Key(z) \in Nat
      BY <1>4, Keys
    <3> QED BY <2>2, <2>3, <3>1
  <2>5. Place(<<k, 3>>) = Place(<<k, 2>>) + 1
    BY <1>1, <2>1, <2>2, <2>3, <2>4, Neighbours
  <2>6. op[<<k, 2>>] = "exit" /\ op[<<k, 3>>] = "ret"
    <3>1. \A j \in 1 .. 3 : op[<<k, j>>] = ExitOps(<<k, j>>)
      BY <1>1
    <3>2. 2 \in 1 .. 3 /\ 3 \in 1 .. 3
      OBVIOUS
    <3>3. op[<<k, 2>>] = ExitOps(<<k, 2>>) /\ op[<<k, 3>>] = ExitOps(<<k, 3>>)
      BY <3>1, <3>2, Zenon
    <3> QED BY <3>3 DEF ExitOps
  <2> QED BY <2>1, <2>5, <2>6
<1> QED BY <1>1, <1>3, <1>7, <1>8, <1>9

\* A switch is still followed by its targets.
LEMMA SwitchesInList ==
    ASSUME input \in Inputs, RewriteInductive, Exporting,
           NEW n \in DOMAIN input.code, input.code[n].op = "switch"
    PROVE  \A i \in 1 .. input.code[n].arg :
             /\ n + i \in DOMAIN input.code
             /\ Place(<<n + i, 0>>) = Place(<<n, 0>>) + i
             /\ op[<<n + i, 0>>] = "arg"
<1> DEFINE a == input.code[n].arg
           S == {i \in Nat : Place(<<n + i, 0>>) = Place(<<n, 0>>) + i}
<1>1. /\ ListOK /\ DOMAIN op = Own \cup EnterProbe \cup ExitProbes /\ OwnOK
      /\ DOMAIN op \subseteq Names
  BY ListFacts DEF RewriteInductive, NamesOK
<1>2. /\ DOMAIN input.code = 1 .. Len(input.code) /\ Len(input.code) \in Nat
      /\ a \in Nat /\ n \in Nat
      /\ \A i \in 1 .. a : n + i \in DOMAIN input.code /\ input.code[n + i].op = "arg"
  BY InputFacts DEF SwitchesWhole
<1>3. ASSUME NEW i \in 0 .. a
      PROVE  n + i \in DOMAIN input.code /\ input.code[n + i].op \in {"switch", "arg"}
  BY <1>2
<1>4. Place(<<n, 0>>) \in Nat
  <2>1. Place(<<n, 0>>) \in DOMAIN il
    BY OwnInList
  <2> QED BY <1>1, <2>1, ListFacts
<1>5. 0 \in S
  BY <1>2, <1>4
<1>6. ASSUME NEW i \in 0 .. a - 1, i \in S PROVE i + 1 \in S
  <2> DEFINE m == n + i
  <2>1. i \in 0 .. a /\ i + 1 \in 0 .. a /\ m \in Nat /\ n + (i + 1) = m + 1
    BY <1>2
  <2>2. m \in DOMAIN input.code /\ input.code[m].op # "ret"
    BY <1>3, <2>1
  <2>3. m + 1 \in DOMAIN input.code
    BY <1>3, <2>1
  <2> HIDE DEF m
  <2>4. <<m, 0>> \in DOMAIN op /\ <<m + 1, 0>> \in DOMAIN op
    BY <2>2, <2>3, OwnInList
  <2>5. Key(<<m, 0>>) = 4 * m /\ Key(<<m + 1, 0>>) = 4 * (m + 1)
    BY <2>1 DEF Key
  <2>6. ASSUME NEW z \in DOMAIN op PROVE ~(Key(<<m, 0>>) < Key(z) /\ Key(z) < Key(<<m + 1, 0>>))
    <3>1. PICK k \in Nat, j \in 0 .. 3 : z = <<k, j>>
      BY <1>1 DEF Names
    <3>2. Key(z) = 4 * k + j
      BY <3>1 DEF Key
    <3>3. CASE k = m
      <4>1. m \notin Returns /\ m # 0
        BY <1>2, <2>2 DEF Returns
      <4>2. j = 0
        BY <1>1, <3>1, <3>3, <4>1 DEF Own, EnterProbe, ExitProbes
      <4> QED BY <2>1, <2>5, <3>2, <3>3, <4>2
    <3>4. CASE k # m
      BY <2>1, <2>5, <3>2, <3>4
    <3> QED BY <3>3, <3>4
  <2>7. Key(<<m, 0>>) < Key(<<m + 1, 0>>)
    BY <2>1, <2>5
  <2>8. Place(<<m + 1, 0>>) = Place(<<m, 0>>) + 1
    BY <1>1, <2>4, <2>6, <2>7, Neighbours
  <2>9. Place(<<m, 0>>) = Place(<<n, 0>>) + i
    BY <1>6 DEF m
  <2> QED BY <1>4, <2>1, <2>8, <2>9
<1>7. \A i \in 0 .. a : i \in S
  <2> HIDE DEF S, a
  <2> QED BY <1>2, <1>5, <1>6, UpTo
<1>8. ASSUME NEW i \in 1 .. a PROVE op[<<n + i, 0>>] = "arg"
  <2>1. n + i \in DOMAIN input.code /\ input.code[n + i].op = "arg"
    BY <1>2
  <2>2. OpOK(n + i)
    BY <1>1, <2>1 DEF OwnOK
  <2> QED BY <2>1, <2>2 DEF OpOK, Longer
<1> QED BY <1>2, <1>7, <1>8

\* Control enters the body, other than from above, at instructions of the
\* method only.
LEMMA EntriesInBody ==
    ASSUME input \in Inputs, RewriteInductive, Installed, NEW k \in EntryPoints(body.code, body.eh)
    PROVE  \E t \in DOMAIN input.code : k = Place(<<t, 0>>)
<1>1. /\ ListOK /\ Exporting /\ DOMAIN body.code = DOMAIN il
      /\ \A j \in DOMAIN il : body.code[j].op = op[il[j]]
      /\ DOMAIN body.eh = DOMAIN input.eh
  BY BodyFacts
<1>2. ASSUME NEW j \in DOMAIN body.code, HasTarget(body.code[j].op), k = TargetIn(body.code, j)
      PROVE  \E t \in DOMAIN input.code : k = Place(<<t, 0>>)
  <2>1. j \in DOMAIN il /\ il[j] \in DOMAIN op /\ HasTarget(op[il[j]])
    BY <1>1, <1>2, ListFacts
  <2>2. PICK n \in DOMAIN input.code : il[j] = <<n, 0>> /\ HasTarget(input.code[n].op)
    BY <1>1, <2>1, NamesHold DEF HasTarget, Longer, ShortBranch, LongBranch
  <2> DEFINE t == TargetIn(input.code, n)
  <2>3. t \in DOMAIN input.code /\ target[il[j]] = <<t, 0>>
    BY <1>1, <2>2, OwnInList, InputFacts
  <2> HIDE DEF t
  <2>4. <<t, 0>> # Sentinel
    BY <1>1, <2>3, OwnInList
  <2>5. TargetIn(body.code, j) = Place(<<t, 0>>)
    BY <2>1, <2>3, <2>4, TargetsInBody
  <2> QED BY <1>2, <2>3, <2>5
<1>3. ASSUME NEW i \in DOMAIN body.eh, k = PositionAt(OpsOf(body.code), Landing(body.eh[i]))
      PROVE  \E t \in DOMAIN input.code : k = Place(<<t, 0>>)
  <2>1. Kept(input.eh[i], body.eh[i])
    BY <1>1, CoversInBody
  <2>2. CASE body.eh[i].filter = -1
    <3>1. k = Place(<<At(input.eh[i].handler), 0>>) /\ At(input.eh[i].handler) \in DOMAIN input.code
      BY <1>3, <2>1, <2>2 DEF Kept, Landing
    <3> QED BY <3>1
  <2>3. CASE body.eh[i].filter # -1
    <3>1. k = Place(<<At(input.eh[i].filter), 0>>) /\ At(input.eh[i].filter) \in DOMAIN input.code
      BY <1>3, <2>1, <2>3 DEF Kept, Landing
    <3> QED BY <3>1
  <2> QED BY <2>2, <2>3
<1> QED BY <1>2, <1>3 DEF EntryPoints

\* No clause of the body covers a call of a hook.
LEMMA ProbesUncovered ==
    ASSUME input \in Inputs, RewriteInductive, Installed, NEW i \in DOMAIN body.eh
    PROVE  Covered(body.code, body.eh[i].try, body.eh[i].tryLen) \cap HookCalls(body.code) = {}
<1>1. /\ ListOK /\ Exporting /\ DOMAIN body.code = DOMAIN il
      /\ \A j \in DOMAIN il : body.code[j].op = op[il[j]]
      /\ DOMAIN body.eh = DOMAIN input.eh
  BY BodyFacts
<1>2. Covered(body.code, body.eh[i].try, body.eh[i].tryLen)
        = {Place(<<k, 0>>) : k \in Covered(input.code, input.eh[i].try, input.eh[i].tryLen)}
  BY <1>1, CoversInBody DEF Kept, SameCover
<1>3. ASSUME NEW k \in DOMAIN input.code PROVE Place(<<k, 0>>) \notin HookCalls(body.code)
  <2>1. /\ <<k, 0>> \in DOMAIN op /\ Place(<<k, 0>>) \in DOMAIN il
        /\ il[Place(<<k, 0>>)] = <<k, 0>> /\ <<k, 0>> # Sentinel
    BY <1>1, OwnInList
  <2>2. body.code[Place(<<k, 0>>)].op = op[<<k, 0>>]
    BY <1>1, <2>1
  <2>3. OpOK(k) /\ input.code[k].op \notin Hooks
    BY <1>1, InputFacts DEF RewriteInductive, OwnOK
  <2>4. op[<<k, 0>>] \notin Hooks
    BY <2>3 DEF OpOK, Longer, Hooks
  <2> QED BY <2>2, <2>4 DEF HookCalls
<1>4. \A k \in Covered(input.code, input.eh[i].try, input.eh[i].tryLen) : k \in DOMAIN input.code
  BY DEF Covered
<1> QED BY <1>2, <1>3, <1>4

(***************************************************************************)
(* The installed body is well probed.                                      *)
(***************************************************************************)
LEMMA ProbesInBody ==
    ASSUME input \in Inputs, RewriteInductive
    PROVE  ProbesOnEveryPath
<1> SUFFICES ASSUME Installed PROVE WellProbed(body.code, body.eh)
  BY DEF ProbesOnEveryPath
<1> DEFINE code == body.code
           entries == EntryPoints(body.code, body.eh)
<1>1. /\ ListOK /\ Exporting
      /\ Len(code) = Len(il) /\ DOMAIN code = DOMAIN il
      /\ DOMAIN il = 1 .. Len(il) /\ Len(il) \in Nat
      /\ \A k \in DOMAIN il : code[k].op = op[il[k]] /\ code[k].arg = arg[il[k]]
  BY BodyFacts
<1>2. /\ <<0, 1>> \in DOMAIN op /\ <<0, 2>> \in DOMAIN op
      /\ Place(<<0, 1>>) = 1 /\ Place(<<0, 2>>) = 2
      /\ op[<<0, 1>>] = "ldc" /\ op[<<0, 2>>] = "enter"
      /\ \A k \in Returns :
           /\ <<k, 2>> \in DOMAIN op /\ <<k, 3>> \in DOMAIN op
           /\ Place(<<k, 3>>) = Place(<<k, 2>>) + 1
           /\ op[<<k, 2>>] = "exit" /\ op[<<k, 3>>] = "ret"
  BY <1>1, ProbesInList
<1>3. /\ \A k \in DOMAIN il : il[k] \in DOMAIN op /\ Place(il[k]) = k
      /\ \A x \in DOMAIN op : Place(x) \in DOMAIN il /\ il[Place(x)] = x
  BY <1>1, ListFacts
<1>4. ASSUME NEW k \in DOMAIN code, k \in entries PROVE \E t \in DOMAIN input.code : il[k] = <<t, 0>>
  <2>1. PICK t \in DOMAIN input.code : k = Place(<<t, 0>>)
    BY <1>4, EntriesInBody
  <2>2. il[k] = <<t, 0>>
    BY <1>1, <2>1, OwnInList
  <2> QED BY <2>2
<1> HIDE DEF code, entries
<1>5. 2 \in DOMAIN code /\ il[1] = <<0, 1>> /\ il[2] = <<0, 2>> /\ 1 \in DOMAIN code
  BY <1>1, <1>2, <1>3
<1>6. code[1].op = "ldc" /\ code[2].op = "enter"
  BY <1>1, <1>2, <1>5
<1>7. ASSUME NEW k \in DOMAIN code
      PROVE  /\ code[k].op = "enter" => il[k] = <<0, 2>>
             /\ code[k].op = "exit" => \E n \in Returns : il[k] = <<n, 2>>
             /\ code[k].op = "ret" => \E n \in Returns : il[k] = <<n, 3>>
             /\ code[k].op = "switch" =>
                  \E n \in DOMAIN input.code : il[k] = <<n, 0>> /\ input.code[n].op = "switch"
  <2>1. il[k] \in DOMAIN op /\ code[k].op = op[il[k]]
    BY <1>1, <1>3
  <2>2. \A n \in DOMAIN input.code : input.code[n].op \notin Hooks
    BY InputFacts
  <2> QED BY <1>1, <2>1, <2>2, NamesHold DEF Longer, Hooks
<1>8. ASSUME NEW k \in DOMAIN code, code[k].op = "enter" PROVE k = 2
  BY <1>1, <1>2, <1>3, <1>7, <1>8
<1>9. ASSUME NEW k \in DOMAIN code, code[k].op = "exit"
      PROVE  k + 1 \in DOMAIN code /\ code[k + 1].op = "ret" /\ k \notin entries
  <2>1. PICK n \in Returns : il[k] = <<n, 2>>
    BY <1>7, <1>9
  <2>2. k = Place(<<n, 2>>)
    BY <1>1, <1>3, <2>1
  <2>3. k + 1 \in DOMAIN code /\ il[k + 1] = <<n, 3>>
    BY <1>1, <1>2, <1>3, <2>2
  <2>4. code[k + 1].op = "ret"
    BY <1>1, <1>2, <2>3
  <2>5. k \notin entries
    BY <1>4, <2>1
  <2> QED BY <2>3, <2>4, <2>5
<1>10. ASSUME NEW k \in DOMAIN code, code[k].op = "ret"
       PROVE  k - 1 \in DOMAIN code /\ code[k - 1].op = "exit" /\ k \notin entries
  <2>1. PICK n \in Returns : il[k] = <<n, 3>>
    BY <1>7, <1>10
  <2>2. k = Place(<<n, 2>>) + 1 /\ Place(<<n, 2>>) \in DOMAIN il
    BY <1>1, <1>2, <1>3, <2>1
  <2>3. k - 1 = Place(<<n, 2>>)
    BY <1>1, <2>2
  <2>4. k - 1 \in DOMAIN code /\ il[k - 1] = <<n, 2>>
    BY <1>1, <1>2, <1>3, <2>3
  <2>5. code[k - 1].op = "exit"
    BY <1>1, <1>2, <2>4
  <2>6. k \notin entries
    BY <1>4, <2>1
  <2> QED BY <2>4, <2>5, <2>6
<1>11. ASSUME NEW k \in DOMAIN code, code[k].op = "switch"
       PROVE  /\ code[k].arg \in Nat
              /\ \A i \in 1 .. code[k].arg : k + i \in DOMAIN code /\ code[k + i].op = "arg"
  <2>1. PICK n \in DOMAIN input.code : il[k] = <<n, 0>> /\ input.code[n].op = "switch"
    BY <1>7, <1>11
  <2>2. code[k].arg = input.code[n].arg /\ input.code[n].arg \in Nat
    <3>1. code[k].arg = arg[<<n, 0>>]
      BY <1>1, <2>1
    <3>2. arg[<<n, 0>>] = input.code[n].arg
      BY <1>1, <2>1 DEF RewriteInductive, OwnOK
    <3> QED BY <3>1, <3>2, InputFacts
  <2>3. k = Place(<<n, 0>>)
    BY <1>1, <1>3, <2>1
  <2>4. ASSUME NEW i \in 1 .. input.code[n].arg
        PROVE  k + i \in DOMAIN code /\ code[k + i].op = "arg"
    <3>1. /\ n + i \in DOMAIN input.code
          /\ Place(<<n + i, 0>>) = k + i /\ op[<<n + i, 0>>] = "arg"
      BY <1>1, <2>1, <2>3, SwitchesInList
    <3>2. Place(<<n + i, 0>>) \in DOMAIN il /\ il[Place(<<n + i, 0>>)] = <<n + i, 0>>
      BY <1>1, <3>1, OwnInList
    <3> QED BY <1>1, <3>1, <3>2
  <2> QED BY <2>2, <2>4
<1>12. {1, 2} \cap entries = {}
  <2>1. 1 \notin entries
    BY <1>4, <1>5
  <2>2. 2 \notin entries
    BY <1>4, <1>5
  <2> QED BY <2>1, <2>2
<1>13. \A i \in DOMAIN body.eh : Covered(code, body.eh[i].try, body.eh[i].tryLen) \cap HookCalls(code) = {}
  BY ProbesUncovered DEF code
<1>14. Len(code) \in Nat /\ DOMAIN code = 1 .. Len(code)
  BY <1>1
<1> QED BY <1>5, <1>6, <1>8, <1>9, <1>10, <1>11, <1>12, <1>13, <1>14 DEF WellProbed, code, entries

-----------------------------------------------------------------------------
(* What holds of every rewriting.                                          *)

(***************************************************************************)
(* The inductive invariant of the rewriter (ILRewriter.cpp:96-716): the    *)
(* list holds the method's instructions in order with the probes in their  *)
(* places, branches point at what they pointed at, and what is laid out,   *)
(* patched and installed is this list.                                     *)
(***************************************************************************)
THEOREM RewriterInvariant == Spec => []RewriteInductive
<1>1. input \in Inputs /\ RewriteInductive /\ [Next]_vars => RewriteInductive'
  BY StepKeepsRewriter
<1> QED BY <1>1, StartsInductive, RewriterInputStays, PTL DEF Spec

\* The stages are those of InjectEnterExitHooks.
LEMMA StagesNamed ==
    ASSUME RewriteInductive
    PROVE  stage \in {"import", "enter", "exit", "layout", "resolve", "install", "installed", "failed"}
BY DEF RewriteInductive

(***************************************************************************)
(* Type correctness of the rewriter: the list has every instruction once,  *)
(* however many probes were put in, and nothing dangles.                   *)
(***************************************************************************)
THEOREM RewriterTypeCorrect == Spec => []TypeOK
<1>1. RewriteInductive => TypeOK
  <2> SUFFICES ASSUME RewriteInductive PROVE TypeOK
    OBVIOUS
  <2>1. ListOK
    BY DEF RewriteInductive
  <2>2. Len(il) = Cardinality(DOMAIN op)
    BY <2>1, ListComplete
  <2>3. \A x \in DOMAIN op : op[x] \in Opcodes /\ target[x] \in DOMAIN op \cup {Sentinel}
    BY <2>1 DEF ListOK
  <2>4. \A i \in DOMAIN clauses : \A f \in DOMAIN clauses[i] : clauses[i][f] \in DOMAIN op \cup {Sentinel}
    BY <2>1 DEF ListOK
  <2>5. Range(il) = DOMAIN op /\ DOMAIN arg = DOMAIN op /\ DOMAIN target = DOMAIN op /\ maxStack \in Int
    BY <2>1 DEF ListOK
  <2> QED BY <2>2, <2>3, <2>4, <2>5, StagesNamed DEF TypeOK
<1> QED BY <1>1, RewriterInvariant, PTL

(***************************************************************************)
(* The header of an installed body allows the value a probe pushes         *)
(* (ILRewriter.cpp:343-367, 597), below the limits of its field.           *)
(***************************************************************************)
THEOREM StackAlwaysSuffices == Spec => []StackSuffices
<1>1. input \in Inputs /\ RewriteInductive => StackSuffices
  <2> SUFFICES ASSUME input \in Inputs, RewriteInductive, Installed, maxStack < 65536,
                      \A k \in DOMAIN input.code : input.code[k].op # "arg"
               PROVE  body.maxStack > input.maxStack
    BY DEF StackSuffices
  <2>1. maxStack >= input.maxStack + 1 /\ input.maxStack \in Nat /\ maxStack \in Int
    BY InputFacts DEF RewriteInductive, StackOK, Installed, Exporting, ListOK
  <2>2. body.maxStack = maxStack % 65536
    BY DEF RewriteInductive, BodyOK, HeaderStack
  <2>3. maxStack % 65536 = maxStack
    BY <2>1
  <2> QED BY <2>1, <2>2, <2>3
<1> QED BY <1>1, RewriterInvariant, RewriterInputStays, PTL

(***************************************************************************)
(* Branches keep their targets through probes, growth and eight-bit        *)
(* displacements (ILRewriter.cpp:438-502).                                 *)
(***************************************************************************)
THEOREM BranchesAlwaysLand == Spec => []BranchesLand
BY LandsInBody, RewriterInvariant, RewriterInputStays, PTL

(***************************************************************************)
(* Exception clauses keep what they protect and how they handle it         *)
(* (ILRewriter.cpp:281-314, 560-576).                                      *)
(***************************************************************************)
THEOREM ClausesAlwaysKept == Spec => []ClausesKept
BY CoversKept, RewriterInvariant, RewriterInputStays, PTL

(***************************************************************************)
(* An installed body has one way in, through the enter probe, and to every *)
(* return one way out, through an exit probe (ILRewriter.cpp:631-716).     *)
(***************************************************************************)
THEOREM ProbesAlwaysOnEveryPath == Spec => []ProbesOnEveryPath
BY ProbesInBody, RewriterInvariant, RewriterInputStays, PTL

(***************************************************************************)
(* The rewriter: while the list is exported only short branches change,    *)
(* each to the long form of the same branch (ILRewriter.cpp:466).          *)
(***************************************************************************)
THEOREM OnlyBranchesGrow == Spec => OnlyGrows
<1>1. [Next]_vars =>
        [(stage \in {"layout", "resolve"}) =>
           /\ UNCHANGED <<il, target, clauses>>
           /\ \A x \in DOMAIN op : op'[x] # op[x] => <<op[x], op'[x]>> \in Longer]_vars
  <2> SUFFICES ASSUME [Next]_vars, stage \in {"layout", "resolve"}, ~UNCHANGED vars
               PROVE  /\ UNCHANGED <<il, target, clauses>>
                      /\ \A x \in DOMAIN op : op'[x] # op[x] => <<op[x], op'[x]>> \in Longer
    OBVIOUS
  <2>1. Layout \/ Resolve
    BY DEF Next, Step, Fails, Import, AddEnterProbe, AddExitProbe, Install
  <2>2. CASE Layout
    BY <2>2 DEF Layout, listVars
  <2>3. CASE Resolve
    <3>1. UNCHANGED <<il, target, clauses>>
      BY <2>3 DEF Resolve, listVars
    <3>2. op' = [x \in DOMAIN op |-> IF x \in TooFar THEN Lengthen(op[x]) ELSE op[x]]
      BY <2>3 DEF Resolve
    <3>3. \A x \in TooFar : op[x] \in ShortBranch
      BY DEF TooFar
    <3>4. \A o \in ShortBranch : <<o, Lengthen(o)>> \in Longer
      BY DEF ShortBranch, Lengthen, Longer
    <3>5. ASSUME NEW x \in DOMAIN op, op'[x] # op[x]
          PROVE  <<op[x], op'[x]>> \in Longer
      BY <3>2, <3>3, <3>4, <3>5
    <3> QED BY <3>1, <3>5
  <2> QED BY <2>1, <2>2, <2>3
<1> QED BY <1>1, PTL DEF Spec, OnlyGrows

-----------------------------------------------------------------------------
(* The promise of MethodRun.                                               *)

\* The three reports there are, and how a hook leads from one to the next.
LEMMA Reports ==
    /\ Append(Promise!Nothing, "enter") = Promise!Entered
    /\ Append(Promise!Entered, "exit") = Promise!Left
    /\ Promise!Nothing # Promise!Entered
    /\ Promise!Nothing # Promise!Left
    /\ Promise!Entered # Promise!Left
<1>1. /\ <<>> \in Seq(Hooks) /\ Len(<<>>) = 0
      /\ <<"enter">> \in Seq(Hooks) /\ Len(<<"enter">>) = 1 /\ <<"enter">>[1] = "enter"
  BY DEF Hooks
<1>2. /\ <<"enter", "exit">> \in Seq(Hooks) /\ Len(<<"enter", "exit">>) = 2
      /\ <<"enter", "exit">>[1] = "enter" /\ <<"enter", "exit">>[2] = "exit"
  BY DEF Hooks
<1>3. Append(<<>>, "enter") = <<"enter">>
  <2>1. /\ Append(<<>>, "enter") \in Seq(Hooks)
        /\ Len(Append(<<>>, "enter")) = 1
        /\ Append(<<>>, "enter")[1] = "enter"
    BY <1>1, AppendProperties DEF Hooks
  <2> QED BY <1>1, <2>1, SeqEqual
<1>4. Append(<<"enter">>, "exit") = <<"enter", "exit">>
  <2>1. /\ Append(<<"enter">>, "exit") \in Seq(Hooks)
        /\ Len(Append(<<"enter">>, "exit")) = 2
        /\ Append(<<"enter">>, "exit")[1] = "enter"
        /\ Append(<<"enter">>, "exit")[2] = "exit"
    BY <1>1, AppendProperties DEF Hooks
  <2>2. \A i \in 1 .. 2 : Append(<<"enter">>, "exit")[i] = <<"enter", "exit">>[i]
    BY <1>2, <2>1
  <2> HIDE <1>1
  <2> QED BY <1>2, <2>1, <2>2, SeqEqual
<1> QED BY <1>1, <1>2, <1>3, <1>4 DEF Promise!Nothing, Promise!Entered, Promise!Left

\* A run of the rewriter and of a call is a run of the rewriter.
LEMMA RunsRewrite == RunSpec => Spec
<1>1. RunInit => Init
  BY DEF RunInit
<1>2. [RunNext]_allVars => [Next]_vars
  BY DEF RunNext, allVars, vars, Rewrite, CallMethod, Execute
<1> QED BY <1>1, <1>2, PTL DEF RunSpec, Spec

(* The machine reads bodies as the rewriter does.                          *)

LEMMA SameSizes == \A o : Machine!SizeOf(o) = SizeOf(o)
BY DEF Machine!SizeOf, SizeOf, Machine!ShortBranch, ShortBranch, Machine!LongBranch, LongBranch

LEMMA SameOffsets == \A ops : Machine!OffsetsOf(ops) = OffsetsOf(ops)
BY SameSizes DEF Machine!OffsetsOf, OffsetsOf

LEMMA SameOps == ASSUME NEW c PROVE Machine!OpsOf(c) = OpsOf(c)
BY DEF Machine!OpsOf, OpsOf

LEMMA SamePositions == ASSUME NEW ops, NEW o PROVE Machine!PositionAt(ops, o) = PositionAt(ops, o)
BY Zenon DEF Machine!PositionAt, PositionAt, Machine!OffsetsOf, OffsetsOf, Machine!SizeOf, SizeOf,
     Machine!ShortBranch, ShortBranch, Machine!LongBranch, LongBranch

LEMMA SameBases ==
    ASSUME NEW ops, NEW args, NEW k PROVE Machine!BaseOf(ops, args, k) = BaseOf(ops, args, k)
BY SameOffsets DEF Machine!BaseOf, BaseOf

LEMMA SameTargets == ASSUME NEW c, NEW k PROVE Machine!TargetIn(c, k) = TargetIn(c, k)
BY SamePositions, SameOps, SameBases DEF Machine!TargetIn, TargetIn, Machine!ArgsOf, ArgsOf

LEMMA SameCovers ==
    ASSUME NEW c, NEW from, NEW len PROVE Machine!Covered(c, from, len) = Covered(c, from, len)
BY SameOffsets, SameOps DEF Machine!Covered, Covered

\* Where control goes in an installed body: from the enter probe into the
\* method, from an exit probe to its RET, and to a RET from nowhere else.
LEMMA Flow ==
    ASSUME Installed, WellProbed(body.code, body.eh), ip \in DOMAIN body.code,
           NEW to, to \in Machine!Successors(ip)
    PROVE  /\ ip = 1 => to = 2
           /\ ip = 2 => to = 3
           /\ ip \notin {1, 2} => to \notin {1, 2}
           /\ to \in DOMAIN body.code /\ body.code[to].op = "ret" => body.code[ip].op = "exit"
           /\ body.code[ip].op = "exit" => to \in DOMAIN body.code /\ body.code[to].op = "ret"
<1> DEFINE c == body.code
           o == c[ip].op
           t(k) == TargetIn(c, k)
<1>1. \A k \in DOMAIN c : HasTarget(c[k].op) =>
        /\ t(k) \notin {1, 2}
        /\ t(k) \in DOMAIN c => c[t(k)].op \notin {"exit", "ret"}
  <2>1. \A k \in DOMAIN c : HasTarget(c[k].op) => t(k) \in EntryPoints(c, body.eh)
    BY DEF EntryPoints
  <2> QED BY <2>1 DEF WellProbed
<1>2. Compiled.code = c
  BY DEF Compiled
<1>3. CASE o \in {"br.s", "br", "leave.s", "leave"}
  <2>1. to = t(ip)
    BY SameTargets, <1>2, <1>3 DEF Machine!Successors
  <2> QED BY <1>1, <1>3, <2>1 DEF HasTarget, ShortBranch, LongBranch, WellProbed
<1>4. CASE o \in {"brtrue.s", "brtrue"}
  <2>1. to = t(ip) \/ to = ip + 1
    BY SameTargets, <1>2, <1>4 DEF Machine!Successors
  <2> QED BY <1>1, <1>4, <2>1 DEF HasTarget, ShortBranch, LongBranch, WellProbed
<1>5. CASE o = "switch"
  <2>1. to = ip + c[ip].arg + 1 \/ \E i \in 1 .. c[ip].arg : to = t(ip + i)
    BY SameTargets, <1>2, <1>5 DEF Machine!Successors
  <2>2. CASE \E i \in 1 .. c[ip].arg : to = t(ip + i)
    <3>1. PICK i \in 1 .. c[ip].arg : to = t(ip + i)
      BY <2>2
    <3>2. ip + i \in DOMAIN c /\ c[ip + i].op = "arg" /\ ip \notin {1, 2} /\ o # "exit"
      BY <1>5 DEF WellProbed
    <3>3. HasTarget("arg")
      BY DEF HasTarget
    <3> QED BY <1>1, <3>1, <3>2, <3>3
  <2>3. CASE to = ip + c[ip].arg + 1
    <3>1. c[ip].arg \in Nat /\ ip \in Nat /\ ip \notin {1, 2}
      BY <1>5 DEF WellProbed
    <3>2. c[ip].arg = 0 \/ c[ip + c[ip].arg].op = "arg"
      BY <1>5, <3>1 DEF WellProbed
    <3>3. to - 1 = ip + c[ip].arg
      BY <2>3, <3>1
    <3>4. ip \in 3 .. Len(c)
      BY <3>1 DEF WellProbed
    <3>5. to \in DOMAIN c => c[to].op # "ret"
      BY <1>5, <3>1, <3>2, <3>3 DEF WellProbed
    <3> QED BY <1>5, <2>3, <3>1, <3>4, <3>5
  <2> QED BY <2>1, <2>2, <2>3
<1>6. CASE o \in {"ret", "throw"}
  BY <1>2, <1>6 DEF Machine!Successors
<1>7. CASE o \notin {"br.s", "br", "leave.s", "leave", "brtrue.s", "brtrue", "switch", "ret", "throw"}
  <2>1. to = ip + 1
    BY <1>2, <1>7 DEF Machine!Successors
  <2> QED BY <1>7, <2>1 DEF WellProbed
<1> QED BY <1>3, <1>4, <1>5, <1>6, <1>7

\* Where an exception lands: inside the method, and not from a probe.
LEMMA Landings ==
    ASSUME Installed, WellProbed(body.code, body.eh), ip \in DOMAIN body.code,
           NEW to, to \in Machine!Catchers(ip)
    PROVE  /\ body.code[ip].op \notin Hooks
           /\ to \notin {1, 2}
           /\ to \in DOMAIN body.code => body.code[to].op # "ret"
<1>1. Compiled = body
  BY DEF Compiled
<1>2. PICK i \in DOMAIN body.eh :
        /\ ip \in Covered(body.code, body.eh[i].try, body.eh[i].tryLen)
        /\ to = PositionAt(OpsOf(body.code), Landing(body.eh[i]))
  BY <1>1, SameCovers, SamePositions, SameOps DEF Machine!Catchers, Machine!Landing, Landing
<1>3. to \in EntryPoints(body.code, body.eh)
  BY <1>2 DEF EntryPoints
<1>4. body.code[ip].op \notin Hooks
  BY <1>2 DEF WellProbed, HookCalls
<1> QED BY <1>3, <1>4 DEF WellProbed

-----------------------------------------------------------------------------
(* The rewriter does not run while the call does.                          *)

\* A step of the rewriter finds the method unfinished and the call at rest.
LEMMA RewriteStep ==
    ASSUME Rewrite
    PROVE  ~Rewritten /\ ~Installed /\ UNCHANGED callVars
BY DEF Rewrite, Rewritten, Installed, Next, Step, Fails, Import, AddEnterProbe, AddExitProbe,
       Layout, Resolve, Install

\* The call of a method without hooks reports nothing.
LEMMA OwnBody ==
    ASSUME ~Installed, input \in Inputs, Machine!Go
    PROVE  reports' = reports
<1>1. Compiled.code = input.code
  BY DEF Compiled
<1>2. ip \in DOMAIN input.code => input.code[ip].op \notin Hooks
  BY InputAssumption DEF HookCalls
<1> QED BY <1>1, <1>2 DEF Machine!Go, Machine!Running, Machine!Hooks, Hooks

\* What a step of an installed body reports, and where it takes the call.
LEMMA HookedStep ==
    ASSUME Installed, ProbesOnEveryPath, WhereReported, Machine!Go, UNCHANGED vars
    PROVE  /\ \/ reports' = reports
              \/ reports = Promise!Nothing /\ reports' = Promise!Entered
              \/ reports = Promise!Entered /\ reports' = Promise!Left
           /\ WhereReported'
<1> DEFINE c == body.code
           o == c[ip].op
<1>1. /\ Compiled = body /\ Installed' /\ body' = body
      /\ state = "running" /\ state' = state /\ ip \in DOMAIN c
      /\ ip' \in Machine!Successors(ip)
      /\ reports' = IF o \in Hooks THEN Append(reports, o) ELSE reports
  BY DEF Compiled, vars, Installed, Machine!Go, Machine!Running, Machine!Hooks, Hooks
<1>2. WellProbed(c, body.eh)
  BY DEF ProbesOnEveryPath
<1>3. /\ ip = 1 => ip' = 2
      /\ ip = 2 => ip' = 3
      /\ ip \notin {1, 2} => ip' \notin {1, 2}
      /\ ip' \in DOMAIN c /\ c[ip'].op = "ret" => o = "exit"
      /\ o = "exit" => ip' \in DOMAIN c /\ c[ip'].op = "ret"
  BY <1>1, <1>2, Flow
<1>4. /\ o = "enter" <=> ip = 2
      /\ ip = 1 => o = "ldc"
  BY <1>1, <1>2 DEF WellProbed
<1>5. Rewritten'
  BY <1>1 DEF Rewritten, Installed
<1>6. reports \in {Promise!Nothing, Promise!Entered, Promise!Left}
  BY DEF WhereReported
<1>7. CASE reports = Promise!Nothing /\ ip = 1
  <2>1. reports' = reports /\ ip' = 2
    BY <1>1, <1>3, <1>4, <1>7 DEF Hooks
  <2> QED BY <1>1, <1>5, <1>7, <2>1, Reports DEF WhereReported
<1>8. CASE reports = Promise!Nothing /\ ip = 2
  <2>1. reports' = Promise!Entered /\ ip' = 3
    BY <1>1, <1>3, <1>4, <1>8, Reports DEF Hooks
  <2>2. ip' \in DOMAIN c => c[ip'].op # "ret"
    BY <1>3, <1>4, <1>8
  <2> QED BY <1>1, <1>5, <1>8, <2>1, <2>2, Reports DEF WhereReported
<1>9. CASE reports = Promise!Entered
  <2>1. ip \notin {1, 2} /\ ip' \notin {1, 2} /\ o # "enter"
    BY <1>1, <1>3, <1>4, <1>9, Reports DEF WhereReported
  <2>2. CASE o = "exit"
    <3>1. reports' = Promise!Left
      BY <1>1, <1>9, <2>2, Reports DEF Hooks
    <3> QED BY <1>1, <1>3, <1>5, <1>9, <2>2, <3>1, Reports DEF WhereReported
  <2>3. CASE o # "exit"
    <3>1. reports' = reports
      BY <1>1, <2>1, <2>3 DEF Hooks
    <3>2. ip' \in DOMAIN c => c[ip'].op # "ret"
      BY <1>3, <2>3
    <3> QED BY <1>1, <1>5, <1>9, <2>1, <3>1, <3>2, Reports DEF WhereReported
  <2> QED BY <2>2, <2>3
<1>10. CASE reports = Promise!Left
  <2>1. o = "ret"
    BY <1>1, <1>10, Reports DEF WhereReported
  <2>2. Machine!Successors(ip) = {}
    BY <1>1, <2>1 DEF Machine!Successors
  <2> QED BY <1>1, <2>2
<1>11. reports = Promise!Nothing => ip \in {1, 2}
  BY <1>1 DEF WhereReported
<1> QED BY <1>6, <1>7, <1>8, <1>9, <1>10, <1>11

\* An exception does not take an installed body's call into a probe.
LEMMA CatchStep ==
    ASSUME Installed, ProbesOnEveryPath, WhereReported, Machine!Catch, UNCHANGED vars
    PROVE  WhereReported'
<1>1. /\ Compiled = body /\ Installed' /\ body' = body
      /\ state = "running" /\ state' = state /\ reports' = reports
      /\ ip \in DOMAIN body.code /\ ip' \in Machine!Catchers(ip)
      /\ Machine!MayThrow(body.code[ip].op)
  BY DEF Compiled, vars, Installed, Machine!Catch, Machine!Running
<1>2. WellProbed(body.code, body.eh)
  BY DEF ProbesOnEveryPath
<1>3. /\ body.code[ip].op \notin Hooks
      /\ ip' \notin {1, 2}
      /\ ip' \in DOMAIN body.code => body.code[ip'].op # "ret"
  BY <1>1, <1>2, Landings
<1>4. body.code[ip].op \notin {"ldc", "enter", "ret"}
  BY <1>1, <1>3 DEF Machine!MayThrow, Machine!Hooks, Hooks
<1>5. ip \notin {1, 2}
  BY <1>2, <1>4 DEF WellProbed
<1>6. reports = Promise!Entered
  BY <1>1, <1>4, <1>5 DEF WhereReported
<1>7. Rewritten'
  BY <1>1 DEF Rewritten, Installed
<1> QED BY <1>1, <1>3, <1>6, <1>7, Reports DEF WhereReported

(***************************************************************************)
(* If every installed body is well probed, WhereReported is an invariant.  *)
(***************************************************************************)
LEMMA WhereInductive ==
    ASSUME ProbesOnEveryPath, input \in Inputs, WhereReported, [RunNext]_allVars
    PROVE  WhereReported'
<1>1. CASE Rewrite
  <2>1. state = "waiting" /\ ip = 1 /\ reports = Promise!Nothing
    BY <1>1, RewriteStep DEF WhereReported
  <2>2. ip' = ip /\ state' = state /\ reports' = reports
    BY <1>1, RewriteStep DEF callVars
  <2> QED BY <2>1, <2>2, Reports DEF WhereReported
<1>2. CASE CallMethod
  <2>1. /\ state = "waiting" /\ state' = "running" /\ ip' = ip /\ reports' = reports
        /\ UNCHANGED vars /\ Rewritten
    BY <1>2 DEF CallMethod, Machine!Call
  <2> QED BY <2>1, Reports DEF WhereReported, Rewritten, Installed, vars
<1>3. CASE Execute
  <2>1. UNCHANGED vars
    BY <1>3 DEF Execute
  <2>2. CASE Machine!Go
    <3>1. CASE Installed
      BY <2>1, <2>2, <3>1, HookedStep
    <3>2. CASE ~Installed
      <4>1. reports' = reports /\ state = "running" /\ state' = "running"
        BY <2>2, <3>2, OwnBody DEF Machine!Go, Machine!Running
      <4> QED BY <2>1, <3>2, <4>1, Reports DEF WhereReported, Rewritten, Installed, vars
    <3> QED BY <3>1, <3>2
  <2>3. CASE Machine!Catch
    <3>1. CASE Installed
      BY <2>1, <2>3, <3>1, CatchStep
    <3>2. CASE ~Installed
      <4>1. reports' = reports /\ state = "running" /\ state' = "running"
        BY <2>3 DEF Machine!Catch, Machine!Running
      <4> QED BY <2>1, <3>2, <4>1, Reports DEF WhereReported, Rewritten, Installed, vars
    <3> QED BY <3>1, <3>2
  <2>4. CASE Machine!Unwind \/ Machine!Return
    <3>1. reports' = reports /\ state = "running" /\ state' \in {"thrown", "returned"}
      BY <2>4 DEF Machine!Unwind, Machine!Return, Machine!Running
    <3> QED BY <2>1, <3>1, Reports DEF WhereReported, Rewritten, Installed, vars
  <2> QED BY <1>3, <2>2, <2>3, <2>4 DEF Execute, Machine!Step
<1>4. CASE UNCHANGED allVars
  BY <1>4 DEF allVars, vars, callVars, WhereReported, Rewritten, Installed, Promise!Nothing,
              Promise!Entered, Promise!Left
<1> QED BY <1>1, <1>2, <1>3, <1>4 DEF RunNext

\* Every step keeps the promise.
LEMMA StepKeepsPromise ==
    ASSUME ProbesOnEveryPath, input \in Inputs, WhereReported, [RunNext]_allVars
    PROVE  [Promise!Next]_(Promise!vars)
<1>1. CASE Rewrite
  <2>1. state = "waiting" /\ ~Installed /\ UNCHANGED <<state, reports>>
    BY <1>1, RewriteStep DEF WhereReported, callVars
  <2>2. CASE Installed'
    BY <2>1, <2>2 DEF Promise!Next, Promise!Instrument
  <2>3. CASE ~Installed'
    BY <2>1, <2>3 DEF Promise!vars, Installed
  <2> QED BY <2>2, <2>3
<1>2. CASE CallMethod
  BY <1>2 DEF CallMethod, Machine!Call, Promise!Next, Promise!Call, vars, Installed
<1>3. CASE Execute
  <2>1. UNCHANGED vars /\ UNCHANGED Installed
    BY <1>3 DEF Execute, vars, Installed
  <2>2. CASE Machine!Go
    <3>1. state = "running" /\ UNCHANGED state
      BY <2>2 DEF Machine!Go, Machine!Running
    <3>2. CASE reports' = reports
      BY <2>1, <3>1, <3>2 DEF Promise!vars
    <3>3. CASE reports' # reports
      <4>1. Installed
        BY <2>2, <3>3, OwnBody
      <4>2. \/ reports = Promise!Nothing /\ reports' = Promise!Entered
            \/ reports = Promise!Entered /\ reports' = Promise!Left
        BY <2>1, <2>2, <3>3, <4>1, HookedStep
      <4> QED BY <2>1, <3>1, <4>1, <4>2 DEF Promise!Next, Promise!ReportEnter, Promise!ReportExit
    <3> QED BY <3>2, <3>3
  <2>3. CASE Machine!Catch
    BY <2>1, <2>3 DEF Machine!Catch, Promise!vars
  <2>4. CASE Machine!Unwind
    <3>1. /\ state = "running" /\ state' = "thrown" /\ UNCHANGED reports
          /\ ip \in DOMAIN Compiled.code /\ Machine!MayThrow(Compiled.code[ip].op)
      BY <2>4 DEF Machine!Unwind, Machine!Running
    <3>2. Installed => Compiled = body
      BY DEF Compiled
    <3>3. reports # Promise!Left
      BY <3>1, <3>2, Reports DEF WhereReported, Machine!MayThrow, Machine!Hooks
    <3>4. Installed /\ reports = Promise!Nothing => HooksMayThrow
      BY <3>1, <3>2, Reports DEF WhereReported, Machine!MayThrow, Machine!Hooks, WellProbed,
         ProbesOnEveryPath
    <3> QED BY <2>1, <3>1, <3>3, <3>4 DEF Promise!Next, Promise!Throw
  <2>5. CASE Machine!Return
    <3>1. /\ state = "running" /\ state' = "returned" /\ UNCHANGED reports
          /\ ip \in DOMAIN Compiled.code /\ Compiled.code[ip].op = "ret"
      BY <2>5 DEF Machine!Return, Machine!Running
    <3>2. CASE ~Installed
      BY <2>1, <3>1, <3>2 DEF WhereReported, Promise!Next, Promise!Return
    <3>3. CASE Installed
      <4>1. Compiled = body
        BY <3>3 DEF Compiled
      <4>2. body.code[1].op = "ldc" /\ body.code[2].op = "enter"
        BY <3>3 DEF ProbesOnEveryPath, WellProbed
      <4>3. reports = Promise!Left
        BY <3>1, <3>3, <4>1, <4>2 DEF WhereReported
      <4> QED BY <2>1, <3>1, <3>3, <4>3 DEF Promise!Next, Promise!Return
    <3> QED BY <3>2, <3>3
  <2> QED BY <1>3, <2>2, <2>3, <2>4, <2>5 DEF Execute, Machine!Step
<1>4. CASE UNCHANGED allVars
  BY <1>4 DEF allVars, vars, callVars, Promise!vars, Installed
<1> QED BY <1>1, <1>2, <1>3, <1>4 DEF RunNext

(***************************************************************************)
(* Where control is, given what has been reported (ILRewriter.cpp:631-716). *)
(***************************************************************************)
LEMMA WhereAlways == RunSpec => []WhereReported
<1>1. RunInit => WhereReported
  BY Reports DEF RunInit, Init, Machine!InitCall, WhereReported, Rewritten, Installed,
                 Promise!Nothing
<1>2. ProbesOnEveryPath /\ input \in Inputs /\ WhereReported /\ [RunNext]_allVars => WhereReported'
  BY WhereInductive
<1>3. RunSpec => [](input \in Inputs) /\ []ProbesOnEveryPath
  BY RunsRewrite, RewriterInputStays, ProbesAlwaysOnEveryPath, PTL
<1> QED BY <1>1, <1>2, <1>3, PTL DEF RunSpec

(***************************************************************************)
(* A hooked method keeps the promise of MethodRun: one enter first, one    *)
(* exit exactly if it returns, none if an exception leaves it, hooks that  *)
(* fail included (ILRewriter.cpp:631-716).                                 *)
(***************************************************************************)
THEOREM PromiseKept == RunSpec => Promise!Spec
<1>1. RunInit => Promise!Init
  BY DEF RunInit, Init, Machine!InitCall, Promise!Init, Rewritten, Installed, Promise!Nothing
<1>2. ProbesOnEveryPath /\ input \in Inputs /\ WhereReported /\ [RunNext]_allVars
        => [Promise!Next]_(Promise!vars)
  BY StepKeepsPromise
<1>3. RunSpec => [](input \in Inputs) /\ []ProbesOnEveryPath
  BY RunsRewrite, RewriterInputStays, ProbesAlwaysOnEveryPath, PTL
<1> QED BY <1>1, <1>2, <1>3, WhereAlways, PTL DEF RunSpec, Promise!Spec

-----------------------------------------------------------------------------
(* The method that the rewritten one stands for.                           *)

(* It is read as the rewriter reads it.                                    *)

LEMMA OwnSizes == \A o : Original!SizeOf(o) = SizeOf(o)
BY DEF Original!SizeOf, SizeOf, Original!ShortBranch, ShortBranch, Original!LongBranch, LongBranch

LEMMA OwnOffsets == \A ops : Original!OffsetsOf(ops) = OffsetsOf(ops)
BY OwnSizes DEF Original!OffsetsOf, OffsetsOf

LEMMA OwnOps == ASSUME NEW c PROVE Original!OpsOf(c) = OpsOf(c)
BY DEF Original!OpsOf, OpsOf

LEMMA OwnPositions == ASSUME NEW ops, NEW o PROVE Original!PositionAt(ops, o) = PositionAt(ops, o)
BY Zenon DEF Original!PositionAt, PositionAt, Original!OffsetsOf, OffsetsOf, Original!SizeOf, SizeOf,
     Original!ShortBranch, ShortBranch, Original!LongBranch, LongBranch

LEMMA OwnBases ==
    ASSUME NEW ops, NEW args, NEW k PROVE Original!BaseOf(ops, args, k) = BaseOf(ops, args, k)
BY OwnOffsets DEF Original!BaseOf, BaseOf

LEMMA OwnTargets == ASSUME NEW c, NEW k PROVE Original!TargetIn(c, k) = TargetIn(c, k)
BY OwnPositions, OwnOps, OwnBases DEF Original!TargetIn, TargetIn, Original!ArgsOf, ArgsOf

LEMMA OwnCovers ==
    ASSUME NEW c, NEW from, NEW len PROVE Original!Covered(c, from, len) = Covered(c, from, len)
BY OwnOffsets, OwnOps DEF Original!Covered, Covered

\* The instruction of the method that position j of the list belongs to.
Origin(j) ==
    IF j \in DOMAIN il THEN IF il[j][1] = 0 THEN 1 ELSE il[j][1] ELSE Len(input.code) + 1

\* The name with the greatest key comes last.
LEMMA LastInList ==
    ASSUME ListOK, NEW x \in DOMAIN op, \A z \in DOMAIN op : ~(Key(x) < Key(z))
    PROVE  Place(x) = Len(il)
<1>1. /\ Place(x) \in DOMAIN il
      /\ DOMAIN il = 1 .. Len(il) /\ Len(il) \in Nat
  BY ListFacts
<1>2. CASE Place(x) < Len(il)
  <2>1. Len(il) \in DOMAIN il
    BY <1>1
  <2>2. il[Len(il)] \in DOMAIN op /\ Place(il[Len(il)]) = Len(il)
    BY <2>1, ListFacts
  <2>3. Key(x) < Key(il[Len(il)])
    BY <1>2, <2>2, PlacesOrdered
  <2> QED BY <2>2, <2>3
<1> QED BY <1>1, <1>2

\* The names in the list, once more, with their keys.
LEMMA NamesInList ==
    ASSUME input \in Inputs, RewriteInductive, Exporting, NEW z \in DOMAIN op
    PROVE  \/ z = <<0, 1>> /\ Key(z) = 1
           \/ z = <<0, 2>> /\ Key(z) = 2
           \/ \E k \in DOMAIN input.code, i \in 0 .. 3 :
                z = <<k, i>> /\ Key(z) = 4 * k + i /\ (k \notin Returns => i = 0)
<1>1. DOMAIN op = Own \cup EnterProbe \cup ExitProbes
  BY DEF RewriteInductive, NamesOK
<1>2. CASE z \in Own
  <2>1. PICK k \in DOMAIN input.code : z = <<k, 0>>
    BY <1>2 DEF Own
  <2>2. Key(z) = 4 * k + 0
    BY <2>1 DEF Key
  <2>3. 0 \in 0 .. 3
    OBVIOUS
  <2> QED BY <2>1, <2>2, <2>3, Zenon
<1>3. CASE z \in EnterProbe
  BY <1>3 DEF EnterProbe, Key
<1>4. CASE z \in ExitProbes
  BY <1>4 DEF ExitProbes, Key, Returns
<1> QED BY <1>1, <1>2, <1>3, <1>4

\* Behind an instruction that does not return stands the next one.
LEMMA BehindOwn ==
    ASSUME input \in Inputs, RewriteInductive, Exporting,
           NEW k \in DOMAIN input.code, k \notin Returns
    PROVE  Origin(Place(<<k, 0>>) + 1) = k + 1
<1>1. ListOK /\ DOMAIN il = 1 .. Len(il) /\ Len(il) \in Nat
  BY ListFacts DEF RewriteInductive
<1>2. DOMAIN input.code = 1 .. Len(input.code) /\ Len(input.code) \in Nat /\ k \in Nat
  BY InputFacts
<1>3. <<k, 0>> \in DOMAIN op /\ Key(<<k, 0>>) = 4 * k
  BY <1>2, OwnInList DEF Key
<1>4. CASE k + 1 \in DOMAIN input.code
  <2>1. <<k + 1, 0>> \in DOMAIN op /\ Key(<<k + 1, 0>>) = 4 * (k + 1)
    BY <1>2, <1>4, OwnInList DEF Key
  <2>2. ASSUME NEW z \in DOMAIN op PROVE ~(Key(<<k, 0>>) < Key(z) /\ Key(z) < Key(<<k + 1, 0>>))
    BY <1>2, <1>3, <2>1, NamesInList
  <2>3. Key(<<k, 0>>) < Key(<<k + 1, 0>>)
    BY <1>2, <1>3, <2>1
  <2>4. Place(<<k + 1, 0>>) = Place(<<k, 0>>) + 1
    BY <1>1, <1>3, <2>1, <2>2, <2>3, Neighbours
  <2>5. Place(<<k + 1, 0>>) \in DOMAIN il /\ il[Place(<<k + 1, 0>>)] = <<k + 1, 0>>
    BY <1>4, OwnInList
  <2>6. k + 1 # 0
    BY <1>2
  <2> QED BY <2>4, <2>5, <2>6 DEF Origin
<1>5. CASE k + 1 \notin DOMAIN input.code
  <2>1. k = Len(input.code)
    BY <1>2, <1>5
  <2>2. ASSUME NEW z \in DOMAIN op PROVE ~(Key(<<k, 0>>) < Key(z))
    BY <1>2, <1>3, <2>1, NamesInList
  <2>3. Place(<<k, 0>>) = Len(il)
    BY <1>1, <1>3, <2>2, LastInList
  <2>4. Place(<<k, 0>>) + 1 \notin DOMAIN il
    BY <1>1, <2>3
  <2> QED BY <2>1, <2>4 DEF Origin
<1> QED BY <1>4, <1>5

\* Behind an instruction of the enter probe stands the probe or the first
\* instruction of the method.
LEMMA BehindEnter ==
    ASSUME input \in Inputs, RewriteInductive, Exporting, NEW j \in {1, 2}
    PROVE  j \in DOMAIN il /\ Origin(j) = 1 /\ Origin(j + 1) = 1 /\ 1 \in DOMAIN input.code
<1>1. /\ ListOK /\ Returns # {}
  BY DEF RewriteInductive, ProbesOK
<1>2. DOMAIN input.code = 1 .. Len(input.code) /\ Len(input.code) \in Nat
  BY InputFacts
<1>3. 1 \in DOMAIN input.code
  BY <1>1, <1>2 DEF Returns
<1>4. /\ <<0, 1>> \in DOMAIN op /\ <<0, 2>> \in DOMAIN op
      /\ Place(<<0, 1>>) = 1 /\ Place(<<0, 2>>) = 2
  BY ProbesInList
<1>5. 1 \in DOMAIN il /\ il[1] = <<0, 1>> /\ 2 \in DOMAIN il /\ il[2] = <<0, 2>>
  BY <1>1, <1>4, ListFacts
<1>6. /\ <<1, 0>> \in DOMAIN op
      /\ Place(<<1, 0>>) \in DOMAIN il /\ il[Place(<<1, 0>>)] = <<1, 0>>
  BY <1>3, OwnInList
<1>7. Place(<<1, 0>>) = 3
  <2>1. Key(<<0, 2>>) = 2 /\ Key(<<1, 0>>) = 4
    BY DEF Key
  <2>2. ASSUME NEW z \in DOMAIN op PROVE ~(Key(<<0, 2>>) < Key(z) /\ Key(z) < Key(<<1, 0>>))
    BY <1>2, <2>1, NamesInList
  <2> QED BY <1>1, <1>4, <1>6, <2>1, <2>2, Neighbours
<1>8. Origin(1) = 1 /\ Origin(2) = 1 /\ Origin(3) = 1
  BY <1>5, <1>6, <1>7 DEF Origin
<1> QED BY <1>3, <1>5, <1>8

\* What stands where a RET stood belongs together.
LEMMA BehindExit ==
    ASSUME input \in Inputs, RewriteInductive, Exporting,
           NEW j \in DOMAIN il, NEW k \in Returns, NEW i \in 0 .. 2, il[j] = <<k, i>>
    PROVE  Origin(j) = k /\ Origin(j + 1) = k
<1>1. ListOK /\ DOMAIN op = Own \cup EnterProbe \cup ExitProbes
  BY DEF RewriteInductive, NamesOK
<1>2. DOMAIN input.code = 1 .. Len(input.code) /\ Len(input.code) \in Nat
  BY InputFacts
<1>3. k \in Nat /\ k # 0 /\ k \in DOMAIN input.code
  BY <1>2 DEF Returns
<1>4. <<k, i>> \in DOMAIN op /\ Place(<<k, i>>) = j
  BY <1>1, ListFacts
<1>5. i + 1 \in 1 .. 3
  OBVIOUS
<1>6. <<k, i + 1>> \in DOMAIN op
  BY <1>1, <1>5 DEF ExitProbes
<1>7. Key(<<k, i>>) = 4 * k + i /\ Key(<<k, i + 1>>) = 4 * k + (i + 1)
  BY DEF Key
<1>8. ASSUME NEW z \in DOMAIN op PROVE ~(Key(<<k, i>>) < Key(z) /\ Key(z) < Key(<<k, i + 1>>))
  BY <1>2, <1>3, <1>7, NamesInList
<1>9. Key(<<k, i>>) < Key(<<k, i + 1>>)
  BY <1>3, <1>7
<1>10. Place(<<k, i + 1>>) = j + 1
  BY <1>1, <1>4, <1>6, <1>8, <1>9, Neighbours
<1>11. j + 1 \in DOMAIN il /\ il[j + 1] = <<k, i + 1>>
  BY <1>1, <1>6, <1>10, ListFacts
<1> QED BY <1>3, <1>11 DEF Origin

\* A step of the body from an instruction of the method is a step of the method.
LEMMA GoesOn ==
    ASSUME input \in Inputs, RewriteInductive, Installed, NEW j \in DOMAIN il,
           NEW k \in DOMAIN input.code, k \notin Returns, il[j] = <<k, 0>>,
           NEW to \in Machine!Successors(j)
    PROVE  Origin(to) \in Original!Successors(k)
<1> DEFINE t(n) == TargetIn(input.code, n)
<1>1. /\ ListOK /\ Exporting /\ DOMAIN body.code = DOMAIN il
      /\ body.code[j].op = op[<<k, 0>>] /\ body.code[j].arg = arg[<<k, 0>>]
      /\ OwnOK
  BY BodyFacts DEF RewriteInductive
<1>2. Place(<<k, 0>>) = j
  BY <1>1, ListFacts
<1>3. Origin(j + 1) = k + 1
  BY <1>1, <1>2, BehindOwn
<1>4. Compiled.code = body.code
  BY DEF Compiled
<1>5. OpOK(k) /\ input.code[k].op # "ret" /\ arg[<<k, 0>>] = input.code[k].arg
  BY <1>1 DEF OwnOK, Returns
<1>6. op[<<k, 0>>] = input.code[k].op \/ <<input.code[k].op, op[<<k, 0>>]>> \in Longer
  BY <1>5 DEF OpOK
<1>7. ASSUME NEW n \in DOMAIN input.code, HasTarget(input.code[n].op)
      PROVE  Origin(TargetIn(body.code, Place(<<n, 0>>))) = t(n)
  <2>1. TargetIn(body.code, Place(<<n, 0>>)) = Place(<<t(n), 0>>)
    BY <1>7, LandsInBody DEF BranchesLand
  <2>2. t(n) \in DOMAIN input.code
    BY <1>7, InputFacts
  <2> HIDE DEF t
  <2>3. Place(<<t(n), 0>>) \in DOMAIN il /\ il[Place(<<t(n), 0>>)] = <<t(n), 0>>
    BY <1>1, <2>2, OwnInList
  <2>4. t(n) # 0
    BY <2>2, InputFacts
  <2> QED BY <2>1, <2>3, <2>4 DEF Origin
<1>8. \A n : Original!TargetIn(input.code, n) = t(n)
  BY OwnTargets
<1>9. \A n : Machine!TargetIn(body.code, n) = TargetIn(body.code, n)
  BY SameTargets
<1> HIDE DEF t
<1>10. CASE input.code[k].op \in {"br.s", "br", "leave.s", "leave"}
  <2>1. op[<<k, 0>>] \in {"br.s", "br", "leave.s", "leave"}
    BY <1>6, <1>10 DEF Longer
  <2>2. to = TargetIn(body.code, j)
    BY <1>1, <1>4, <1>9, <2>1 DEF Machine!Successors
  <2>3. Original!Successors(k) = {t(k)}
    BY <1>8, <1>10 DEF Original!Successors
  <2>4. HasTarget(input.code[k].op)
    BY <1>10 DEF HasTarget, ShortBranch, LongBranch
  <2> QED BY <1>2, <1>7, <2>2, <2>3, <2>4
<1>11. CASE input.code[k].op \in {"brtrue.s", "brtrue"}
  <2>1. op[<<k, 0>>] \in {"brtrue.s", "brtrue"}
    BY <1>6, <1>11 DEF Longer
  <2>2. to = TargetIn(body.code, j) \/ to = j + 1
    BY <1>1, <1>4, <1>9, <2>1 DEF Machine!Successors
  <2>3. Original!Successors(k) = {t(k), k + 1}
    BY <1>8, <1>11 DEF Original!Successors
  <2>4. HasTarget(input.code[k].op)
    BY <1>11 DEF HasTarget, ShortBranch, LongBranch
  <2> QED BY <1>2, <1>3, <1>7, <2>2, <2>3, <2>4
<1>12. CASE input.code[k].op = "switch"
  <2> DEFINE a == input.code[k].arg
  <2>1. op[<<k, 0>>] = "switch"
    BY <1>6, <1>12 DEF Longer
  <2>2. a \in Nat /\ k \in Nat /\ j \in Nat
    BY <1>1, InputFacts, ListFacts
  <2>3. /\ \A i \in 1 .. a : k + i \in DOMAIN input.code /\ Place(<<k + i, 0>>) = j + i
        /\ \A i \in 1 .. a : input.code[k + i].op = "arg"
    BY <1>1, <1>2, <1>12, SwitchesInList, InputFacts DEF SwitchesWhole
  <2>4. body.code[j].arg = a
    BY <1>1, <1>5
  <2>5. \/ \E i \in 1 .. a : to = TargetIn(body.code, j + i)
        \/ to = j + a + 1
    BY <1>1, <1>4, <1>9, <2>1, <2>4 DEF Machine!Successors
  <2>6. Original!Successors(k) = {t(k + i) : i \in 1 .. a} \cup {k + a + 1}
    BY <1>8, <1>12 DEF Original!Successors
  <2> HIDE DEF a
  <2>7. ASSUME NEW i \in 1 .. a, to = TargetIn(body.code, j + i)
        PROVE  Origin(to) \in Original!Successors(k)
    <3>1. HasTarget(input.code[k + i].op)
      BY <2>3 DEF HasTarget
    <3>2. Origin(to) = t(k + i)
      BY <1>7, <2>3, <2>7, <3>1
    <3> QED BY <2>6, <3>2
  <2>8. ASSUME to = j + a + 1 PROVE Origin(to) = k + a + 1
    <3>1. CASE a = 0
      BY <1>3, <2>2, <2>8, <3>1
    <3>2. CASE a # 0
      <4> DEFINE m == k + a
      <4>1. a \in 1 .. a
        BY <2>2, <3>2
      <4>2. m \in DOMAIN input.code /\ Place(<<m, 0>>) = j + a /\ m \notin Returns
        BY <2>3, <4>1 DEF Returns
      <4> HIDE DEF m
      <4>3. Origin(Place(<<m, 0>>) + 1) = m + 1
        BY <1>1, <4>2, BehindOwn
      <4> QED BY <2>8, <4>2, <4>3 DEF m
    <3> QED BY <3>1, <3>2
  <2> QED BY <2>5, <2>6, <2>7, <2>8
<1>13. CASE input.code[k].op = "throw"
  BY <1>1, <1>4, <1>6, <1>13 DEF Machine!Successors, Longer
<1>14. CASE input.code[k].op \notin {"br.s", "br", "leave.s", "leave", "brtrue.s", "brtrue",
                                    "switch", "throw"}
  <2>1. op[<<k, 0>>] = input.code[k].op
    BY <1>6, <1>14 DEF Longer
  <2>2. to = j + 1
    BY <1>1, <1>4, <1>5, <1>14, <2>1 DEF Machine!Successors
  <2>3. Original!Successors(k) = {k + 1}
    BY <1>5, <1>14 DEF Original!Successors
  <2> QED BY <1>3, <2>2, <2>3
<1> QED BY <1>10, <1>11, <1>12, <1>13, <1>14

\* A catch in the body is one in the method.
LEMMA CatchesOn ==
    ASSUME input \in Inputs, RewriteInductive, Installed, NEW j \in DOMAIN il,
           NEW to \in Machine!Catchers(j)
    PROVE  \E k \in DOMAIN input.code : il[j] = <<k, 0>> /\ Origin(to) \in Original!Catchers(k)
<1>1. /\ ListOK /\ Exporting /\ DOMAIN body.eh = DOMAIN input.eh
  BY BodyFacts
<1>2. Compiled = body
  BY DEF Compiled
<1>3. PICK i \in DOMAIN body.eh :
        /\ j \in Covered(body.code, body.eh[i].try, body.eh[i].tryLen)
        /\ to = PositionAt(OpsOf(body.code), Landing(body.eh[i]))
  BY <1>2, SameCovers, SamePositions, SameOps DEF Machine!Catchers, Machine!Landing, Landing
<1>4. Kept(input.eh[i], body.eh[i])
  BY <1>1, CoversInBody
<1>5. PICK k \in Covered(input.code, input.eh[i].try, input.eh[i].tryLen) : j = Place(<<k, 0>>)
  BY <1>3, <1>4 DEF Kept, SameCover
<1>6. k \in DOMAIN input.code
  BY DEF Covered
<1>7. il[j] = <<k, 0>>
  BY <1>1, <1>5, <1>6, OwnInList
<1> DEFINE t == At(Landing(input.eh[i]))
<1>8. t \in DOMAIN input.code /\ to = Place(<<t, 0>>)
  BY <1>3, <1>4 DEF Kept, Landing
<1>9. t \in Original!Catchers(k)
  BY <1>1, OwnCovers, OwnPositions, OwnOps DEF Original!Catchers, Original!Landing, Landing, At
<1> HIDE DEF t
<1>10. Origin(to) = t
  <2>1. to \in DOMAIN il /\ il[to] = <<t, 0>>
    BY <1>1, <1>8, OwnInList
  <2>2. t # 0
    BY <1>8, InputFacts
  <2> QED BY <2>1, <2>2 DEF Origin
<1> QED BY <1>6, <1>7, <1>9, <1>10

\* What can throw in the body and is not a hook throws in the method.
LEMMA ThrowsOn ==
    ASSUME input \in Inputs, RewriteInductive, Installed, NEW j \in DOMAIN il,
           body.code[j].op \in {"plain", "block", "throw"}
    PROVE  \E k \in DOMAIN input.code :
             il[j] = <<k, 0>> /\ input.code[k].op = body.code[j].op /\ Origin(j) = k
<1>1. /\ ListOK /\ Exporting /\ body.code[j].op = op[il[j]] /\ il[j] \in DOMAIN op
  BY BodyFacts, ListFacts
<1>2. PICK k \in DOMAIN input.code : il[j] = <<k, 0>> /\ input.code[k].op = op[il[j]]
  BY <1>1, NamesHold DEF Longer
<1>3. k # 0
  BY InputFacts
<1> QED BY <1>1, <1>2, <1>3 DEF Origin

\* Without a new body the call is that of the method itself.
LEMMA OwnCall ==
    ASSUME ~Installed, input \in Inputs, Execute
    PROVE  Original!NextCall
<1>1. /\ Compiled = input /\ OriginalIp = ip
      /\ UNCHANGED vars /\ UNCHANGED input /\ OriginalIp' = ip'
  BY DEF Compiled, OriginalIp, Execute, vars, Installed
<1>2. \A k : Machine!Successors(k) = Original!Successors(k)
  BY <1>1, SameTargets, OwnTargets DEF Machine!Successors, Original!Successors
<1>3. \A k : Machine!Catchers(k) = Original!Catchers(k)
  BY <1>1, SameCovers, OwnCovers, SamePositions, OwnPositions, SameOps, OwnOps
     DEF Machine!Catchers, Original!Catchers, Machine!Landing, Original!Landing
<1>4. Machine!Running <=> Original!Running
  BY <1>1 DEF Machine!Running, Original!Running
<1>5. ip \in DOMAIN input.code => input.code[ip].op \notin Hooks
  BY InputAssumption DEF HookCalls
<1>6. ip \in DOMAIN input.code =>
        (Machine!MayThrow(input.code[ip].op) <=> Original!MayThrow(input.code[ip].op))
  BY <1>5 DEF Machine!MayThrow, Original!MayThrow, Machine!Hooks, Original!Hooks, Hooks
<1>7. CASE Machine!Go
  BY <1>1, <1>2, <1>4, <1>5, <1>7 DEF Machine!Go, Original!Go, Original!Running, Original!Hooks,
     Hooks, Original!Step, Original!NextCall
<1>8. CASE Machine!Catch
  BY <1>1, <1>3, <1>4, <1>6, <1>8 DEF Machine!Catch, Original!Catch, Original!Running,
     Original!Step, Original!NextCall
<1>9. CASE Machine!Unwind
  BY <1>1, <1>4, <1>6, <1>9 DEF Machine!Unwind, Original!Unwind, Original!Running,
     Original!Step, Original!NextCall
<1>10. CASE Machine!Return
  BY <1>1, <1>4, <1>10 DEF Machine!Return, Original!Return, Original!Running,
     Original!Step, Original!NextCall
<1> QED BY <1>7, <1>8, <1>9, <1>10 DEF Execute, Machine!Step

\* Inside a probe, and from it into the method, the method stands still.
LEMMA ProbesStandStill ==
    ASSUME input \in Inputs, RewriteInductive, Installed, NEW j \in DOMAIN il,
           \A k \in DOMAIN input.code : il[j] = <<k, 0>> => k \in Returns,
           NEW to \in Machine!Successors(j)
    PROVE  Origin(to) = Origin(j)
<1>1. /\ ListOK /\ Exporting /\ body.code[j].op = op[il[j]] /\ il[j] \in DOMAIN op
      /\ Place(il[j]) = j
  BY BodyFacts, ListFacts
<1>2. Compiled.code = body.code
  BY DEF Compiled
<1>3. op[il[j]] \in {"nop", "ldc", "enter", "exit"} => to = j + 1
  BY <1>1, <1>2 DEF Machine!Successors
<1>4. op[il[j]] # "ret"
  BY <1>1, <1>2 DEF Machine!Successors
<1>5. CASE il[j] \in EnterProbe
  <2>1. j \in {1, 2}
    BY <1>1, <1>5, ProbesInList DEF EnterProbe
  <2>2. op[il[j]] \in {"ldc", "enter"}
    BY <1>1, <1>5, ProbesInList DEF EnterProbe
  <2> QED BY <1>1, <1>3, <2>1, <2>2, BehindEnter
<1>6. CASE il[j] \notin EnterProbe
  <2>1. PICK k \in Returns : \/ il[j] = <<k, 0>> /\ op[il[j]] = "nop"
                             \/ il[j] = <<k, 1>> /\ op[il[j]] = "ldc"
                             \/ il[j] = <<k, 2>> /\ op[il[j]] = "exit"
    <3>1. \/ \E k \in DOMAIN input.code :
                /\ il[j] = <<k, 0>>
                /\ \/ input.code[k].op # "ret" /\ op[il[j]] = input.code[k].op
                   \/ <<input.code[k].op, op[il[j]]>> \in Longer
                   \/ k \in Returns /\ op[il[j]] = "nop"
          \/ \E k \in Returns : \/ il[j] = <<k, 1>> /\ op[il[j]] = "ldc"
                                \/ il[j] = <<k, 2>> /\ op[il[j]] = "exit"
                                \/ il[j] = <<k, 3>> /\ op[il[j]] = "ret"
      BY <1>1, <1>6, NamesHold DEF EnterProbe
    <3> QED BY <1>4, <3>1 DEF Returns, Longer
  <2>2. to = j + 1
    BY <1>3, <2>1
  <2>3. \E i \in 0 .. 2 : il[j] = <<k, i>>
    BY <2>1
  <2> QED BY <1>1, <2>2, <2>3, BehindExit
<1> QED BY <1>5, <1>6

\* A RET of the body is that of the method.
LEMMA ReturnsOn ==
    ASSUME input \in Inputs, RewriteInductive, Installed, NEW j \in DOMAIN il,
           body.code[j].op = "ret"
    PROVE  Origin(j) \in DOMAIN input.code /\ input.code[Origin(j)].op = "ret"
<1>1. /\ ListOK /\ Exporting /\ body.code[j].op = op[il[j]] /\ il[j] \in DOMAIN op
  BY BodyFacts, ListFacts
<1>2. PICK k \in Returns : il[j] = <<k, 3>>
  BY <1>1, NamesHold DEF Longer
<1>3. k # 0 /\ k \in DOMAIN input.code /\ input.code[k].op = "ret"
  BY InputFacts DEF Returns
<1> QED BY <1>2, <1>3 DEF Origin

\* A step of the rewritten method is one of the method, or none, or a hook
\* that fails.
LEMMA RewrittenCall ==
    ASSUME Installed, input \in Inputs, RewriteInductive, Execute
    PROVE  [HookFails \/ Original!NextCall]_<<input, OriginalIp, state>>
<1>1. /\ Compiled = body /\ UNCHANGED <<input, il, body, stage>> /\ Installed'
      /\ DOMAIN body.code = DOMAIN il
  BY BodyFacts DEF Compiled, Execute, vars, Installed
<1>2. OriginalIp = Origin(ip) /\ OriginalIp' = Origin(ip')
  BY <1>1 DEF OriginalIp, Origin
<1>3. Machine!Running => ip \in DOMAIN il /\ state = "running"
  BY <1>1 DEF Machine!Running
<1>4. \A k \in DOMAIN input.code : k # 0 /\ input.code[k].op \notin Hooks
  BY InputFacts
<1>5. CASE Machine!Go
  <2>1. ip \in DOMAIN il /\ state = "running" /\ state' = state /\ ip' \in Machine!Successors(ip)
    BY <1>3, <1>5 DEF Machine!Go
  <2>2. CASE \A k \in DOMAIN input.code : il[ip] = <<k, 0>> => k \in Returns
    <3>1. Origin(ip') = Origin(ip)
      BY <2>1, <2>2, ProbesStandStill
    <3> QED BY <1>1, <1>2, <2>1, <3>1
  <2>3. ASSUME NEW k \in DOMAIN input.code, il[ip] = <<k, 0>>, k \notin Returns
        PROVE  Original!NextCall
    <3>1. Origin(ip') \in Original!Successors(k)
      BY <2>1, <2>3, GoesOn
    <3>2. Origin(ip) = k
      BY <1>4, <2>1, <2>3 DEF Origin
    <3> QED BY <1>1, <1>2, <1>4, <2>1, <2>3, <3>1, <3>2 DEF Original!NextCall, Original!Step,
            Original!Go, Original!Running, Original!Hooks, Hooks
  <2> QED BY <2>2, <2>3
<1>6. CASE Machine!Catch
  <2>1. /\ ip \in DOMAIN il /\ state = "running" /\ state' = state
        /\ ip' \in Machine!Catchers(ip) /\ Machine!MayThrow(body.code[ip].op)
    BY <1>1, <1>3, <1>6 DEF Machine!Catch
  <2>2. PICK k \in DOMAIN input.code : il[ip] = <<k, 0>> /\ Origin(ip') \in Original!Catchers(k)
    BY <2>1, CatchesOn
  <2>3. Origin(ip) = k
    BY <1>4, <2>1, <2>2 DEF Origin
  <2>4. body.code[ip].op \notin Hooks
    <3>1. /\ Exporting /\ il[ip] \in DOMAIN op /\ body.code[ip].op = op[il[ip]]
      BY <2>1, BodyFacts, ListFacts
    <3>2. OpOK(k)
      BY <3>1 DEF RewriteInductive, OwnOK
    <3> QED BY <1>4, <2>2, <3>1, <3>2 DEF OpOK, Longer, Hooks
  <2>5. body.code[ip].op \in {"plain", "block", "throw"}
    BY <2>1, <2>4 DEF Machine!MayThrow, Machine!Hooks, Hooks
  <2>6. Original!MayThrow(input.code[k].op)
    BY <2>1, <2>2, <2>5, ThrowsOn DEF Original!MayThrow
  <2> QED BY <1>1, <1>2, <2>1, <2>2, <2>3, <2>6 DEF Original!NextCall, Original!Step,
          Original!Catch, Original!Running
<1>7. CASE Machine!Unwind
  <2>1. /\ ip \in DOMAIN il /\ state = "running" /\ state' = "thrown" /\ ip' = ip
        /\ Machine!MayThrow(body.code[ip].op)
    BY <1>1, <1>3, <1>7 DEF Machine!Unwind
  <2>2. CASE body.code[ip].op \in Hooks
    BY <1>1, <1>7, <2>1, <2>2 DEF HookFails
  <2>3. CASE body.code[ip].op \notin Hooks
    <3>1. body.code[ip].op \in {"plain", "block", "throw"}
      BY <2>1, <2>3 DEF Machine!MayThrow, Machine!Hooks, Hooks
    <3>2. PICK k \in DOMAIN input.code : input.code[k].op = body.code[ip].op /\ Origin(ip) = k
      BY <2>1, <3>1, ThrowsOn
    <3> QED BY <1>1, <1>2, <2>1, <3>1, <3>2 DEF Original!NextCall, Original!Step,
            Original!Unwind, Original!Running, Original!MayThrow
  <2> QED BY <2>2, <2>3
<1>8. CASE Machine!Return
  <2>1. /\ ip \in DOMAIN il /\ state = "running" /\ state' = "returned" /\ ip' = ip
        /\ body.code[ip].op = "ret"
    BY <1>1, <1>3, <1>8 DEF Machine!Return
  <2>2. Origin(ip) \in DOMAIN input.code /\ input.code[Origin(ip)].op = "ret"
    BY <2>1, ReturnsOn
  <2> QED BY <1>1, <1>2, <2>1, <2>2 DEF Original!NextCall, Original!Step,
          Original!Return, Original!Running
<1> QED BY <1>5, <1>6, <1>7, <1>8 DEF Execute, Machine!Step

\* The call begins at the method's first instruction.
LEMMA BeginsAtFirst ==
    input \in Inputs /\ RewriteInductive /\ Exporting => 1 \in DOMAIN il /\ Origin(1) = 1
BY BehindEnter

\* Every step is a step of the method, or none, or a hook that fails.
LEMMA StepStaysOriginal ==
    ASSUME input \in Inputs, RewriteInductive, RewriteInductive', WhereReported, [RunNext]_allVars
    PROVE  [HookFails \/ Original!NextCall]_<<input, OriginalIp, state>>
<1>1. CASE Rewrite
  <2>1. /\ ip = 1 /\ ip' = 1 /\ state' = state /\ ~Installed
    BY <1>1, RewriteStep DEF WhereReported, callVars
  <2>2. input' = input
    BY <1>1 DEF Rewrite, Next, Step, Fails, Import, AddEnterProbe, AddExitProbe,
                Layout, Resolve, Install
  <2>3. OriginalIp = 1
    BY <2>1 DEF OriginalIp
  <2>4. OriginalIp' = 1
    <3>1. CASE ~Installed'
      BY <2>1, <3>1 DEF OriginalIp
    <3>2. CASE Installed'
      <4>1. (input \in Inputs)' /\ Exporting'
        BY <2>2, <3>2 DEF Installed, Exporting
      <4>2. (1 \in DOMAIN il /\ Origin(1) = 1)'
        BY <4>1, BeginsAtFirst, PTL
      <4> QED BY <2>1, <3>2, <4>2 DEF OriginalIp, Origin
    <3> QED BY <3>1, <3>2
  <2> QED BY <2>1, <2>2, <2>3, <2>4
<1>2. CASE CallMethod
  <2>1. UNCHANGED <<input, OriginalIp>>
    BY <1>2 DEF CallMethod, vars, Machine!Call, OriginalIp, Installed
  <2> QED BY <1>2, <2>1 DEF CallMethod, Machine!Call, Original!NextCall, Original!Call
<1>3. CASE Execute
  BY <1>3, OwnCall, RewrittenCall
<1>4. CASE UNCHANGED allVars
  BY <1>4 DEF allVars, vars, callVars, OriginalIp, Installed
<1> QED BY <1>1, <1>2, <1>3, <1>4 DEF RunNext

(***************************************************************************)
(* The rewritten method does what the method did: with the probes erased,  *)
(* a call of it is a call of the method, through every branch, switch,     *)
(* handler and exception, up to a hook that fails                          *)
(* (ILRewriter.cpp:718-745).                                               *)
(***************************************************************************)
THEOREM RunsTheSame == RunSpec => SameRun
<1>1. RunInit => Original!InitCall
  BY DEF RunInit, Init, Machine!InitCall, Original!InitCall, OriginalIp, Installed
<1>2. input \in Inputs /\ RewriteInductive /\ RewriteInductive' /\ WhereReported /\ [RunNext]_allVars
        => [HookFails \/ Original!NextCall]_<<input, OriginalIp, state>>
  BY StepStaysOriginal
<1>3. RunSpec => [](input \in Inputs) /\ []RewriteInductive
  BY RunsRewrite, RewriterInputStays, RewriterInvariant, PTL
<1> QED BY <1>1, <1>2, <1>3, WhereAlways, PTL DEF RunSpec, SameRun

=============================================================================
