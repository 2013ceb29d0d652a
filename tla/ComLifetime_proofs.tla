---------------------------- MODULE ComLifetime_proofs ----------------------------
(***************************************************************************)
(* Proofs about ComLifetime, for any clients, threads and objects.         *)
(*                                                                         *)
(* A count is compared with the set of the pointers it counts: a new       *)
(* pointer adds one element, a release takes one away.  The first part is  *)
(* about these sets; the second shows that every action keeps              *)
(* LifetimeInductive, one lemma per action; the theorems follow.           *)
(***************************************************************************)
EXTENDS ComLifetime, FiniteSetTheorems, TLAPS

USE HeldAssumption

\* What is counted in the objects depends on nothing else.
LEMMA ObjectsAside ==
    ASSUME UNCHANGED objectVars, Counted, OneEnds
    PROVE  Counted' /\ OneEnds'
BY DEF objectVars, Counted, Pointers, OneEnds, Ending, Last, Free

\* A count of zero means that nobody holds a pointer.
LEMMA NobodyHolds ==
    ASSUME TypeOK, Counted, NEW o \in Objects
    PROVE  refCount[o] = 0 <=> \A c \in Clients : ~Holds(c, o)
<1>1. refCount[o] = 0 <=> Pointers(o) = {}
  BY FS_EmptySet DEF Counted
<1>2. ASSUME NEW c \in Clients, Holds(c, o) PROVE <<c, 1>> \in Pointers(o)
  BY <1>2 DEF TypeOK, Holds, Pointers
<1>3. ASSUME NEW x \in Pointers(o) PROVE x[1] \in Clients /\ Holds(x[1], o)
  BY DEF TypeOK, Holds, Pointers
<1>. QED
  BY <1>1, <1>2, <1>3

\* A new pointer is one more to count.
LEMMA OneMore ==
    ASSUME TypeOK, Counted, NEW d \in Clients, NEW o \in Objects, held[d][o] < MaxHeld,
           held' = [held EXCEPT ![d][o] = @ + 1],
           refCount' = [refCount EXCEPT ![o] = @ + 1]
    PROVE  Counted'
<1> DEFINE new == <<d, held[d][o] + 1>>
<1>1. ASSUME NEW q \in Objects, q # o PROVE Pointers(q)' = Pointers(q)
  BY <1>1 DEF TypeOK, Pointers
<1>2. Pointers(o)' = Pointers(o) \cup {new}
  <2>1. ASSUME NEW a \in Clients, NEW i \in 1 .. MaxHeld
        PROVE  i <= held'[a][o] <=> i <= held[a][o] \/ <<a, i>> = new
    <3>1. held[a][o] \in Nat /\ held'[a][o] = IF a = d THEN held[a][o] + 1 ELSE held[a][o]
      BY DEF TypeOK
    <3>. QED
      BY <3>1
  <2>2. new \in Clients \X (1 .. MaxHeld)
    BY DEF TypeOK
  <2>. QED
    BY <2>1, <2>2 DEF Pointers
<1>3. new \notin Pointers(o)
  BY DEF TypeOK, Pointers
<1>4. IsFiniteSet(Pointers(o)') /\ refCount'[o] = Cardinality(Pointers(o)')
  <2>1. IsFiniteSet(Pointers(o)) /\ refCount[o] = Cardinality(Pointers(o))
    BY DEF Counted
  <2>2. /\ IsFiniteSet(Pointers(o) \cup {new})
        /\ Cardinality(Pointers(o) \cup {new}) = Cardinality(Pointers(o)) + 1
    BY <2>1, <1>3, FS_AddElement
  <2>3. refCount'[o] = refCount[o] + 1
    BY DEF TypeOK
  <2>. QED
    BY <1>2, <2>1, <2>2, <2>3
<1>. QED
  BY <1>1, <1>4 DEF Counted, TypeOK

\* A pointer given back is one less.
LEMMA OneLess ==
    ASSUME TypeOK, Counted, NEW c \in Clients, NEW o \in Objects, Holds(c, o),
           held' = [held EXCEPT ![c][o] = @ - 1],
           refCount' = [refCount EXCEPT ![o] = @ - 1]
    PROVE  Counted' /\ refCount[o] - 1 \in Nat
<1> DEFINE old == <<c, held[c][o]>>
<1>1. ASSUME NEW q \in Objects, q # o PROVE Pointers(q)' = Pointers(q)
  BY <1>1 DEF TypeOK, Pointers
<1>2. Pointers(o)' = Pointers(o) \ {old}
  <2>1. ASSUME NEW a \in Clients, NEW i \in 1 .. MaxHeld
        PROVE  i <= held'[a][o] <=> i <= held[a][o] /\ <<a, i>> # old
    <3>1. held[a][o] \in Nat /\ held'[a][o] = IF a = c THEN held[a][o] - 1 ELSE held[a][o]
      BY DEF TypeOK
    <3>. QED
      BY <3>1
  <2>. QED
    BY <2>1 DEF Pointers
<1>3. old \in Pointers(o)
  BY DEF TypeOK, Pointers, Holds
<1>4. IsFiniteSet(Pointers(o)') /\ refCount'[o] = Cardinality(Pointers(o)')
  <2>1. IsFiniteSet(Pointers(o)) /\ refCount[o] = Cardinality(Pointers(o))
    BY DEF Counted
  <2>2. /\ IsFiniteSet(Pointers(o) \ {old})
        /\ Cardinality(Pointers(o) \ {old}) = Cardinality(Pointers(o)) - 1
    BY <2>1, <1>3, FS_RemoveElement
  <2>3. refCount'[o] = refCount[o] - 1
    BY DEF TypeOK
  <2>. QED
    BY <1>2, <2>1, <2>2, <2>3
<1>5. refCount[o] # 0 /\ refCount[o] \in Nat
  BY NobodyHolds DEF TypeOK
<1>6. Counted'
  BY <1>1, <1>4 DEF Counted, TypeOK
<1>. QED
  BY <1>5, <1>6

-----------------------------------------------------------------------------
(* The objects' actions.                                                   *)

\* What is counted in ICorProfilerInfo5 depends on nothing else.
LEMMA InfoAside ==
    ASSUME UNCHANGED <<stage, info, infoRefs, copy>>, InfoCounted
    PROVE  InfoCounted'
BY DEF InfoCounted, InfoBalanced, Shutting

\* An object nobody has had comes with no pointer, or with the first.
LEMMA CreateKeeps ==
    ASSUME LifetimeInductive, NEW c \in Clients, NEW o \in Objects, Free(c), Create(c, o)
    PROVE  LifetimeInductive'
<1> USE DEF LifetimeInductive, callbackVars
<1>1. /\ \A d \in Clients : held[d][o] = 0
      /\ refCount[o] = 0
      /\ \A d \in Clients : ~Ending(d, o)
      /\ ~InUse(o)
  <2>1. \A d \in Clients : ~Holds(d, o)
    BY DEF Create, HeldIsAlive
  <2>. QED
    BY <2>1, NobodyHolds DEF TypeOK, Holds, HeldIsAlive, OneEnds, Create
<1>2. /\ state' = [state EXCEPT ![o] = "alive"]
      /\ UNCHANGED <<releasing, deletions, stage, info, infoRefs, callbackVars>>
  BY DEF Create
<1>3. InfoCounted' /\ CrashOnlyInShutdown'
  BY <1>2, InfoAside DEF CrashOnlyInShutdown, Own
<1>4. InfoSet'
  BY <1>2 DEF InfoSet, TypeOK, Create
<1>5. CASE /\ refCount' = [refCount EXCEPT ![o] = AddRef(o, New)]
           /\ held' = [held EXCEPT ![c][o] = 1]
           /\ UNCHANGED refused
  <2>1. /\ refCount' = [refCount EXCEPT ![o] = @ + 1]
        /\ held' = [held EXCEPT ![c][o] = @ + 1]
        /\ held[c][o] < MaxHeld
    <3>1. held[c][o] = 0 /\ refCount[o] = 0
      BY <1>1
    <3>2. AddRef(o, New) = refCount[o] + 1
      BY <3>1 DEF AddRef, New
    <3>3. held' = [held EXCEPT ![c][o] = held[c][o] + 1]
      BY <1>5, <3>1
    <3>. QED
      BY <1>5, <3>1, <3>2, <3>3
  <2>2. Counted'
    BY <2>1, OneMore
  <2>3. TypeOK'
    <3>1. refCount' \in [Objects -> Nat] /\ held' \in [Clients -> [Objects -> 0 .. MaxHeld]]
      BY <1>1, <2>1 DEF TypeOK
    <3>. QED
      BY <1>2, <1>5, <3>1 DEF TypeOK
  <2>4. /\ \A q \in Objects : refCount'[q] = IF q = o THEN 1 ELSE refCount[q]
        /\ \A d \in Clients, q \in Objects :
             Holds(d, q)' <=> Holds(d, q) \/ (d = c /\ q = o)
    BY <1>1, <2>1 DEF TypeOK, Holds
  <2>5. OneEnds'
    BY <1>1, <1>2, <1>5, <2>4 DEF OneEnds, Ending, Last, Free, TypeOK
  <2>6. HeldIsAlive'
    BY <1>1, <1>2, <2>4 DEF HeldIsAlive, InUse, TypeOK, Create
  <2>. QED
    BY <1>3, <1>4, <2>2, <2>3, <2>5, <2>6
<1>6. CASE /\ refCount' = [refCount EXCEPT ![o] = New]
           /\ refused' = refused \cup {o}
           /\ UNCHANGED held
  <2>1. refCount' = refCount
    BY <1>1, <1>6 DEF New, TypeOK
  <2>2. TypeOK' /\ Counted'
    <3>1. refCount' \in [Objects -> Nat] /\ held' \in [Clients -> [Objects -> 0 .. MaxHeld]]
      BY <1>6, <2>1 DEF TypeOK
    <3>2. refused' \subseteq Objects
      BY <1>6 DEF TypeOK
    <3>3. TypeOK'
      BY <1>2, <3>1, <3>2 DEF TypeOK
    <3>4. Counted'
      BY <1>6, <2>1 DEF Counted, Pointers
    <3>. QED
      BY <3>3, <3>4
  <2>3. OneEnds'
    BY <1>1, <1>2, <1>6, <2>1 DEF OneEnds, Ending, Last, Free, TypeOK
  <2>4. HeldIsAlive'
    BY <1>1, <1>2, <1>6 DEF HeldIsAlive, InUse, Holds, TypeOK, Create
  <2>. QED
    BY <1>3, <1>4, <2>2, <2>3, <2>4
<1>. QED
  BY <1>5, <1>6 DEF Create

\* A further pointer goes to an object that somebody holds, which nobody is
\* about to delete.
LEMMA QueryInterfaceKeeps ==
    ASSUME LifetimeInductive, NEW c \in Clients, NEW d \in Clients, NEW o \in Objects,
           QueryInterface(c, d, o)
    PROVE  LifetimeInductive'
<1> USE DEF LifetimeInductive, callbackVars
<1>1. /\ held' = [held EXCEPT ![d][o] = @ + 1]
      /\ refCount' = [refCount EXCEPT ![o] = @ + 1]
      /\ held[d][o] < MaxHeld
      /\ UNCHANGED <<state, refused, releasing, deletions, stage, info, infoRefs,
                     callbackVars>>
  BY DEF QueryInterface, AddRef
<1>2. state[o] = "alive" /\ refCount[o] # 0 /\ refCount[o] \in Nat
  BY NobodyHolds DEF QueryInterface, HeldIsAlive, TypeOK
<1>3. Counted'
  BY <1>1, OneMore
<1>4. TypeOK'
  BY <1>1, <1>2 DEF TypeOK
<1>5. /\ \A q \in Objects : refCount'[q] = IF q = o THEN refCount[o] + 1 ELSE refCount[q]
      /\ \A e \in Clients, q \in Objects :
           Holds(e, q)' <=> Holds(e, q) \/ (e = d /\ q = o)
  BY <1>1 DEF TypeOK, Holds
<1>6. OneEnds'
  BY <1>1, <1>2, <1>5 DEF OneEnds, Ending, Last, Free
<1>7. HeldIsAlive'
  BY <1>1, <1>2, <1>5 DEF HeldIsAlive, InUse
<1>8. InfoCounted' /\ InfoSet' /\ CrashOnlyInShutdown'
  BY <1>1, InfoAside DEF InfoSet, CrashOnlyInShutdown, Own
<1>. QED
  BY <1>3, <1>4, <1>6, <1>7, <1>8

\* A release takes a pointer away, and if that was the last one nobody else is
\* about to delete the object: the count the client took away with it is zero
\* for this client only.
LEMMA ReleaseKeeps ==
    ASSUME LifetimeInductive, NEW c \in Clients, NEW o \in Objects, Release(c, o)
    PROVE  LifetimeInductive'
<1> USE DEF LifetimeInductive, callbackVars
<1>1. /\ held' = [held EXCEPT ![c][o] = @ - 1]
      /\ refCount' = [refCount EXCEPT ![o] = @ - 1]
      /\ releasing' = [releasing EXCEPT ![c] = [object |-> o, count |-> refCount[o] - 1]]
      /\ Holds(c, o) /\ Free(c)
      /\ UNCHANGED <<state, refused, deletions, stage, info, infoRefs, callbackVars>>
  BY DEF Release
<1>2. state[o] = "alive" /\ refCount[o] # 0 /\ refCount[o] \in Nat
  BY <1>1, NobodyHolds DEF HeldIsAlive, TypeOK
<1>3. Counted'
  BY <1>1, OneLess
<1>4. TypeOK'
  <2>1. /\ refCount[o] - 1 \in Nat /\ held[c][o] - 1 \in 0 .. MaxHeld
        /\ held \in [Clients -> [Objects -> 0 .. MaxHeld]] /\ refCount \in [Objects -> Nat]
        /\ releasing \in [Clients -> [object : Objects \cup {None}, count : Nat]]
    <3>1. held[c][o] \in 0 .. MaxHeld /\ held[c][o] > 0
      BY <1>1 DEF TypeOK, Holds
    <3>2. /\ held \in [Clients -> [Objects -> 0 .. MaxHeld]] /\ refCount \in [Objects -> Nat]
          /\ releasing \in [Clients -> [object : Objects \cup {None}, count : Nat]]
      BY DEF TypeOK
    <3> HIDE DEF LifetimeInductive
    <3>. QED
      BY <1>2, <3>1, <3>2
  <2>2. /\ refCount' \in [Objects -> Nat] /\ held' \in [Clients -> [Objects -> 0 .. MaxHeld]]
        /\ releasing' \in [Clients -> [object : Objects \cup {None}, count : Nat]]
    <3> HIDE DEF LifetimeInductive
    <3>. QED
      BY <1>1, <2>1
  <2>. QED
    BY <1>1, <2>1, <2>2 DEF TypeOK
<1>5. /\ \A q \in Objects : refCount'[q] = IF q = o THEN refCount[o] - 1 ELSE refCount[q]
      /\ \A d \in Clients : releasing'[d] = IF d = c THEN [object |-> o, count |-> refCount[o] - 1]
                                            ELSE releasing[d]
  BY <1>1 DEF TypeOK
<1>6. OneEnds'
  <2>1. o # None
    BY ObjectAssumption DEF Objects
  <2>2. \A d \in Clients, q \in Objects :
            Ending(d, q)' <=> IF d = c THEN q = o /\ refCount[o] = 1 ELSE Ending(d, q)
    BY <1>2, <1>5 DEF Ending, Last
  <2>3. \A q \in Objects : ~Ending(c, q)
    BY <1>1, ObjectAssumption DEF Ending, Free, Idle, Objects
  <2>4. \A d \in Clients : ~Ending(d, o)
    BY <1>2 DEF OneEnds
  <2>5. \A d \in Clients : ~Free(d)' => releasing'[d].object \in Objects
    BY <1>5 DEF OneEnds, Free
  <2>6. \A d \in Clients, q \in Objects : Ending(d, q)' =>
          /\ state'[q] = "alive" /\ refCount'[q] = 0
          /\ \A e \in Clients : Ending(e, q)' => e = d
    BY <1>1, <1>2, <1>5, <2>2, <2>4 DEF OneEnds
  <2>7. \A q \in Objects : state'[q] = "alive" /\ refCount'[q] = 0 =>
          q \in refused' \/ \E d \in Clients : Ending(d, q)'
    BY <1>1, <1>2, <1>5, <2>2, <2>3 DEF OneEnds
  <2>. QED
    BY <2>5, <2>6, <2>7 DEF OneEnds
<1>7. HeldIsAlive'
  <2>1. \A d \in Clients, q \in Objects :
            Holds(d, q)' <=> IF d = c /\ q = o THEN held[c][o] > 1 ELSE Holds(d, q)
    BY <1>1 DEF TypeOK, Holds
  <2>2. \A q \in Objects : InUse(q)' <=> InUse(q)
    BY <1>1 DEF InUse
  <2>3. ASSUME InUse(o) PROVE \E d \in Clients : Holds(d, o)'
    BY <2>1, <2>3 DEF Release, OthersHold
  <2>4. \A q \in Objects : InUse(q)' => \E d \in Clients : Holds(d, q)'
    BY <2>1, <2>2, <2>3 DEF HeldIsAlive
  <2>5. \A d \in Clients, q \in Objects : Holds(d, q)' => state'[q] = "alive"
    BY <1>1, <1>2, <2>1 DEF HeldIsAlive
  <2>. QED
    BY <1>1, <2>4, <2>5 DEF HeldIsAlive
<1>8. InfoCounted' /\ InfoSet' /\ CrashOnlyInShutdown'
  BY <1>1, InfoAside DEF InfoSet, CrashOnlyInShutdown, Own
<1>. QED
  BY <1>3, <1>4, <1>6, <1>7, <1>8

\* A set loses an element that it may have had.
LEMMA OneInfoLess ==
    ASSUME NEW S, NEW x, IsFiniteSet(S)
    PROVE  /\ IsFiniteSet(S \ {x})
           /\ Cardinality(S) \in Nat /\ Cardinality(S \ {x}) \in Nat
           /\ Cardinality(S \ {x}) = IF x \in S THEN Cardinality(S) - 1 ELSE Cardinality(S)
BY FS_RemoveElement, FS_CardinalityType

\* A set gains an element that it may have had.
LEMMA OneInfoMore ==
    ASSUME NEW S, NEW x, IsFiniteSet(S)
    PROVE  /\ IsFiniteSet(S \cup {x})
           /\ Cardinality(S) \in Nat /\ Cardinality(S \cup {x}) \in Nat
           /\ Cardinality(S \cup {x}) = IF x \in S THEN Cardinality(S) ELSE Cardinality(S) + 1
BY FS_AddElement, FS_CardinalityType

\* The deletion comes when no pointer is left, and releases ICorProfilerInfo5
\* once if Shutdown has not done so.
LEMMA ReleasedKeeps ==
    ASSUME LifetimeInductive, NEW c \in Clients, Released(c)
    PROVE  LifetimeInductive'
<1> USE DEF LifetimeInductive, callbackVars
<1> DEFINE o == releasing[c].object
<1>1. /\ releasing' = [releasing EXCEPT ![c] = Idle]
      /\ o \in Objects
      /\ UNCHANGED <<refCount, refused, held, stage, callbackVars>>
  BY DEF Released, OneEnds
<1>2. \A d \in Clients, q \in Objects : Ending(d, q)' <=> d # c /\ Ending(d, q)
  BY <1>1, ObjectAssumption DEF TypeOK, Ending, Last, Idle, Objects
<1>3. Counted'
  BY <1>1 DEF Counted, Pointers
<1>4. /\ \A d \in Clients : ~Free(d)' => releasing'[d].object \in Objects
      /\ \A d \in Clients, q \in Objects : Holds(d, q)' <=> Holds(d, q)
      /\ \A q \in Objects : InUse(q)' <=> InUse(q)
      /\ releasing' \in [Clients -> [object : Objects \cup {None}, count : Nat]]
  BY <1>1 DEF OneEnds, Free, TypeOK, Idle, Holds, InUse
<1>5. CASE ~Last(c)
  <2>1. UNCHANGED <<state, deletions, info, infoRefs>>
    BY <1>5 DEF Released
  <2>2. TypeOK'
    BY <1>1, <1>4, <2>1 DEF TypeOK
  <2>3. OneEnds'
    <3>1. \A q \in Objects : ~Ending(c, q)
      BY <1>5 DEF Ending
    <3>. QED
      BY <1>1, <1>2, <1>4, <2>1, <3>1 DEF OneEnds
  <2>4. HeldIsAlive'
    BY <1>4, <2>1 DEF HeldIsAlive
  <2>5. InfoCounted' /\ InfoSet' /\ CrashOnlyInShutdown'
    BY <1>1, <2>1, InfoAside DEF InfoSet, CrashOnlyInShutdown, Own
  <2>. QED
    BY <1>3, <2>2, <2>3, <2>4, <2>5
<1>6. CASE Last(c)
  <2>1. /\ state' = [state EXCEPT ![o] = "deleted"]
        /\ deletions' = [deletions EXCEPT ![o] = @ + 1]
        /\ info' = info \ {o}
        /\ infoRefs' = IF o \in info THEN infoRefs - 1 ELSE infoRefs
    BY <1>6 DEF Released
  <2>2. /\ state[o] = "alive" /\ refCount[o] = 0
        /\ \A d \in Clients : ~Holds(d, o)
        /\ ~InUse(o)
        /\ \A d \in Clients : Ending(d, o) => d = c
    BY <1>1, <1>6, NobodyHolds DEF Ending, OneEnds, HeldIsAlive
  <2>3. InfoCounted' /\ infoRefs' \in Nat
    <3>1. UNCHANGED <<Shutting, copy>>
      BY <1>1 DEF Shutting
    <3>2. /\ IsFiniteSet(info)
          /\ IsFiniteSet(Shutting) /\ Cardinality(Shutting) \in Nat
          /\ IsFiniteSet(copy) /\ Cardinality(copy) \in Nat
      BY FS_CardinalityType DEF InfoCounted
    <3>3. /\ IsFiniteSet(info \ {o})
          /\ Cardinality(info) \in Nat /\ Cardinality(info \ {o}) \in Nat
          /\ Cardinality(info \ {o}) = IF o \in info THEN Cardinality(info) - 1
                                                  ELSE Cardinality(info)
      BY <3>2, OneInfoLess
    <3>4. infoRefs = 1 + Cardinality(info) + Cardinality(copy) + Cardinality(Shutting)
      BY DEF InfoCounted, InfoBalanced
    <3> HIDE DEF o
    <3>5. infoRefs' = 1 + Cardinality(info \ {o}) + Cardinality(copy) + Cardinality(Shutting)
      BY <2>1, <3>2, <3>3, <3>4
    <3>. QED
      BY <2>1, <3>1, <3>2, <3>3, <3>5 DEF InfoCounted, InfoBalanced
  <2>4. TypeOK'
    <3>1. state' \in [Objects -> {"absent", "alive", "deleted"}] /\ deletions' \in [Objects -> Nat]
      BY <1>1, <2>1 DEF TypeOK
    <3>. QED
      BY <1>1, <1>4, <2>1, <2>3, <3>1 DEF TypeOK
  <2>5. OneEnds'
    <3>1. \A q \in Objects : state'[q] = "alive" <=> q # o /\ state[q] = "alive"
      BY <1>1, <2>1 DEF TypeOK
    <3>2. \A q \in Objects : q # o => ~Ending(c, q)
      BY DEF Ending
    <3> HIDE DEF o
    <3>. QED
      BY <1>1, <1>2, <1>4, <2>2, <3>1, <3>2 DEF OneEnds
  <2>6. HeldIsAlive'
    BY <1>1, <1>4, <2>1, <2>2 DEF HeldIsAlive, TypeOK
  <2>7. InfoSet'
    BY <1>1, <2>1 DEF InfoSet, TypeOK
  <2>8. CrashOnlyInShutdown'
    BY <1>1 DEF CrashOnlyInShutdown, Own
  <2>. QED
    BY <1>3, <2>3, <2>4, <2>5, <2>6, <2>7, <2>8
<1>. QED
  BY <1>5, <1>6

-----------------------------------------------------------------------------
(* Initialize, Shutdown and the callbacks.                                 *)

\* The finite numbers that the count of ICorProfilerInfo5 is made of.
LEMMA InfoParts ==
    ASSUME InfoCounted
    PROVE  /\ IsFiniteSet(info) /\ IsFiniteSet(copy) /\ IsFiniteSet(Shutting)
           /\ Cardinality(info) \in Nat
           /\ Cardinality(copy) \in Nat
           /\ Cardinality(Shutting) \in Nat
           /\ infoRefs = 1 + Cardinality(info) + Cardinality(copy) + Cardinality(Shutting)
BY FS_CardinalityType DEF InfoCounted, InfoBalanced

\* Initialize counts the pointer it gets, whatever becomes of it then.
LEMMA InitializeKeeps ==
    ASSUME LifetimeInductive, NEW c \in Clients, NEW p \in Profilers, Initialize(c, p)
    PROVE  LifetimeInductive'
<1> USE DEF LifetimeInductive, callbackVars
<1>1. PICK queried \in BOOLEAN, masked \in BOOLEAN :
        /\ stage' = [stage EXCEPT ![p] = AfterInitialize(queried, masked)]
        /\ info' = IF queried THEN info \cup {p} ELSE info
        /\ infoRefs' = IF queried THEN infoRefs + 1 ELSE infoRefs
  BY DEF Initialize
<1>2. /\ stage[p] = "created" /\ Holds(c, p) /\ state[p] = "alive" /\ p \notin info
      /\ UNCHANGED <<objectVars, pc, of, copy, crashed>>
  BY DEF Initialize, HeldIsAlive, InfoSet, Objects
<1>3. \A q \in Profilers : stage'[q] = IF q = p THEN AfterInitialize(queried, masked)
                                              ELSE stage[q]
  BY <1>1 DEF TypeOK
<1>4. \A q \in Profilers : q # p => (q \in info' <=> q \in info)
  BY <1>1
<1>5. AfterInitialize(queried, masked) \in {"ready", "failed"}
      /\ (AfterInitialize(queried, masked) = "ready" => p \in info')
  BY <1>1 DEF AfterInitialize
<1>6. Counted' /\ OneEnds'
  BY <1>2, ObjectsAside
<1>7. Shutting' = Shutting
  BY <1>2, <1>3, <1>5 DEF Shutting
<1>8. InfoCounted' /\ infoRefs' \in Nat /\ info' \subseteq Profilers
  <2>1. /\ IsFiniteSet(info \cup {p})
        /\ Cardinality(info \cup {p}) = Cardinality(info) + 1
    BY <1>2, InfoParts, OneInfoMore
  <2>2. info \subseteq Profilers
    BY DEF TypeOK
  <2> HIDE DEF LifetimeInductive
  <2>3. CASE queried
    BY <1>1, <1>2, <1>7, <2>1, <2>2, <2>3, InfoParts DEF InfoCounted, InfoBalanced,
       LifetimeInductive
  <2>4. CASE ~queried
    BY <1>1, <1>2, <1>7, <2>2, <2>4, InfoParts DEF InfoCounted, InfoBalanced,
       LifetimeInductive
  <2>. QED
    BY <2>3, <2>4
<1>9. TypeOK'
  BY <1>1, <1>2, <1>5, <1>8 DEF TypeOK, objectVars
<1>10. HeldIsAlive'
  BY <1>2, <1>3, <1>5 DEF HeldIsAlive, InUse, Holds, objectVars
<1>11. InfoSet'
  <2>1. UNCHANGED <<state, pc, of, copy, crashed>>
    BY <1>2 DEF objectVars
  <2>2. \A th \in Threads : pc[th] # 0 => of[th] \in Profilers /\ of[th] # p
    BY <1>2 DEF InfoSet, TypeOK
  <2>3. ASSUME NEW q \in Profilers
        PROVE  /\ stage'[q] \in {"created", "shutting", "down"} => q \notin info'
               /\ state'[q] = "absent" => stage'[q] = "created"
               /\ stage'[q] = "ready" /\ state'[q] = "alive" => q \in info'
    BY <1>2, <1>3, <1>4, <1>5, <2>1 DEF InfoSet
  <2>4. \A th \in Threads :
           /\ pc'[th] # 0 =>
                of'[th] # None /\ stage'[of'[th]] \in {"ready", "shutting", "down"}
           /\ pc'[th] > CopyUse /\ of'[th] \in info' => th \in copy'
    BY <1>3, <1>4, <2>1, <2>2 DEF InfoSet, CopyUse, TypeOK
  <2>5. \A th \in copy' : pc'[th] > CopyUse \/ th \in crashed'
    BY <2>1 DEF InfoSet
  <2> HIDE DEF LifetimeInductive
  <2>. QED
    BY <2>3, <2>4, <2>5 DEF InfoSet
<1>12. CrashOnlyInShutdown'
  BY <1>1, <1>2, <1>5 DEF CrashOnlyInShutdown, Own, TypeOK
<1>. QED
  BY <1>6, <1>8, <1>9, <1>10, <1>11, <1>12

\* Shutdown turns the profiler's pointer into one that is being released.
LEMMA ShutdownKeeps ==
    ASSUME LifetimeInductive, NEW c \in Clients, NEW p \in Profilers, Shutdown(c, p)
    PROVE  LifetimeInductive'
<1> USE DEF LifetimeInductive, callbackVars
<1>1. /\ stage' = [stage EXCEPT ![p] = "shutting"]
      /\ info' = info \ {p}
      /\ p \in info
      /\ stage[p] = "ready" /\ Holds(c, p)
      /\ UNCHANGED <<objectVars, infoRefs, pc, of, copy, crashed>>
  BY DEF Shutdown, HeldIsAlive, InfoSet, Objects
<1>2. Counted' /\ OneEnds'
  BY <1>1, ObjectsAside
<1>3. InfoCounted'
  <2>1. Shutting' = Shutting \cup {p} /\ p \notin Shutting
    BY <1>1 DEF Shutting, TypeOK
  <2>2. /\ IsFiniteSet(info \ {p})
        /\ Cardinality(info \ {p}) \in Nat /\ Cardinality(info \ {p}) = Cardinality(info) - 1
    BY <1>1, InfoParts, OneInfoLess
  <2>3. /\ IsFiniteSet(Shutting \cup {p})
        /\ Cardinality(Shutting \cup {p}) = Cardinality(Shutting) + 1
    BY <2>1, InfoParts, OneInfoMore
  <2>. QED
    BY <1>1, <2>1, <2>2, <2>3, InfoParts DEF InfoCounted, InfoBalanced
<1>4. TypeOK'
  BY <1>1 DEF TypeOK, objectVars
<1>5. HeldIsAlive'
  BY <1>1 DEF HeldIsAlive, InUse, Holds, objectVars, TypeOK, Objects
<1>6. InfoSet'
  BY <1>1 DEF InfoSet, TypeOK, objectVars
<1>7. CrashOnlyInShutdown'
  BY <1>1 DEF CrashOnlyInShutdown, Own, TypeOK
<1>. QED
  BY <1>2, <1>3, <1>4, <1>5, <1>6, <1>7

\* The end of Shutdown takes one from the count.
LEMMA ShutdownReleasesKeeps ==
    ASSUME LifetimeInductive, NEW p \in Profilers, ShutdownReleases(p)
    PROVE  LifetimeInductive'
<1> USE DEF LifetimeInductive, callbackVars
<1>1. /\ stage' = [stage EXCEPT ![p] = "down"]
      /\ infoRefs' = infoRefs - 1
      /\ stage[p] = "shutting"
      /\ UNCHANGED <<objectVars, info, pc, of, copy, crashed>>
  BY DEF ShutdownReleases
<1>2. Counted' /\ OneEnds'
  BY <1>1, ObjectsAside
<1>3. InfoCounted' /\ infoRefs' \in Nat
  <2>1. Shutting' = Shutting \ {p} /\ p \in Shutting
    BY <1>1 DEF Shutting, TypeOK
  <2>2. /\ IsFiniteSet(Shutting \ {p})
        /\ Cardinality(Shutting \ {p}) \in Nat
        /\ Cardinality(Shutting \ {p}) = Cardinality(Shutting) - 1
    BY <2>1, InfoParts, OneInfoLess
  <2>. QED
    BY <1>1, <2>1, <2>2, InfoParts DEF InfoCounted, InfoBalanced
<1>4. TypeOK'
  BY <1>1, <1>3 DEF TypeOK, objectVars
<1>5. HeldIsAlive'
  BY <1>1 DEF HeldIsAlive, InUse, Holds, objectVars, TypeOK, Objects
<1>6. InfoSet'
  BY <1>1 DEF InfoSet, TypeOK, objectVars
<1>7. CrashOnlyInShutdown'
  BY <1>1 DEF CrashOnlyInShutdown, Own, TypeOK
<1>. QED
  BY <1>2, <1>3, <1>4, <1>5, <1>6, <1>7

\* A callback starts in a profiler that has been initialised and is held.
LEMMA ModuleLoadFinishedKeeps ==
    ASSUME LifetimeInductive, NEW th \in Threads, NEW p \in Profilers,
           ModuleLoadFinished(th, p)
    PROVE  LifetimeInductive'
<1> USE DEF LifetimeInductive, ModuleLoadFinished
<1>1. Counted' /\ OneEnds' /\ InfoCounted'
  BY ObjectsAside, InfoAside
<1>2. TypeOK'
  BY DEF TypeOK, objectVars, OwnUse
<1>3. HeldIsAlive'
  BY DEF HeldIsAlive, InUse, Holds, objectVars, TypeOK, Objects
<1>4. InfoSet'
  BY ObjectAssumption DEF InfoSet, TypeOK, objectVars, CopyUse
<1>5. CrashOnlyInShutdown'
  BY DEF CrashOnlyInShutdown, Own, TypeOK, OwnUse
<1>. QED
  BY <1>1, <1>2, <1>3, <1>4, <1>5

\* A use goes through a pointer that is set, and so does the one that reaches
\* Instrument: the copy is there.
LEMMA UseKeeps ==
    ASSUME LifetimeInductive, NEW th \in Threads, Use(th)
    PROVE  LifetimeInductive'
<1> USE DEF LifetimeInductive, Use
<1>1. Counted' /\ OneEnds' /\ InfoCounted'
  BY ObjectsAside, InfoAside
<1>2. pc[th] \in 1 .. 7 /\ pc[th] # CopyUse /\ pc'[th] = pc[th] + 1
      /\ of[th] \in info
      /\ \A t \in Threads : t # th => pc'[t] = pc[t]
  BY DEF TypeOK, Calls, Points, OwnUse
<1>3. TypeOK'
  BY <1>2 DEF TypeOK, objectVars, OwnUse
<1>4. HeldIsAlive'
  BY DEF HeldIsAlive, InUse, Holds, objectVars
<1>5. InfoSet'
  BY <1>2 DEF InfoSet, TypeOK, objectVars, CopyUse
<1>6. CrashOnlyInShutdown'
  BY <1>2 DEF CrashOnlyInShutdown, Own, TypeOK, OwnUse, InfoSet, CopyUse
<1>. QED
  BY <1>1, <1>3, <1>4, <1>5, <1>6

\* The copy of a pointer that is set counts.
LEMMA CopyKeeps ==
    ASSUME LifetimeInductive, NEW th \in Threads, Copy(th), crashed = {}
    PROVE  LifetimeInductive'
<1> USE DEF LifetimeInductive, Copy
<1>1. Counted' /\ OneEnds'
  BY ObjectsAside
<1>2. pc[th] = CopyUse /\ pc'[th] = pc[th] + 1 /\ th \notin copy
      /\ \A t \in Threads : t # th => pc'[t] = pc[t]
  BY DEF TypeOK, InfoSet, CopyUse
<1>3. InfoCounted' /\ infoRefs' \in Nat
  <2>1. IsFiniteSet(copy \cup {th}) /\ Cardinality(copy \cup {th}) = Cardinality(copy) + 1
    BY <1>2, InfoParts, OneInfoMore
  <2>2. Shutting' = Shutting
    BY DEF Shutting
  <2>. QED
    BY <2>1, <2>2, InfoParts DEF InfoCounted, InfoBalanced
<1>4. TypeOK'
  BY <1>2, <1>3 DEF TypeOK, objectVars, CopyUse, OwnUse
<1>5. HeldIsAlive'
  BY DEF HeldIsAlive, InUse, Holds, objectVars
<1>6. InfoSet'
  BY <1>2 DEF InfoSet, TypeOK, objectVars, CopyUse
<1>7. CrashOnlyInShutdown'
  BY <1>2 DEF CrashOnlyInShutdown, Own, TypeOK, OwnUse, CopyUse
<1>. QED
  BY <1>1, <1>3, <1>4, <1>5, <1>6, <1>7

\* A null pointer is met only before the copy is taken, or in spite of it in the
\* original; either way Shutdown has cleared it, since the profiler is held.
LEMMA CrashKeeps ==
    ASSUME LifetimeInductive, NEW th \in Threads, Crash(th), crashed = {}
    PROVE  LifetimeInductive'
<1> USE DEF LifetimeInductive, Crash
<1>1. Counted' /\ OneEnds' /\ InfoCounted'
  BY ObjectsAside, InfoAside
<1>2. TypeOK'
  BY DEF TypeOK, objectVars, OwnUse
<1>3. HeldIsAlive'
  BY DEF HeldIsAlive, InUse, Holds, objectVars
<1>4. InfoSet'
  BY DEF InfoSet, TypeOK, objectVars, CopyUse
<1>5. of[th] \in Profilers /\ stage[of[th]] \in {"ready", "shutting", "down"}
      /\ of[th] \notin info
  <2>1. pc[th] # 0 /\ pc[th] # OwnUse
    BY DEF Calls, Points, CrashOnlyInShutdown
  <2>. QED
    BY <2>1 DEF TypeOK, InfoSet, Points
<1>6. state[of[th]] = "alive"
  BY <1>5 DEF HeldIsAlive, InUse, Objects
<1>7. stage[of[th]] \in {"shutting", "down"}
  BY <1>5, <1>6 DEF InfoSet
<1>8. CrashOnlyInShutdown'
  BY <1>7 DEF CrashOnlyInShutdown, Own, TypeOK, OwnUse
<1>. QED
  BY <1>1, <1>2, <1>3, <1>4, <1>8

\* Whatever way the callback ends, its copy is released.
LEMMA LeaveKeeps ==
    ASSUME LifetimeInductive, NEW th \in Threads, Leave(th), crashed = {}
    PROVE  LifetimeInductive'
<1> USE DEF LifetimeInductive, Leave
<1>1. Counted' /\ OneEnds'
  BY ObjectsAside
<1>2. InfoCounted' /\ infoRefs' \in Nat
  <2>1. /\ IsFiniteSet(copy \ {th}) /\ Cardinality(copy \ {th}) \in Nat
        /\ Cardinality(copy \ {th}) = IF th \in copy THEN Cardinality(copy) - 1
                                                  ELSE Cardinality(copy)
    BY InfoParts, OneInfoLess
  <2>2. Shutting' = Shutting
    BY DEF Shutting
  <2>. QED
    BY <2>1, <2>2, InfoParts DEF InfoCounted, InfoBalanced
<1>3. TypeOK'
  BY <1>2 DEF TypeOK, objectVars, OwnUse
<1>4. HeldIsAlive'
  BY ObjectAssumption DEF HeldIsAlive, InUse, Holds, objectVars, TypeOK, Objects
<1>5. InfoSet'
  BY DEF InfoSet, TypeOK, objectVars, CopyUse
<1>6. CrashOnlyInShutdown'
  BY DEF CrashOnlyInShutdown, Own, TypeOK, OwnUse
<1>. QED
  BY <1>1, <1>2, <1>3, <1>4, <1>5, <1>6

-----------------------------------------------------------------------------
(* The theorems.                                                           *)

\* Every step keeps the inductive invariant.
LEMMA LifetimeStep == LifetimeInductive /\ [Next]_vars => LifetimeInductive'
<1> SUFFICES ASSUME LifetimeInductive, [Next]_vars PROVE LifetimeInductive'
  OBVIOUS
<1>1. ASSUME NEW c \in Clients, Client(c) PROVE LifetimeInductive'
  BY <1>1, CreateKeeps, QueryInterfaceKeeps, ReleaseKeeps, ReleasedKeeps, InitializeKeeps,
     ShutdownKeeps
     DEF Client, DllGetClassObject, CreateInstance, Objects
<1>2. ASSUME NEW th \in Threads, Callback(th), crashed = {} PROVE LifetimeInductive'
  BY <1>2, ModuleLoadFinishedKeeps, UseKeeps, CopyKeeps, CrashKeeps, LeaveKeeps DEF Callback
<1>3. CASE UNCHANGED vars
  <2>1. Counted' /\ OneEnds' /\ InfoCounted'
    BY <1>3, ObjectsAside, InfoAside DEF vars, callbackVars, LifetimeInductive
  <2>2. TypeOK' /\ HeldIsAlive' /\ InfoSet' /\ CrashOnlyInShutdown'
    BY <1>3 DEF vars, objectVars, callbackVars, LifetimeInductive, TypeOK, HeldIsAlive, InUse,
         Holds, InfoSet, CrashOnlyInShutdown, Own
  <2>. QED
    BY <2>1, <2>2 DEF LifetimeInductive
<1>. QED
  BY <1>1, <1>2, <1>3, ShutdownReleasesKeeps DEF Next

\* Initially there is no object, and the CLR alone has ICorProfilerInfo5.
LEMMA LifetimeInit == Init => LifetimeInductive
<1> SUFFICES ASSUME Init PROVE LifetimeInductive
  OBVIOUS
<1>1. TypeOK
  BY DEF Init, TypeOK, Idle, OwnUse
<1>2. Counted
  <2>1. \A o \in Objects : Pointers(o) = {}
    BY DEF Init, Pointers
  <2>. QED
    BY <2>1, FS_EmptySet DEF Init, Counted
<1>3. OneEnds /\ HeldIsAlive
  BY ObjectAssumption
     DEF Init, OneEnds, HeldIsAlive, Free, Ending, Idle, Holds, InUse, Objects
<1>4. InfoCounted
  <2>1. Shutting = {}
    BY DEF Init, Shutting
  <2>. QED
    BY <2>1, FS_EmptySet DEF Init, InfoCounted, InfoBalanced
<1>5. InfoSet /\ CrashOnlyInShutdown
  BY DEF Init, InfoSet, CrashOnlyInShutdown, CopyUse, OwnUse
<1>. QED
  BY <1>1, <1>2, <1>3, <1>4, <1>5 DEF LifetimeInductive

\* The inductive invariant, and with it type correctness: no count ever drops
\* below zero.
THEOREM LifetimeInvariant == Spec => []LifetimeInductive
BY LifetimeInit, LifetimeStep, PTL DEF Spec

\* Objects live as long as they are held or called, are deleted once, and are
\* deleted when nobody has them, however releases interleave.
THEOREM ObjectsLiveWhileHeld == Spec => []LivesWhileHeld
<1>1. LifetimeInductive => LivesWhileHeld
  <2> SUFFICES ASSUME LifetimeInductive PROVE LivesWhileHeld
    OBVIOUS
  <2> USE DEF LifetimeInductive
  <2>1. \A th \in Threads : of[th] # None => of[th] \in Objects /\ state[of[th]] = "alive"
    BY DEF TypeOK, HeldIsAlive, InUse, Objects
  <2>2. ASSUME NEW o \in Objects, state[o] = "alive",
               \A c \in Clients : ~Holds(c, o) /\ releasing[c].object # o
        PROVE  o \in refused
    BY <2>2, NobodyHolds DEF OneEnds, Ending
  <2>. QED
    BY <2>1, <2>2 DEF LivesWhileHeld, HeldIsAlive
<1>. QED
  BY <1>1, LifetimeInvariant, PTL

\* Nobody releases ICorProfilerInfo5 too often or forgets to.
THEOREM InfoAlwaysBalanced == Spec => []InfoBalanced
<1>1. LifetimeInductive => InfoBalanced
  BY DEF LifetimeInductive, InfoCounted
<1>. QED
  BY <1>1, LifetimeInvariant, PTL

\* A null pointer is met in a race with Shutdown only, and never by the
\* instrumenter.
THEOREM CrashesOnlyInShutdown == Spec => []CrashOnlyInShutdown
<1>1. LifetimeInductive => CrashOnlyInShutdown
  BY DEF LifetimeInductive
<1>. QED
  BY <1>1, LifetimeInvariant, PTL

=============================================================================
