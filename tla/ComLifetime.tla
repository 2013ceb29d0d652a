-------------------------------- MODULE ComLifetime --------------------------------
(***************************************************************************)
(* The lifetime of ProfilerHost's COM objects, and of the pointer to       *)
(* ICorProfilerInfo5 that CorProfiler keeps.                               *)
(*                                                                         *)
(* Class factories and profilers are made with a count of zero and handed  *)
(* out by QueryInterface; the release that brings the count to zero        *)
(* deletes them.  The CLR initialises a profiler, calls ModuleLoadFinished *)
(* on several threads, and calls Shutdown, which clears corProfilerInfo    *)
(* without a lock, while a callback may still be reading it.               *)
(***************************************************************************)
EXTENDS Integers, FiniteSets

CONSTANTS
    Clients,    \* holders of COM pointers, the CLR among them
    Threads,    \* CLR threads that load modules
    Factories,  \* ClassFactory objects there may be
    Profilers,  \* CorProfiler objects there may be
    MaxHeld,    \* bound: pointers to an object that one client holds
    None

ASSUME ObjectAssumption == Factories \cap Profilers = {} /\ None \notin Factories \cup Profilers

ASSUME HeldAssumption == MaxHeld \in Nat \ {0}

Objects == Factories \cup Profilers

VARIABLES
    state,     \* object -> absent, alive or deleted
    refCount,  \* object -> its count
    refused,   \* objects whose first QueryInterface asked for an unknown interface
    held,      \* client -> object -> pointers the client holds
    releasing, \* client -> the object and the count in the middle of a Release
    deletions, \* object -> times it was deleted
    stage,     \* profiler -> created, ready, failed, shutting or down
    info,      \* profilers whose corProfilerInfo is set
    infoRefs,  \* the count of the ICorProfilerInfo5 object
    pc,        \* thread -> the next use of the pointer in ModuleLoadFinished, or 0
    of,        \* thread -> the profiler that is called
    copy,      \* threads whose instrumenter holds a copy of the pointer
    crashed    \* threads that have called through a null pointer

objectVars == <<state, refCount, refused, held, releasing, deletions>>
callbackVars == <<pc, of, copy, crashed>>
vars == <<objectVars, stage, info, infoRefs, callbackVars>>

Idle == [object |-> None, count |-> 0]

Init ==
    /\ state = [o \in Objects |-> "absent"]
    /\ refCount = [o \in Objects |-> 0]
    /\ refused = {}
    /\ held = [c \in Clients |-> [o \in Objects |-> 0]]
    /\ releasing = [c \in Clients |-> Idle]
    /\ deletions = [o \in Objects |-> 0]
    /\ stage = [p \in Profilers |-> "created"]
    /\ info = {}
    /\ infoRefs = 1                                  \* the CLR's own
    /\ pc = [th \in Threads |-> 0]
    /\ of = [th \in Threads |-> None]
    /\ copy = {}
    /\ crashed = {}

\* Operators named Wrong... are plausible mistakes in the code: each replaces
\* the definition it precedes to show that a property notices.

Free(c) == releasing[c] = Idle
Holds(c, o) == held[c][o] > 0

\* Clients keep to the rules of COM: while a call into the profiler is in
\* progress, one of them has a pointer to it.
InUse(o) == (\E th \in Threads : of[th] = o) \/ (o \in Profilers /\ stage[o] = "shutting")
OthersHold(c, o) == held[c][o] > 1 \/ \E d \in Clients \ {c} : Holds(d, o)

-----------------------------------------------------------------------------
(* Reference counts.                                                       *)

\* The constructors of both classes.
New == 0

WrongAddRef(o, n) == n

\* QueryInterface counts the pointer it returns.
AddRef(o, n) == n + 1

\* Object o is made and its first QueryInterface succeeds, or is refused: then
\* nobody has it.
Create(c, o) ==
    /\ state[o] = "absent"
    /\ state' = [state EXCEPT ![o] = "alive"]
    /\ \/ /\ refCount' = [refCount EXCEPT ![o] = AddRef(o, New)]
          /\ held' = [held EXCEPT ![c][o] = 1]
          /\ UNCHANGED refused
       \/ /\ refCount' = [refCount EXCEPT ![o] = New]
          /\ refused' = refused \cup {o}
          /\ UNCHANGED held
    /\ UNCHANGED <<releasing, deletions, stage, info, infoRefs, callbackVars>>

DllGetClassObject(c, f) == Free(c) /\ Create(c, f)

CreateInstance(c, f, p) == Free(c) /\ Holds(c, f) /\ Create(c, p)

\* A holder gets a further pointer, for itself or for another client.
QueryInterface(c, d, o) ==
    /\ Free(c) /\ Holds(c, o)
    /\ held[d][o] < MaxHeld
    /\ refCount' = [refCount EXCEPT ![o] = AddRef(o, @)]
    /\ held' = [held EXCEPT ![d][o] = @ + 1]
    /\ UNCHANGED <<state, refused, releasing, deletions, stage, info, infoRefs, callbackVars>>

\* Release: the atomic subtraction ...
Release(c, o) ==
    /\ Free(c) /\ Holds(c, o)
    /\ InUse(o) => OthersHold(c, o)
    /\ held' = [held EXCEPT ![c][o] = @ - 1]
    /\ refCount' = [refCount EXCEPT ![o] = @ - 1]
    /\ releasing' = [releasing EXCEPT ![c] = [object |-> o, count |-> refCount[o] - 1]]
    /\ UNCHANGED <<state, refused, deletions, stage, info, infoRefs, callbackVars>>

WrongLast(c) == refCount[releasing[c].object] <= 0

\* ... whose result says whether it was the last.
Last(c) == releasing[c].count <= 0

\* The object is deleted; ~CorProfiler releases corProfilerInfo if it is set.
Released(c) ==
    LET o == releasing[c].object
    IN  /\ ~Free(c)
        /\ releasing' = [releasing EXCEPT ![c] = Idle]
        /\ \/ /\ Last(c)
              /\ state' = [state EXCEPT ![o] = "deleted"]
              /\ deletions' = [deletions EXCEPT ![o] = @ + 1]
              /\ info' = info \ {o}
              /\ infoRefs' = IF o \in info THEN infoRefs - 1 ELSE infoRefs
           \/ /\ ~Last(c)
              /\ UNCHANGED <<state, deletions, info, infoRefs>>
        /\ UNCHANGED <<refCount, refused, held, stage, callbackVars>>

-----------------------------------------------------------------------------
(* CorProfiler::Initialize and Shutdown.                                   *)

\* A failed QueryInterface is E_FAIL; else the result is that of SetEventMask.
AfterInitialize(queried, masked) == IF queried /\ masked THEN "ready" ELSE "failed"

\* The CLR goes on with the profiler if the call succeeds.
Initialize(c, p) ==
    /\ Free(c) /\ Holds(c, p)
    /\ stage[p] = "created"
    /\ \E queried, masked \in BOOLEAN :
         /\ stage' = [stage EXCEPT ![p] = AfterInitialize(queried, masked)]
         /\ info' = IF queried THEN info \cup {p} ELSE info
         /\ infoRefs' = IF queried THEN infoRefs + 1 ELSE infoRefs
    /\ UNCHANGED <<objectVars, callbackVars>>

\* If the pointer is set, CComPtr::Release clears it ...
Shutdown(c, p) ==
    /\ Free(c) /\ Holds(c, p)
    /\ stage[p] = "ready"
    /\ stage' = [stage EXCEPT ![p] = IF p \in info THEN "shutting" ELSE "down"]
    /\ info' = info \ {p}
    /\ UNCHANGED <<objectVars, infoRefs, callbackVars>>

\* ... and releases what it pointed to.
ShutdownReleases(p) ==
    /\ stage[p] = "shutting"
    /\ stage' = [stage EXCEPT ![p] = "down"]
    /\ infoRefs' = infoRefs - 1
    /\ UNCHANGED <<objectVars, info, callbackVars>>

-----------------------------------------------------------------------------
(* ModuleLoadFinished.  GetModuleDescription and the instrumenter factory  *)
(* call through corProfilerInfo (uses 1 to 4); the constructor of          *)
(* ModuleInstrumenter copies it (use 5), but its body goes on to call      *)
(* through its parameter, the original (6 and 7).  The rest, ReadModuleInfo *)
(* and Instrument with the calls to the server, has the copy (8).          *)

CopyUse == 5
OwnUse == 8

WrongOwn(th) == of[th] \in info

\* What the instrumenter calls through.
Own(th) == th \in copy

\* Uses of the pointer that end in a call through it.
Calls(th) == pc[th] \in (1 .. OwnUse) \ {CopyUse}
Points(th) == IF pc[th] = OwnUse THEN Own(th) ELSE of[th] \in info

ModuleLoadFinished(th, p) ==
    /\ pc[th] = 0 /\ th \notin crashed
    /\ stage[p] = "ready" /\ \E c \in Clients : Holds(c, p)
    /\ pc' = [pc EXCEPT ![th] = 1]
    /\ of' = [of EXCEPT ![th] = p]
    /\ UNCHANGED <<objectVars, stage, info, infoRefs, copy, crashed>>

Use(th) ==
    /\ Calls(th) /\ Points(th)
    /\ pc[th] < OwnUse
    /\ pc' = [pc EXCEPT ![th] = @ + 1]
    /\ UNCHANGED <<objectVars, stage, info, infoRefs, of, copy, crashed>>

\* The copy is as null as the original; else it counts.
Copy(th) ==
    /\ pc[th] = CopyUse
    /\ pc' = [pc EXCEPT ![th] = @ + 1]
    /\ copy' = IF of[th] \in info THEN copy \cup {th} ELSE copy
    /\ infoRefs' = IF of[th] \in info THEN infoRefs + 1 ELSE infoRefs
    /\ UNCHANGED <<objectVars, stage, info, of, crashed>>

\* A call through null is no _com_error: the process ends.
Crash(th) ==
    /\ Calls(th) /\ ~Points(th)
    /\ crashed' = crashed \cup {th}
    /\ pc' = [pc EXCEPT ![th] = 0]
    /\ UNCHANGED <<objectVars, stage, info, infoRefs, of, copy>>

WrongLeave(th) ==
    /\ Calls(th) /\ Points(th)
    /\ pc' = [pc EXCEPT ![th] = 0]
    /\ of' = [of EXCEPT ![th] = None]
    /\ copy' = copy \ {th}
    /\ infoRefs' = IF th \in copy /\ pc[th] = OwnUse THEN infoRefs - 1 ELSE infoRefs
    /\ UNCHANGED <<objectVars, stage, info, crashed>>

\* Instrument returns, or a COM error ends the callback: what the instrumenter
\* holds is released on every way out.
Leave(th) ==
    /\ Calls(th) /\ Points(th)
    /\ pc' = [pc EXCEPT ![th] = 0]
    /\ of' = [of EXCEPT ![th] = None]
    /\ copy' = copy \ {th}
    /\ infoRefs' = IF th \in copy THEN infoRefs - 1 ELSE infoRefs
    /\ UNCHANGED <<objectVars, stage, info, crashed>>

-----------------------------------------------------------------------------
Client(c) ==
    \/ Released(c)
    \/ \E f \in Factories : DllGetClassObject(c, f)
    \/ \E f \in Factories, p \in Profilers : CreateInstance(c, f, p)
    \/ \E d \in Clients, o \in Objects : QueryInterface(c, d, o)
    \/ \E o \in Objects : Release(c, o)
    \/ \E p \in Profilers : Initialize(c, p) \/ Shutdown(c, p)

Callback(th) ==
    \/ \E p \in Profilers : ModuleLoadFinished(th, p)
    \/ Use(th) \/ Copy(th) \/ Crash(th) \/ Leave(th)

Next ==
    /\ crashed = {}
    /\ \/ \E c \in Clients : Client(c)
       \/ \E p \in Profilers : ShutdownReleases(p)
       \/ \E th \in Threads : Callback(th)

Spec == Init /\ [][Next]_vars

-----------------------------------------------------------------------------
(* Properties.                                                             *)

\* Every variable keeps to its type.
TypeOK ==
    /\ state \in [Objects -> {"absent", "alive", "deleted"}]
    /\ refCount \in [Objects -> Nat]
    /\ refused \subseteq Objects
    /\ held \in [Clients -> [Objects -> 0 .. MaxHeld]]
    /\ releasing \in [Clients -> [object : Objects \cup {None}, count : Nat]]
    /\ deletions \in [Objects -> Nat]
    /\ stage \in [Profilers -> {"created", "ready", "failed", "shutting", "down"}]
    /\ info \subseteq Profilers
    /\ infoRefs \in Nat
    /\ pc \in [Threads -> 0 .. OwnUse]
    /\ of \in [Threads -> Profilers \cup {None}]
    /\ copy \subseteq Threads
    /\ crashed \subseteq Threads

\* An object lives as long as somebody holds a pointer to it or a callback runs
\* in it, however the releases of several clients interleave: one of them is
\* the last and deletes it, and only an object whose first interface was
\* refused outlives its pointers.
LivesWhileHeld ==
    /\ \A c \in Clients, o \in Objects : Holds(c, o) => state[o] = "alive"
    /\ \A th \in Threads : of[th] # None => state[of[th]] = "alive"
    /\ \A o \in Objects : deletions[o] <= 1
    /\ \A o \in Objects :
         state[o] = "alive" /\ (\A c \in Clients : ~Holds(c, o) /\ releasing[c].object # o)
             => o \in refused

\* The profilers whose Shutdown has cleared the pointer and not yet released it.
Shutting == {p \in Profilers : stage[p] = "shutting"}

\* The count of ICorProfilerInfo5 is one for the CLR and one for each pointer to
\* it: neither Shutdown and the destructor nor an instrumenter that is stopped
\* halfway releases it too often or not at all.
InfoBalanced ==
    infoRefs = 1 + Cardinality(info) + Cardinality(copy)
                 + Cardinality(Shutting)

\* Shutdown races with callbacks: one that calls through a null pointer has met
\* it, and had not got as far as Instrument, where it has a copy of its own and
\* may wait for the server as long as it takes.
CrashOnlyInShutdown ==
    /\ \A th \in crashed : stage[of[th]] \in {"shutting", "down"}
    /\ \A th \in Threads : pc[th] = OwnUse => Own(th)

-----------------------------------------------------------------------------
(* What makes these inductive.                                             *)

\* The pointers to o, each as a client and the how manieth of it.
Pointers(o) == {x \in Clients \X (1 .. MaxHeld) : x[2] <= held[x[1]][o]}

\* The count of an object counts the pointers to it.
Counted ==
    \A o \in Objects :
        IsFiniteSet(Pointers(o)) /\ refCount[o] = Cardinality(Pointers(o))

\* Client c has given back the last pointer to o and is about to delete it.
Ending(c, o) == releasing[c].object = o /\ Last(c)

\* Only one client gives back the last pointer, and until it has deleted the
\* object nobody else does, or gets a new one.
OneEnds ==
    /\ \A c \in Clients : ~Free(c) => releasing[c].object \in Objects
    /\ \A c \in Clients, o \in Objects : Ending(c, o) =>
         /\ state[o] = "alive" /\ refCount[o] = 0
         /\ \A d \in Clients : Ending(d, o) => d = c
    /\ \A o \in Objects : state[o] = "alive" /\ refCount[o] = 0 =>
         o \in refused \/ \E c \in Clients : Ending(c, o)

\* Calls go to objects that somebody holds, and those are alive.
HeldIsAlive ==
    /\ \A c \in Clients, o \in Objects : Holds(c, o) => state[o] = "alive"
    /\ \A o \in Objects : InUse(o) => \E c \in Clients : Holds(c, o)
    /\ \A o \in Objects : deletions[o] = IF state[o] = "deleted" THEN 1 ELSE 0

\* ICorProfilerInfo5 has a finite count, made up as InfoBalanced says.
InfoCounted ==
    /\ IsFiniteSet(info) /\ IsFiniteSet(copy) /\ IsFiniteSet(Shutting)
    /\ InfoBalanced

\* A profiler has the pointer from Initialize to Shutdown; a callback runs in a
\* profiler that has been initialised, and copies the pointer if it is there.
InfoSet ==
    /\ \A p \in Profilers : stage[p] \in {"created", "shutting", "down"} => p \notin info
    /\ \A p \in Profilers : state[p] = "absent" => stage[p] = "created"
    /\ \A p \in Profilers : stage[p] = "ready" /\ state[p] = "alive" => p \in info
    /\ \A th \in Threads : pc[th] # 0 =>
         of[th] # None /\ stage[of[th]] \in {"ready", "shutting", "down"}
    /\ \A th \in copy : pc[th] > CopyUse \/ th \in crashed
    /\ \A th \in Threads : pc[th] > CopyUse /\ of[th] \in info => th \in copy

LifetimeInductive ==
    /\ TypeOK
    /\ Counted
    /\ OneEnds
    /\ HeldIsAlive
    /\ InfoCounted
    /\ InfoSet
    /\ CrashOnlyInShutdown

=============================================================================
