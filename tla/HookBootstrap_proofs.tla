---------------------------- MODULE HookBootstrap_proofs ----------------------------
(***************************************************************************)
(* Proofs about HookBootstrap, for any threads, modules and AppDomains and *)
(* whatever fails.                                                         *)
(***************************************************************************)
EXTENDS HookBootstrap, TLAPS

USE DomainAssumption

\* The copies never answer: the handler looks for a name the reference has not.
LEMMA ResolvedIsFile ==
    ASSUME NEW m \in Modules
    PROVE  /\ DomainOf[m] \in Domains
           /\ Resolved(m) = IF DomainOf[m] \in probing
                            THEN [dom |-> DomainOf[m], from |-> File] ELSE NoAssembly
           /\ [dom |-> DomainOf[m], from |-> File] \in Assemblies \ {NoAssembly}
           /\ [dom |-> DomainOf[m], from |-> m] \in Assemblies
<1>1. Reference # Prefix
  BY DEF Reference, Prefix
<1> QED
  BY <1>1 DEF Resolved, Answers, Assemblies, NoAssembly

LEMMA BootstrapInit == Init => BootstrapInductive
<1> SUFFICES ASSUME Init
             PROVE  BootstrapInductive
  OBVIOUS
<1>1. BootstrapTypeOK
  BY DEF Init, BootstrapTypeOK
<1>2. BoundToFile /\ ThreadsPlaced
  BY DEF Init, BoundToFile, ThreadsPlaced, InHook, Constructing, Linking
<1>3. ConstructedOnce
  BY DEF Init, ConstructedOnce, Constructing, Linking, Assemblies
<1>4. FailuresExplained /\ DelegatesSet
  BY DEF Init, FailuresExplained, ThrowsOnlyAfterFailure, DelegatesSet
<1> QED
  BY <1>1, <1>2, <1>3, <1>4 DEF BootstrapInductive

-----------------------------------------------------------------------------
(* Steps outside the hooks.                                                *)

LEMMA MscorlibKeeps ==
    ASSUME BootstrapInductive, MscorlibStep \/ MscorlibFails \/ MscorlibEscapes
    PROVE  BootstrapInductive'
<1> USE DEF BootstrapInductive
<1>1. /\ UNCHANGED <<path, probing, loaded, hooked, threads>>
      /\ mscorlib' \in Nat /\ up' \in BOOLEAN /\ started' \in BOOLEAN /\ failed' \in BOOLEAN
      /\ started' => mscorlib' >= FieldsDone \/ failed'
      /\ failed => failed'
      /\ ~started
  <2>1. CASE MscorlibStep
    BY <2>1 DEF MscorlibStep, BootstrapTypeOK, Hooks, BridgeDone, FieldsDone
  <2>2. CASE MscorlibFails
    BY <2>2 DEF MscorlibFails, BootstrapTypeOK, Fault
  <2>3. CASE MscorlibEscapes
    BY <2>3 DEF MscorlibEscapes, BootstrapTypeOK, Fault
  <2> QED
    BY <2>1, <2>2, <2>3
<1> USE DEF loaded, hooked, threads
<1>2. BootstrapTypeOK'
  BY <1>1 DEF BootstrapTypeOK
<1>3. BoundToFile' /\ ThreadsPlaced'
  BY <1>1 DEF BoundToFile, ThreadsPlaced, Bound
<1>4. ConstructedOnce'
  BY <1>1 DEF ConstructedOnce, Bound, Domain
<1>5. FailuresExplained' /\ DelegatesSet'
  BY <1>1 DEF FailuresExplained, ThrowsOnlyAfterFailure, Struck, DelegatesSet, Domain
<1> QED
  BY <1>2, <1>3, <1>4, <1>5

\* A context that meets no delegate in the target's own code.
LEMMA TargetKeeps ==
    ASSUME BootstrapInductive, NEW th \in Threads, NEW d, NEW kind, NullInTarget(th, d, kind)
    PROVE  BootstrapInductive'
<1> USE DEF BootstrapInductive, NullInTarget, Null, runtime, loaded, hooked
<1>1. BootstrapTypeOK'
  BY DEF BootstrapTypeOK
<1>2. BoundToFile' /\ ThreadsPlaced'
  BY DEF BoundToFile, ThreadsPlaced, Bound
<1>3. ConstructedOnce'
  BY DEF ConstructedOnce, Bound, Domain
<1>4. \A e \in Domains : Struck(e) => Struck(e)'
  BY DEF Struck
<1>5. FailuresExplained'
  BY <1>4 DEF FailuresExplained, ThrowsOnlyAfterFailure, Struck
<1>6. DelegatesSet'
  BY DEF DelegatesSet, Domain
<1> QED
  BY <1>1, <1>2, <1>3, <1>5, <1>6

-----------------------------------------------------------------------------
(* The bridge type's static constructor.                                   *)

LEMMA CallBridgeKeeps ==
    ASSUME BootstrapInductive, NEW th \in Threads, NEW m \in Modules, CallBridge(th, m)
    PROVE  BootstrapInductive'
<1> USE DEF BootstrapInductive, CallBridge, runtime, loaded, hooked, At, GoTo
<1>1. BootstrapTypeOK'
  BY DEF BootstrapTypeOK
<1>2. BoundToFile' /\ ThreadsPlaced'
  BY DEF BootstrapTypeOK, BoundToFile, ThreadsPlaced, Bound, InHook, Constructing, Linking
<1>3. ConstructedOnce'
  BY DEF BootstrapTypeOK, ConstructedOnce, Bound, Domain, Constructing, Linking
<1>4. FailuresExplained' /\ DelegatesSet'
  BY DEF BootstrapTypeOK, FailuresExplained, ThrowsOnlyAfterFailure, Struck, DelegatesSet, Domain
<1> QED
  BY <1>1, <1>2, <1>3, <1>4

LEMMA EnterBridgeKeeps ==
    ASSUME BootstrapInductive, NEW th \in Threads, EnterBridge(th)
    PROVE  BootstrapInductive'
<1> USE DEF BootstrapInductive, runtime, hooked, At, GoTo, Throws
<1>1. mod[th] \in Modules /\ started
  BY DEF EnterBridge, ThreadsPlaced
<1>2. BootstrapTypeOK'
  BY <1>1 DEF EnterBridge, BootstrapTypeOK
<1>3. BoundToFile' /\ ThreadsPlaced'
  BY DEF EnterBridge, BootstrapTypeOK, BoundToFile, ThreadsPlaced, Bound, InHook, Constructing, Linking
<1>4. ConstructedOnce'
  BY DEF EnterBridge, BootstrapTypeOK, ConstructedOnce, Bound, Domain, Constructing, Linking
<1>5. FailuresExplained' /\ DelegatesSet'
  BY <1>1 DEF EnterBridge, BootstrapTypeOK, FailuresExplained, ThrowsOnlyAfterFailure, Struck, DelegatesSet, Domain
<1> QED
  BY <1>2, <1>3, <1>4, <1>5

\* A copy is loaded or not: no ProfilingHook is affected.
LEMMA CopiesHarmless ==
    ASSUME BootstrapInductive, NEW th \in Threads, mod[th] \in Modules,
           NEW how \in {"plain", "linked"},
           core' = core \/ core' = [core EXCEPT ![Copy(th)] = how],
           UNCHANGED <<hook, bound>>
    PROVE  /\ core' \in [Assemblies -> {"absent", "plain", "linked"}]
           /\ \A a \in Assemblies : hook[a] # "none" => core'[a] = core[a]
           /\ \A a \in Assemblies : core[a] # "absent" => core'[a] # "absent"
<1>1. core \in [Assemblies -> {"absent", "plain", "linked"}]
  BY DEF BootstrapInductive, BootstrapTypeOK
<1>2. Copy(th).from # File
  BY DEF Copy
<1>3. \A a \in Assemblies : hook[a] # "none" => a # Copy(th)
  BY <1>2 DEF BootstrapInductive, BoundToFile
<1> QED
  BY <1>1, <1>3

LEMMA InjectKeeps ==
    ASSUME BootstrapInductive, NEW th \in Threads,
           InjectFails(th) \/ InjectGivesUp(th) \/ Inject(th)
    PROVE  BootstrapInductive'
<1> USE DEF BootstrapInductive
<1>1. /\ mod[th] \in Modules /\ started
      /\ At(th, "inject")
  BY DEF InjectFails, InjectGivesUp, Inject, At, ThreadsPlaced
<1>2. /\ UNCHANGED <<up, mscorlib, started, path, probing, bound, hook, pipes, delegates, mod, nulls>>
      /\ \E how \in {"plain", "linked"} :
           core' = core \/ (core' = [core EXCEPT ![Copy(th)] = how] /\ (how = "plain" => failed'))
      /\ \E how \in {"ok", "failed"} :
           /\ bridge' = [bridge EXCEPT ![mod[th]] = how]
           /\ how = "failed" => failed'
      /\ \E step \in {"app", "bind"} :
           /\ pc' = [pc EXCEPT ![th] = step]
           /\ step = "app" => thrown' = thrown \cup {mod[th]} /\ failed'
           /\ step = "bind" => thrown' = thrown
      /\ failed' \in BOOLEAN /\ (failed => failed')
  <2> USE DEF GoTo, Fault, runtime, hooked
  <2>1. CASE InjectFails(th)
    <3>1. path \/ failed
      BY DEF FailuresExplained
    <3>2. failed' = TRUE
      BY <2>1, <3>1 DEF InjectFails, BootstrapTypeOK
    <3> QED
      BY <2>1, <3>2 DEF InjectFails, Throws
  <2>2. CASE InjectGivesUp(th)
    <3>1. failed' = TRUE
      BY <2>2 DEF InjectGivesUp
    <3> QED
      BY <2>2, <3>1 DEF InjectGivesUp
  <2>3. CASE Inject(th)
    <3>1. failed' = failed \/ failed' = TRUE
      BY <2>3 DEF Inject, CoreLoaded
    <3>2. \E how \in {"plain", "linked"} :
            core' = [core EXCEPT ![Copy(th)] = how] /\ (how = "plain" => failed')
      BY <2>3 DEF Inject, CoreLoaded
    <3>3. /\ bridge' = [bridge EXCEPT ![mod[th]] = "ok"]
          /\ pc' = [pc EXCEPT ![th] = "bind"]
          /\ UNCHANGED <<runtime, bound, hooked, mod, thrown, nulls>>
      BY <2>3 DEF Inject
    <3> QED
      BY <3>1, <3>2, <3>3 DEF BootstrapTypeOK
  <2> QED
    BY <2>1, <2>2, <2>3
<1>3. /\ core' \in [Assemblies -> {"absent", "plain", "linked"}]
      /\ \A a \in Assemblies : hook[a] # "none" => core'[a] = core[a]
      /\ \A a \in Assemblies : core[a] # "absent" => core'[a] # "absent"
  BY <1>1, <1>2, CopiesHarmless
<1>4. BootstrapTypeOK'
  BY <1>1, <1>2, <1>3 DEF BootstrapTypeOK
<1>5. BoundToFile'
  <2>1. \A m \in Modules : bound[m] # NoAssembly => bound[m] \in Assemblies
    BY DEF BootstrapTypeOK
  <2> QED
    BY <1>2, <1>3, <2>1 DEF BoundToFile
<1>6. ThreadsPlaced'
  BY <1>1, <1>2 DEF ThreadsPlaced, BootstrapTypeOK, Bound, InHook, Constructing, Linking
<1>7. ConstructedOnce'
  BY <1>1, <1>2 DEF ConstructedOnce, BootstrapTypeOK, Bound, Domain, Constructing, Linking
<1>8. FailuresExplained'
  BY <1>1, <1>2, <1>3 DEF FailuresExplained, ThrowsOnlyAfterFailure, Struck, BootstrapTypeOK
<1>9. DelegatesSet'
  BY <1>1, <1>2, <1>3 DEF DelegatesSet, BootstrapTypeOK, Domain
<1> QED
  BY <1>4, <1>5, <1>6, <1>7, <1>8, <1>9

-----------------------------------------------------------------------------
(* The binding of the reference.                                           *)

LEMMA BindKeeps ==
    ASSUME BootstrapInductive, NEW th \in Threads, Bind(th)
    PROVE  BootstrapInductive'
<1> USE DEF BootstrapInductive
<1> DEFINE m == mod[th]
           file == [dom |-> DomainOf[m], from |-> File]
<1>1. /\ m \in Modules /\ started
      /\ At(th, "bind")
  BY DEF Bind, At, ThreadsPlaced
<1>2. /\ file \in Assemblies \ {NoAssembly}
      /\ bound[m] # NoAssembly =>
           bound[m] = file /\ DomainOf[m] \in probing /\ core[file] # "absent"
      /\ Resolved(m) = IF DomainOf[m] \in probing THEN file ELSE NoAssembly
  BY <1>1, ResolvedIsFile DEF BoundToFile
<1>3. /\ UNCHANGED <<up, mscorlib, started, path, probing, bridge, hook, pipes, delegates, mod, nulls>>
      /\ failed' \in BOOLEAN /\ (failed => failed')
      /\ \/ /\ DomainOf[m] \notin probing
            /\ UNCHANGED <<bound, core>>
            /\ pc' = [pc EXCEPT ![th] = "app"]
            /\ thrown' = thrown \cup {m}
         \/ /\ DomainOf[m] \in probing
            /\ bound' = [bound EXCEPT ![m] = file]
            /\ \/ core[file] # "absent" /\ core' = core
               \/ core[file] = "absent" /\ \E how \in {"plain", "linked"} :
                    core' = [core EXCEPT ![file] = how] /\ (how = "plain" => failed')
            /\ pc' = [pc EXCEPT ![th] = "hook"]
            /\ thrown' = thrown
  <2> DEFINE a == IF bound[m] # NoAssembly THEN bound[m] ELSE Resolved(m)
  <2>1. /\ bound' = [bound EXCEPT ![m] = a]
        /\ UNCHANGED <<up, mscorlib, started, path, probing, bridge, hook, pipes, delegates, mod, nulls>>
        /\ \/ a = NoAssembly /\ pc' = [pc EXCEPT ![th] = "app"] /\ thrown' = thrown \cup {m}
              /\ UNCHANGED <<core, failed>>
           \/ /\ a # NoAssembly /\ pc' = [pc EXCEPT ![th] = "hook"] /\ thrown' = thrown
              /\ \/ core[a] = "absent" /\ CoreLoaded(a)
                 \/ core[a] # "absent" /\ UNCHANGED <<core, failed>>
    BY DEF Bind, Bound, Throws, GoTo, runtime, hooked
  <2>2. CASE DomainOf[m] \notin probing
    <3>1. a = NoAssembly /\ bound[m] = NoAssembly
      BY <1>2, <2>2
    <3>2. bound' = bound
      BY <2>1, <3>1, <1>1 DEF BootstrapTypeOK
    <3> QED
      BY <2>1, <2>2, <3>1, <3>2 DEF BootstrapTypeOK
  <2>3. CASE DomainOf[m] \in probing
    <3>1. a = file /\ a # NoAssembly
      BY <1>2, <2>3
    <3>2. failed' = failed \/ failed' = TRUE
      BY <2>1, <3>1 DEF CoreLoaded, Fault
    <3>3. \/ core[file] # "absent" /\ core' = core
          \/ core[file] = "absent" /\ \E how \in {"plain", "linked"} :
               core' = [core EXCEPT ![file] = how] /\ (how = "plain" => failed')
      BY <2>1, <3>1 DEF CoreLoaded, Fault
    <3> HIDE DEF a, file
    <3> QED
      BY <2>1, <2>3, <3>1, <3>2, <3>3 DEF BootstrapTypeOK
  <2> QED
    BY <2>2, <2>3
<1>4. BootstrapTypeOK'
  BY <1>1, <1>2, <1>3 DEF BootstrapTypeOK, InHook, Constructing, Linking
<1>5. /\ \A a \in Assemblies : hook[a] # "none" => core'[a] = core[a]
      /\ \A a \in Assemblies : core[a] # "absent" => core'[a] # "absent"
      /\ \A n \in Modules : bound'[n] # bound[n] => n = m /\ bound'[n] = file
  BY <1>1, <1>2, <1>3 DEF BoundToFile, BootstrapTypeOK
<1>6. BoundToFile'
  BY <1>1, <1>2, <1>3, <1>5, ResolvedIsFile DEF BoundToFile, BootstrapTypeOK
<1>7. ThreadsPlaced'
  BY <1>1, <1>2, <1>3 DEF ThreadsPlaced, BootstrapTypeOK, Bound, InHook, Constructing, Linking
<1>8. \A u \in Threads :
        pc'[u] \in Constructing \cup {"report"} => pc[u] = pc'[u] /\ Bound(u)' = Bound(u)
  BY <1>1, <1>2, <1>3 DEF BootstrapTypeOK, Bound, Constructing, Linking, ThreadsPlaced, InHook
<1>9. ConstructedOnce'
  BY <1>1, <1>3, <1>8 DEF ConstructedOnce, Domain, Constructing, Linking
<1>10. FailuresExplained'
  BY <1>1, <1>2, <1>3 DEF FailuresExplained, ThrowsOnlyAfterFailure, Struck, BootstrapTypeOK
<1>11. DelegatesSet'
  BY <1>1, <1>3, <1>5 DEF DelegatesSet, BootstrapTypeOK, Domain
<1> QED
  BY <1>4, <1>6, <1>7, <1>9, <1>10, <1>11

-----------------------------------------------------------------------------
(* ProfilingHook.                                                          *)

\* A thread past the binding works for the file in its AppDomain's directory.
LEMMA AtFile ==
    ASSUME BootstrapInductive, NEW th \in Threads, pc[th] \in InHook
    PROVE  /\ mod[th] \in Modules /\ started
           /\ Domain(th) \in Domains /\ Domain(th) \in probing
           /\ Bound(th) = [dom |-> Domain(th), from |-> File]
           /\ Bound(th) \in Assemblies
           /\ Bound(th).dom = Domain(th) /\ Bound(th).from = File
           /\ core[Bound(th)] # "absent"
<1>1. mod[th] \in Modules /\ started /\ Bound(th) # NoAssembly
  BY DEF BootstrapInductive, ThreadsPlaced, InHook, Constructing, Linking
<1>2. /\ DomainOf[mod[th]] \in Domains /\ DomainOf[mod[th]] \in probing
      /\ bound[mod[th]] = [dom |-> DomainOf[mod[th]], from |-> File]
      /\ bound[mod[th]] \in Assemblies
      /\ core[bound[mod[th]]] # "absent"
  BY <1>1, ResolvedIsFile DEF BootstrapInductive, BoundToFile, Bound
<1>3. bound[mod[th]].dom = DomainOf[mod[th]] /\ bound[mod[th]].from = File
  BY <1>2
<1> QED
  BY <1>1, <1>2, <1>3 DEF Bound, Domain

\* Why a hook of AppDomain d may throw; a reason is never lost.
Reason(d) == failed \/ Struck(d)

LEMMA ReasonsStay ==
    ASSUME BootstrapInductive, failed' = failed \/ failed' = TRUE, nulls \subseteq nulls', NEW d
    PROVE  Reason(d) => Reason(d)'
<1>1. Struck(d) => Struck(d)'
  BY DEF Struck
<1>2. failed => failed'
  BY DEF BootstrapInductive, BootstrapTypeOK
<1> QED
  BY <1>1, <1>2 DEF Reason

\* What a step of ProfilingHook leaves alone, and what it therefore keeps.
LEMMA LoadedKept ==
    ASSUME BootstrapInductive, NEW th \in Threads, pc[th] \in InHook,
           NEW step \in {"app"} \cup InHook, pc' = [pc EXCEPT ![th] = step],
           UNCHANGED <<runtime, loaded, mod>>,
           failed' = failed \/ failed' = TRUE, nulls \subseteq nulls',
           thrown' = thrown \/ (thrown' = thrown \cup {mod[th]} /\ Reason(Domain(th))'),
           NEW value \in {"none", "running", "ok", "failed"},
           hook' = [hook EXCEPT ![Bound(th)] = value],
           value = "failed" => Reason(Domain(th))'
    PROVE  BoundToFile' /\ ThreadsPlaced' /\ FailuresExplained'
<1> USE AtFile DEF runtime, loaded
<1>1. BoundToFile'
  BY DEF BootstrapInductive, BootstrapTypeOK, BoundToFile
<1>2. ThreadsPlaced'
  BY DEF BootstrapInductive, BootstrapTypeOK, ThreadsPlaced, Bound, InHook
<1>3. failed' \in BOOLEAN /\ (failed => failed')
  BY DEF BootstrapInductive, BootstrapTypeOK
<1>4. \A d : Reason(d) => Reason(d)'
  BY ReasonsStay
<1>5. Domain(th)' = Domain(th)
  BY DEF Domain
<1>6. \A a \in Assemblies : hook'[a] = "failed" => Reason(a.dom)'
  <2>1. \A a \in Assemblies : hook[a] = "failed" => Reason(a.dom)
    BY DEF BootstrapInductive, FailuresExplained, Reason
  <2>2. hook \in [Assemblies -> {"none", "running", "ok", "failed"}]
    BY DEF BootstrapInductive, BootstrapTypeOK
  <2> QED
    BY <1>4, <1>5, <2>1, <2>2
<1>7. \A m \in thrown' : DomainOf[m] \in probing => Reason(DomainOf[m])'
  <2>1. \A m \in thrown : DomainOf[m] \in probing => Reason(DomainOf[m])
    BY DEF BootstrapInductive, FailuresExplained, ThrowsOnlyAfterFailure, Reason
  <2> QED
    BY <1>4, <1>5, <2>1 DEF Domain
<1>8. FailuresExplained'
  BY <1>3, <1>6, <1>7
     DEF BootstrapInductive, FailuresExplained, ThrowsOnlyAfterFailure, Reason
<1> QED
  BY <1>1, <1>2, <1>8

\* No two threads are in the constructor of one AppDomain's ProfilingHook.
LEMMA OneConstructor ==
    ASSUME BootstrapInductive, NEW th \in Threads, NEW u \in Threads,
           pc[th] \in Constructing, pc[u] \in Constructing, Domain(u) = Domain(th)
    PROVE  u = th
<1>1. Bound(u) = [dom |-> Domain(u), from |-> File] /\ Bound(th) = [dom |-> Domain(th), from |-> File]
  BY AtFile DEF InHook
<1> QED
  BY <1>1 DEF BootstrapInductive, ConstructedOnce

LEMMA EnterHookKeeps ==
    ASSUME BootstrapInductive, NEW th \in Threads, EnterHook(th)
    PROVE  BootstrapInductive'
<1> DEFINE a == Bound(th)
<1>1. pc[th] = "hook" /\ pc[th] \in InHook /\ pc[th] \notin Constructing
  BY DEF EnterHook, At, InHook, Constructing, Linking
<1>2. /\ mod[th] \in Modules /\ a \in Assemblies /\ a.from = File /\ a.dom = Domain(th)
      /\ hook \in [Assemblies -> {"none", "running", "ok", "failed"}]
  BY <1>1, AtFile DEF BootstrapInductive, BootstrapTypeOK
<1>3. /\ UNCHANGED <<runtime, loaded, pipes, delegates, mod, nulls, failed>>
      /\ \/ /\ hook[a] = "none" /\ hook' = [hook EXCEPT ![a] = "running"]
            /\ pc' = [pc EXCEPT ![th] = "connect"] /\ thrown' = thrown
         \/ /\ hook[a] = "ok" /\ hook' = hook
            /\ pc' = [pc EXCEPT ![th] = "report"] /\ thrown' = thrown
         \/ /\ hook[a] = "failed" /\ hook' = hook
            /\ pc' = [pc EXCEPT ![th] = "app"] /\ thrown' = thrown \cup {mod[th]}
  BY DEF EnterHook, GoTo, Throws
<1>4. hook[a] = "failed" => Reason(Domain(th))'
  <2>1. hook[a] = "failed" => Reason(Domain(th))
    BY <1>2 DEF BootstrapInductive, FailuresExplained, Reason
  <2> QED
    BY <1>3, <2>1, ReasonsStay DEF Domain
<1>5. BoundToFile' /\ ThreadsPlaced' /\ FailuresExplained'
  <2>1. CASE hook[a] = "none"
    BY <1>1, <1>3, <2>1, LoadedKept DEF InHook, Constructing
  <2>2. CASE hook[a] # "none"
    <3>1. hook' = [hook EXCEPT ![a] = hook[a]]
      BY <1>2, <1>3, <2>2
    <3>2. hook[a] \in {"none", "running", "ok", "failed"}
      BY <1>2
    <3>3. thrown' = thrown \/ (thrown' = thrown \cup {mod[th]} /\ Reason(Domain(th))')
      BY <1>3, <1>4, <2>2
    <3>4. \E step \in {"app"} \cup InHook : pc' = [pc EXCEPT ![th] = step]
      BY <1>3, <2>2 DEF InHook
    <3>5. nulls \subseteq nulls' /\ failed' = failed
      BY <1>3
    <3> QED
      BY <1>1, <1>3, <1>4, <3>1, <3>2, <3>3, <3>4, <3>5, LoadedKept
  <2> QED
    BY <2>1, <2>2
<1> USE DEF runtime, loaded
<1>6. BootstrapTypeOK'
  BY <1>2, <1>3 DEF BootstrapInductive, BootstrapTypeOK, InHook, Constructing
<1>7. \A u \in Threads : Bound(u)' = Bound(u) /\ Domain(u)' = Domain(u)
  BY <1>3 DEF Bound, Domain
<1>8. ConstructedOnce'
  <2>1. CASE hook[a] = "none"
    <3>1. \A u \in Threads : pc[u] \in Constructing => Bound(u) # a
      BY <2>1 DEF BootstrapInductive, ConstructedOnce
    <3>2. \A u \in Threads : pc'[u] \in Constructing => u = th \/ pc[u] \in Constructing
      BY <1>1, <1>3, <2>1 DEF BootstrapInductive, BootstrapTypeOK
    <3>3. \A u \in Threads : pc'[u] \in Constructing => hook'[Bound(u)] = "running"
      <4>1. \A u \in Threads : pc[u] \in Constructing =>
              Bound(u) \in Assemblies /\ hook[Bound(u)] = "running"
        BY AtFile DEF InHook, BootstrapInductive, ConstructedOnce
      <4> QED
        BY <1>2, <1>3, <2>1, <3>1, <3>2, <4>1
    <3>4. \A u \in Threads : pc'[u] = "connect" => pipes[Domain(u)] = 0
      BY <1>1, <1>2, <1>3, <2>1 DEF BootstrapInductive, BootstrapTypeOK, ConstructedOnce
    <3>5. \A b \in Assemblies : b.from = File /\ hook'[b] = "none" => pipes[b.dom] = 0
      BY <1>2, <1>3, <2>1 DEF BootstrapInductive, ConstructedOnce
    <3>6. \A u, v \in Threads :
            pc'[u] \in Constructing /\ pc'[v] \in Constructing /\ Bound(u) = Bound(v) => u = v
      BY <3>1, <3>2 DEF BootstrapInductive, ConstructedOnce
    <3>7. pipes' = pipes /\ \A d \in Domains : pipes[d] <= 1
      BY <1>3 DEF BootstrapInductive, ConstructedOnce
    <3>8. \A u \in Threads : pc'[u] = "report" => hook'[Bound(u)] = "ok"
      <4>1. \A u \in Threads : pc'[u] = "report" => pc[u] = "report" /\ hook[Bound(u)] = "ok"
        BY <1>3, <2>1 DEF BootstrapInductive, BootstrapTypeOK, ConstructedOnce
      <4>2. \A u \in Threads : pc[u] = "report" => Bound(u) \in Assemblies
        BY AtFile DEF InHook
      <4> QED
        BY <1>2, <1>3, <2>1, <4>1, <4>2
    <3> HIDE DEF a
    <3> QED
      BY <1>7, <3>3, <3>4, <3>5, <3>6, <3>7, <3>8 DEF ConstructedOnce
  <2>2. CASE hook[a] # "none"
    BY <1>1, <1>2, <1>3, <1>7, <2>2
       DEF BootstrapInductive, BootstrapTypeOK, ConstructedOnce, Constructing, Linking
  <2> QED
    BY <2>1, <2>2
<1>9. DelegatesSet'
  BY <1>2, <1>3, <1>7 DEF BootstrapInductive, BootstrapTypeOK, DelegatesSet
<1> QED
  BY <1>5, <1>6, <1>8, <1>9 DEF BootstrapInductive

LEMMA ConnectKeeps ==
    ASSUME BootstrapInductive, NEW th \in Threads, Connect(th)
    PROVE  BootstrapInductive'
<1> DEFINE a == Bound(th)
<1>1. pc[th] = "connect" /\ pc[th] \in InHook /\ pc[th] \in Constructing
  BY DEF Connect, At, InHook, Constructing
<1>2. /\ a \in Assemblies /\ a.from = File /\ a.dom = Domain(th) /\ Domain(th) \in Domains
      /\ a = [dom |-> Domain(th), from |-> File]
      /\ hook[a] = "running" /\ pipes[Domain(th)] = 0
      /\ hook \in [Assemblies -> {"none", "running", "ok", "failed"}]
  BY <1>1, AtFile DEF BootstrapInductive, BootstrapTypeOK, ConstructedOnce
<1>3. /\ UNCHANGED <<runtime, loaded, hook, delegates, mod, thrown, nulls, failed>>
      /\ pipes' = [pipes EXCEPT ![Domain(th)] = 1]
      /\ pc' = [pc EXCEPT ![th] = "link"]
  BY <1>2 DEF Connect, GoTo, BootstrapInductive, BootstrapTypeOK
<1>4. BoundToFile' /\ ThreadsPlaced' /\ FailuresExplained'
  <2>1. hook' = [hook EXCEPT ![a] = "running"]
    BY <1>2, <1>3
  <2> QED
    BY <1>1, <1>3, <2>1, LoadedKept DEF InHook, Constructing, Linking
<1> USE DEF runtime, loaded
<1>5. BootstrapTypeOK'
  BY <1>2, <1>3 DEF BootstrapInductive, BootstrapTypeOK, InHook, Constructing, Linking
<1>6. \A u \in Threads : Bound(u)' = Bound(u) /\ Domain(u)' = Domain(u)
  BY <1>3 DEF Bound, Domain
<1>7. \A u \in Threads : pc[u] = "connect" /\ Domain(u) = Domain(th) => u = th
  BY <1>1, OneConstructor DEF Constructing
<1>8. \A b \in Assemblies : b.from = File /\ b.dom = Domain(th) => b = a
  BY <1>2 DEF Assemblies
<1>9. ConstructedOnce'
  BY <1>1, <1>2, <1>3, <1>6, <1>7, <1>8
     DEF BootstrapInductive, BootstrapTypeOK, ConstructedOnce, Constructing, Linking, Assemblies
<1>10. DelegatesSet'
  BY <1>3, <1>6 DEF BootstrapInductive, BootstrapTypeOK, DelegatesSet
<1> QED
  BY <1>4, <1>5, <1>9, <1>10 DEF BootstrapInductive

\* The constructor fails: its thread lets go of it, and it is never run again.
LEMMA ConstructorFails ==
    ASSUME BootstrapInductive, NEW th \in Threads, pc[th] \in Constructing,
           UNCHANGED <<runtime, loaded, delegates, mod>>,
           pipes' = pipes \/ (pc[th] = "connect" /\ PipeMayOpen(th)),
           hook' = [hook EXCEPT ![Bound(th)] = "failed"],
           pc' = [pc EXCEPT ![th] = "app"],
           thrown' = thrown \cup {mod[th]},
           failed' = failed \/ failed' = TRUE, nulls \subseteq nulls',
           Reason(Domain(th))'
    PROVE  BootstrapInductive'
<1> DEFINE a == Bound(th)
<1>1. pc[th] \in InHook
  BY DEF InHook
<1>2. /\ mod[th] \in Modules /\ a \in Assemblies /\ Domain(th) \in Domains
      /\ a = [dom |-> Domain(th), from |-> File]
      /\ hook \in [Assemblies -> {"none", "running", "ok", "failed"}]
      /\ pipes \in [Domains -> Nat]
  BY <1>1, AtFile DEF BootstrapInductive, BootstrapTypeOK
<1>3. BoundToFile' /\ ThreadsPlaced' /\ FailuresExplained'
  BY <1>1, LoadedKept
<1> USE DEF runtime, loaded
<1>4. pipes' = pipes \/ (pipes[Domain(th)] = 0 /\ pipes' = [pipes EXCEPT ![Domain(th)] = 1])
  BY <1>2 DEF PipeMayOpen, BootstrapInductive, ConstructedOnce
<1>5. BootstrapTypeOK'
  <2>1. pipes' \in [Domains -> Nat]
    BY <1>2, <1>4
  <2>2. failed' \in BOOLEAN
    BY DEF BootstrapInductive, BootstrapTypeOK
  <2> QED
    BY <1>2, <2>1, <2>2 DEF BootstrapInductive, BootstrapTypeOK, InHook
<1>6. \A u \in Threads : Bound(u)' = Bound(u) /\ Domain(u)' = Domain(u)
  BY DEF Bound, Domain
<1>7. \A u \in Threads : pc'[u] \in Constructing =>
         /\ pc[u] \in Constructing /\ pc'[u] = pc[u] /\ Bound(u) # a /\ Domain(u) # Domain(th)
         /\ Bound(u) \in Assemblies /\ hook[Bound(u)] = "running"
  <2>1. \A u \in Threads : pc'[u] \in Constructing => u # th /\ pc'[u] = pc[u]
    BY DEF BootstrapInductive, BootstrapTypeOK, Constructing, Linking
  <2>2. \A u \in Threads : pc[u] \in Constructing => Bound(u) \in Assemblies
    BY AtFile DEF InHook
  <2>3. \A u \in Threads : pc[u] \in Constructing /\ u # th => Domain(u) # Domain(th)
    BY OneConstructor
  <2> QED
    BY <2>1, <2>2, <2>3 DEF BootstrapInductive, ConstructedOnce
<1>8. ConstructedOnce'
  <2>1. \A u \in Threads : pc'[u] \in Constructing => hook'[Bound(u)] = "running"
    BY <1>2, <1>7
  <2>2. \A u, v \in Threads :
          pc'[u] \in Constructing /\ pc'[v] \in Constructing /\ Bound(u) = Bound(v) => u = v
    BY <1>7 DEF BootstrapInductive, ConstructedOnce
  <2>3. \A u \in Threads : pc'[u] = "connect" => pipes'[Domain(u)] = 0
    <3>1. \A u \in Threads : pc'[u] = "connect" =>
            pc[u] = "connect" /\ Domain(u) # Domain(th) /\ pipes[Domain(u)] = 0
      BY <1>7 DEF BootstrapInductive, ConstructedOnce, Constructing
    <3>2. \A u \in Threads : pc[u] = "connect" => Domain(u) \in Domains
      BY AtFile DEF InHook, Constructing
    <3> QED
      BY <1>2, <1>4, <3>1, <3>2
  <2>4. \A b \in Assemblies : b.from = File /\ hook'[b] = "none" => pipes'[b.dom] = 0
    <3>1. \A b \in Assemblies : b.from = File /\ hook'[b] = "none" =>
            b.dom \in Domains /\ b.dom # Domain(th) /\ pipes[b.dom] = 0
      BY <1>2 DEF BootstrapInductive, ConstructedOnce, Assemblies
    <3> QED
      BY <1>2, <1>4, <3>1
  <2>5. \A d \in Domains : pipes'[d] <= 1
    BY <1>2, <1>4 DEF BootstrapInductive, ConstructedOnce
  <2>6. \A u \in Threads : pc'[u] = "report" => hook'[Bound(u)] = "ok"
    <3>1. \A u \in Threads : pc'[u] = "report" => pc[u] = "report" /\ hook[Bound(u)] = "ok"
      BY DEF BootstrapInductive, BootstrapTypeOK, ConstructedOnce
    <3>2. \A u \in Threads : pc[u] = "report" => Bound(u) \in Assemblies
      BY AtFile DEF InHook
    <3>3. hook[a] = "running"
      BY DEF BootstrapInductive, ConstructedOnce
    <3> QED
      BY <1>2, <3>1, <3>2, <3>3
  <2> HIDE DEF a
  <2> QED
    BY <1>6, <2>1, <2>2, <2>3, <2>4, <2>5, <2>6 DEF ConstructedOnce
<1>9. DelegatesSet'
  BY <1>2, <1>6 DEF BootstrapInductive, BootstrapTypeOK, DelegatesSet
<1> QED
  BY <1>3, <1>5, <1>8, <1>9 DEF BootstrapInductive

LEMMA FailKeeps ==
    ASSUME BootstrapInductive, NEW th \in Threads,
           ConnectFails(th) \/ LinkFails(th) \/ \E kind \in Kinds : NullInConstructor(th, kind)
    PROVE  BootstrapInductive'
<1>1. CASE ConnectFails(th)
  <2>1. pc[th] = "connect" /\ pc[th] \in Constructing
    BY <1>1 DEF ConnectFails, At, Constructing
  <2>2. Reason(Domain(th))'
    BY <1>1 DEF ConnectFails, Fault, Reason
  <2> QED
    BY <1>1, <2>1, <2>2, ConstructorFails DEF ConnectFails, Throws, GoTo, Fault
<1>2. CASE LinkFails(th)
  <2>1. pc[th] = "link" /\ pc[th] \in InHook /\ pc[th] \in Constructing
    BY <1>2 DEF LinkFails, At, InHook, Constructing, Linking
  <2>2. started
    BY <2>1, AtFile
  <2>3. failed = TRUE
    <3>1. ~(mscorlib >= FieldsDone)
      BY <1>2 DEF LinkFails, FieldsDone, BootstrapInductive, BootstrapTypeOK
    <3> QED
      BY <2>2, <3>1 DEF BootstrapInductive, BootstrapTypeOK, FailuresExplained
  <2>4. Reason(Domain(th))'
    BY <1>2, <2>3 DEF LinkFails, Reason
  <2> QED
    BY <1>2, <2>1, <2>4, ConstructorFails DEF LinkFails, Throws, GoTo
<1>3. ASSUME NEW kind \in Kinds, NullInConstructor(th, kind)
      PROVE  BootstrapInductive'
  <2>1. pc[th] = "connect" /\ pc[th] \in Constructing
    BY <1>3 DEF NullInConstructor, Constructing
  <2>2. nulls' = nulls \cup {<<"connect", Domain(th), kind>>} /\ mod' = mod
    BY <1>3, <2>1 DEF NullInConstructor, Null
  <2>3. Reason(Domain(th))'
    BY <2>2 DEF Reason, Struck, Domain
  <2> QED
    BY <1>3, <2>1, <2>2, <2>3, ConstructorFails DEF NullInConstructor, Throws, GoTo
<1> QED
  BY <1>1, <1>2, <1>3

\* One delegate is stored.
LEMMA LinkKeeps ==
    ASSUME BootstrapInductive, NEW th \in Threads, Link(th)
    PROVE  BootstrapInductive'
<1> DEFINE a == Bound(th)
<1> PICK step \in {"link", "linkResume"} :
        /\ At(th, step)
        /\ delegates' = delegates \cup {<<Domain(th), Stores[step]>>}
        /\ GoTo(th, IF step = "link" THEN "linkResume" ELSE "constructed")
        /\ UNCHANGED <<runtime, loaded, hook, pipes, mod, thrown, nulls, failed>>
  BY DEF Link
<1>1. /\ pc[th] = step /\ pc[th] \in InHook /\ pc[th] \in Constructing
      /\ pc' = [pc EXCEPT ![th] = IF step = "link" THEN "linkResume" ELSE "constructed"]
  BY DEF At, GoTo, InHook, Constructing, Linking
<1>2. /\ mod[th] \in Modules /\ a \in Assemblies
      /\ hook \in [Assemblies -> {"none", "running", "ok", "failed"}]
      /\ hook' = [hook EXCEPT ![a] = hook[a]]
      /\ hook[a] = "running"
  BY <1>1, AtFile DEF BootstrapInductive, BootstrapTypeOK, ConstructedOnce
<1>3. BoundToFile' /\ ThreadsPlaced' /\ FailuresExplained'
  <2>1. \E next \in {"app"} \cup InHook : pc' = [pc EXCEPT ![th] = next]
    BY <1>1 DEF InHook, Constructing, Linking
  <2> QED
    BY <1>1, <1>2, <2>1, LoadedKept
<1> USE DEF runtime, loaded
<1>4. BootstrapTypeOK'
  BY <1>1, <1>2 DEF BootstrapInductive, BootstrapTypeOK, InHook, Constructing, Linking
<1>5. \A u \in Threads : Bound(u)' = Bound(u) /\ Domain(u)' = Domain(u)
  BY DEF Bound, Domain
<1>6. \A u \in Threads :
        /\ pc'[u] \in Constructing => pc[u] \in Constructing
        /\ pc'[u] \in {"report", "connect"} => pc'[u] = pc[u]
  BY <1>1 DEF BootstrapInductive, BootstrapTypeOK, Constructing, Linking
<1>7. ConstructedOnce'
  BY <1>5, <1>6 DEF BootstrapInductive, ConstructedOnce
<1>8. DelegatesSet'
  <2>1. \A u \in Threads, kind \in Kinds :
           \/ pc'[u] = "linkResume" /\ kind = "capture"
           \/ pc'[u] = "constructed"
           => <<Domain(u), kind>> \in delegates'
    <3>1. CASE step = "link"
      BY <1>1, <3>1 DEF BootstrapInductive, BootstrapTypeOK, DelegatesSet, Stores
    <3>2. CASE step = "linkResume"
      <4>1. <<Domain(th), "capture">> \in delegates' /\ <<Domain(th), "resume">> \in delegates'
        <5>1. <<Domain(th), "capture">> \in delegates
          BY <1>1, <3>2 DEF BootstrapInductive, DelegatesSet, Kinds
        <5>2. Stores[step] = "resume"
          BY <3>2 DEF Stores
        <5> QED
          BY <5>1, <5>2
      <4>2. \A u \in Threads : pc'[u] \in {"linkResume", "constructed"} => u = th \/ pc'[u] = pc[u]
        BY <1>1 DEF BootstrapInductive, BootstrapTypeOK
      <4>3. pc'[th] = "constructed"
        BY <1>1, <3>2 DEF BootstrapInductive, BootstrapTypeOK
      <4> QED
        BY <4>1, <4>2, <4>3 DEF BootstrapInductive, DelegatesSet, Kinds
    <3> QED
      BY <3>1, <3>2
  <2> QED
    BY <1>5, <2>1 DEF BootstrapInductive, DelegatesSet
<1> QED
  BY <1>3, <1>4, <1>7, <1>8 DEF BootstrapInductive

LEMMA ConstructKeeps ==
    ASSUME BootstrapInductive, NEW th \in Threads, Construct(th)
    PROVE  BootstrapInductive'
<1> DEFINE a == Bound(th)
<1>1. pc[th] \in {"link", "constructed"} /\ pc[th] \in InHook /\ pc[th] \in Constructing
  BY DEF Construct, At, InHook, Constructing, Linking
<1>2. /\ mod[th] \in Modules /\ a \in Assemblies /\ a.dom = Domain(th)
      /\ hook \in [Assemblies -> {"none", "running", "ok", "failed"}]
  BY <1>1, AtFile DEF BootstrapInductive, BootstrapTypeOK
<1>3. /\ UNCHANGED <<runtime, loaded, pipes, delegates, mod, thrown, nulls, failed>>
      /\ hook' = [hook EXCEPT ![a] = "ok"]
      /\ pc' = [pc EXCEPT ![th] = "report"]
      /\ core[a] = "linked" => \A kind \in Kinds : <<a.dom, kind>> \in delegates
  BY <1>2 DEF Construct, At, GoTo, Links, BootstrapInductive, DelegatesSet
<1>4. BoundToFile' /\ ThreadsPlaced' /\ FailuresExplained'
  BY <1>1, <1>3, LoadedKept DEF InHook
<1> USE DEF runtime, loaded
<1>5. BootstrapTypeOK'
  BY <1>2, <1>3 DEF BootstrapInductive, BootstrapTypeOK, InHook
<1>6. \A u \in Threads : Bound(u)' = Bound(u) /\ Domain(u)' = Domain(u)
  BY <1>3 DEF Bound, Domain
<1>7. \A u \in Threads : pc'[u] \in Constructing =>
         /\ pc[u] \in Constructing /\ pc'[u] = pc[u] /\ Bound(u) # a
         /\ Bound(u) \in Assemblies /\ hook[Bound(u)] = "running"
  <2>1. \A u \in Threads : pc'[u] \in Constructing => u # th /\ pc'[u] = pc[u]
    BY <1>3 DEF BootstrapInductive, BootstrapTypeOK, Constructing, Linking
  <2>2. \A u \in Threads : pc[u] \in Constructing => Bound(u) \in Assemblies
    BY AtFile DEF InHook
  <2> QED
    BY <1>1, <2>1, <2>2 DEF BootstrapInductive, ConstructedOnce
<1>8. ConstructedOnce'
  <2>1. \A u \in Threads : pc'[u] \in Constructing => hook'[Bound(u)] = "running"
    BY <1>2, <1>3, <1>7
  <2>2. \A u, v \in Threads :
          pc'[u] \in Constructing /\ pc'[v] \in Constructing /\ Bound(u) = Bound(v) => u = v
    BY <1>7 DEF BootstrapInductive, ConstructedOnce
  <2>3. \A u \in Threads : pc'[u] = "connect" => pipes[Domain(u)] = 0
    BY <1>7 DEF BootstrapInductive, ConstructedOnce, Constructing
  <2>4. /\ \A b \in Assemblies : b.from = File /\ hook'[b] = "none" => pipes[b.dom] = 0
        /\ \A d \in Domains : pipes[d] <= 1
    BY <1>2, <1>3 DEF BootstrapInductive, ConstructedOnce
  <2>5. \A u \in Threads : pc'[u] = "report" => hook'[Bound(u)] = "ok"
    <3>1. \A u \in Threads : pc'[u] = "report" => u = th \/ hook[Bound(u)] = "ok"
      BY <1>3 DEF BootstrapInductive, BootstrapTypeOK, ConstructedOnce
    <3>2. \A u \in Threads : pc'[u] = "report" => Bound(u) \in Assemblies
      <4>1. \A u \in Threads : pc'[u] = "report" => u = th \/ pc[u] = "report"
        BY <1>3 DEF BootstrapInductive, BootstrapTypeOK
      <4> QED
        BY <1>2, <4>1, AtFile DEF InHook
    <3> QED
      BY <1>2, <1>3, <3>1, <3>2
  <2> HIDE DEF a
  <2> QED
    BY <1>3, <1>6, <2>1, <2>2, <2>3, <2>4, <2>5 DEF ConstructedOnce
<1>9. DelegatesSet'
  BY <1>2, <1>3, <1>6 DEF BootstrapInductive, BootstrapTypeOK, DelegatesSet
<1> QED
  BY <1>4, <1>5, <1>8, <1>9 DEF BootstrapInductive

\* Who reports and finds a delegate missing runs a ProfilerCore that a failure
\* has kept from being instrumented.
LEMMA ReportKeeps ==
    ASSUME BootstrapInductive, NEW th \in Threads,
           Report(th) \/ ReportFails(th) \/ \E kind \in Kinds : NullInReport(th, kind)
    PROVE  BootstrapInductive'
<1> DEFINE a == Bound(th)
<1>1. pc[th] = "report" /\ pc[th] \in InHook
  BY DEF Report, ReportFails, NullInReport, At, InHook
<1>2. /\ mod[th] \in Modules /\ a \in Assemblies /\ a.dom = Domain(th)
      /\ hook[a] = "ok" /\ core[a] # "absent"
      /\ hook' = [hook EXCEPT ![a] = hook[a]]
  BY <1>1, AtFile
     DEF Report, ReportFails, NullInReport, hooked, BootstrapInductive, BootstrapTypeOK, ConstructedOnce
<1>3. ASSUME NEW kind \in Kinds, NullInReport(th, kind)
      PROVE  failed = TRUE
  <2>1. <<a.dom, kind>> \notin delegates
    BY <1>2, <1>3 DEF NullInReport, Null
  <2>2. core[a] = "plain"
    BY <1>2, <2>1 DEF BootstrapInductive, BootstrapTypeOK, DelegatesSet
  <2> QED
    BY <1>2, <2>2 DEF BootstrapInductive, BootstrapTypeOK, FailuresExplained
<1>4. /\ UNCHANGED <<runtime, loaded, hooked, mod>>
      /\ nulls \subseteq nulls'
      /\ pc' = [pc EXCEPT ![th] = "app"]
      /\ failed' = failed \/ failed' = TRUE
      /\ thrown' = thrown \/ (thrown' = thrown \cup {mod[th]} /\ failed')
  <2>1. CASE Report(th)
    BY <2>1 DEF Report, GoTo
  <2>2. CASE ReportFails(th)
    BY <2>2 DEF ReportFails, Throws, GoTo, Fault
  <2>3. ASSUME NEW kind \in Kinds, NullInReport(th, kind)
        PROVE  /\ UNCHANGED <<runtime, loaded, hooked, mod, failed>>
               /\ nulls \subseteq nulls'
               /\ pc' = [pc EXCEPT ![th] = "app"]
               /\ thrown' = thrown \cup {mod[th]} /\ failed'
    BY <1>3, <2>3 DEF NullInReport, Null, Throws, GoTo
  <2> QED
    BY <2>1, <2>2, <2>3
<1>5. BoundToFile' /\ ThreadsPlaced' /\ FailuresExplained'
  <2>1. failed' => Reason(Domain(th))'
    BY DEF Reason
  <2> QED
    BY <1>1, <1>2, <1>4, <2>1, LoadedKept
<1> USE DEF runtime, loaded, hooked
<1>6. BootstrapTypeOK'
  BY <1>2, <1>4 DEF BootstrapInductive, BootstrapTypeOK
<1>7. ConstructedOnce'
  BY <1>4 DEF BootstrapInductive, BootstrapTypeOK, ConstructedOnce, Constructing, Linking, Bound, Domain
<1>8. DelegatesSet'
  BY <1>4 DEF BootstrapInductive, BootstrapTypeOK, DelegatesSet, Domain
<1> QED
  BY <1>5, <1>6, <1>7, <1>8 DEF BootstrapInductive

-----------------------------------------------------------------------------
LEMMA BootstrapStep == BootstrapInductive /\ [Next]_vars => BootstrapInductive'
<1> SUFFICES ASSUME BootstrapInductive, [Next]_vars
             PROVE  BootstrapInductive'
  OBVIOUS
<1>1. CASE MscorlibStep \/ MscorlibFails \/ MscorlibEscapes
  BY <1>1, MscorlibKeeps
<1>2. ASSUME NEW th \in Threads, NEW kind \in Kinds, ContextFlows(th, kind)
      PROVE  BootstrapInductive'
  BY <1>2, TargetKeeps, FailKeeps, ReportKeeps DEF ContextFlows
<1>3. ASSUME NEW th \in Threads, NEW m \in Modules, CallBridge(th, m)
      PROVE  BootstrapInductive'
  BY <1>3, CallBridgeKeeps
<1>4. ASSUME NEW th \in Threads, Proceed(th)
      PROVE  BootstrapInductive'
  BY <1>4, EnterBridgeKeeps, InjectKeeps, BindKeeps, EnterHookKeeps, ConnectKeeps, FailKeeps,
     LinkKeeps, ConstructKeeps, ReportKeeps DEF Proceed
<1>5. CASE UNCHANGED vars
  <2> USE <1>5 DEF vars, runtime, loaded, hooked, threads, BootstrapInductive
  <2>1. BootstrapTypeOK' /\ BoundToFile' /\ DelegatesSet'
    BY DEF BootstrapTypeOK, BoundToFile, DelegatesSet, Domain
  <2>2. ThreadsPlaced' /\ ConstructedOnce'
    BY DEF ThreadsPlaced, ConstructedOnce, Bound, Domain
  <2>3. FailuresExplained'
    BY DEF FailuresExplained, ThrowsOnlyAfterFailure, Struck
  <2> QED
    BY <2>1, <2>2, <2>3
<1> QED
  BY <1>1, <1>2, <1>3, <1>4, <1>5 DEF Next

\* The inductive invariant: references are bound to the file alone, one thread
\* runs ProfilingHook's static constructor, what fails has a cause, and a
\* ProfilingHook that has been constructed has set mscorlib's delegates.
THEOREM BootstrapInvariant == Spec => []BootstrapInductive
BY BootstrapInit, BootstrapStep, PTL DEF Spec

\* The hooks of an AppDomain share one ProfilingHook and one pipe, however many
\* modules load their copies of ProfilerCore on however many threads.
THEOREM PipeShared == Spec => []OnePipePerDomain
<1>1. BootstrapInductive => OnePipePerDomain
  BY DEF BootstrapInductive, OnePipePerDomain, ConstructedOnce, BoundToFile
<1> QED
  BY <1>1, BootstrapInvariant, PTL

\* Where ProfilerCore can be found, a hook throws only after a failure outside
\* the code or a context that flowed while ProfilingHook was being constructed.
THEOREM ThrowsExplained == Spec => []ThrowsOnlyAfterFailure
<1>1. BootstrapInductive => ThrowsOnlyAfterFailure
  BY DEF BootstrapInductive, ThrowsOnlyAfterFailure, FailuresExplained
<1> QED
  BY <1>1, BootstrapInvariant, PTL

=============================================================================
