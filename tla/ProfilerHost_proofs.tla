-------------------------- MODULE ProfilerHost_proofs --------------------------
(***************************************************************************)
(* Proofs about ProfilerHost, for any threads, modules, methods, bodies    *)
(* and faults.                                                             *)
(*                                                                         *)
(* The first part shows that every action keeps HostInductive, one lemma per   *)
(* action: a step for the types, one for each conjunct the action can      *)
(* disturb, one for the others.  The theorems follow.                      *)
(***************************************************************************)
EXTENDS ProfilerHost, FiniteSetTheorems, TLAPS

-----------------------------------------------------------------------------
\* A thread that is registering holds a token that was issued.
LEMMA TokenIssued ==
  ASSUME HostInductive, NEW th \in Threads, pc[th] \in Registering
  PROVE  token[th] \in 1 .. counter /\ token[th] # 0
<1>1. Registration(th) \in Claims
  BY DEF Claims
<1>2. Registration(th).token = token[th]
  BY DEF Registration
<1>3. counter \in Nat
  BY DEF HostInductive, HostTypeOK
<1> QED
  BY <1>1, <1>2, <1>3 DEF HostInductive, ClaimsAgree

\* Before Initialize no module is loaded, so the filter comes in time.
LEMMA ConfigStep ==
  ASSUME HostInductive, NEW ok \in BOOLEAN, GetProfilingConfig(ok)
  PROVE  HostInductive'
<1> USE MethodAssumption DEF HostInductive, GetProfilingConfig, configVars, threadVars,
       listVars, serverVars
<1>1. HostTypeOK'
  BY DEF HostTypeOK, PCs, Registrations
<1>2. OneThreadPerModule'
  BY DEF OneThreadPerModule, HostTypeOK
<1>3. TodoIsLeft'
  BY DEF TodoIsLeft, LeftTo, Looping, Registering, OneThreadPerModule, HostTypeOK
<1>4. InOrder'
  BY DEF InOrder, Looping, Registering, OneThreadPerModule, Registration, TodoIsLeft,
       LeftTo, HostTypeOK
<1>5. FilterKept'
  BY DEF FilterKept, HookedOnlyInNamespace, InOrder, TodoIsLeft, LeftTo, Looping,
       Registering, HostTypeOK
<1>6. ClaimsAgree' /\ ServedBeforeHooked' /\ HookedNeedsBridge' /\ AllPlainHooked'
  BY DEF ClaimsAgree, Claims, Registration, Hook, ServedBeforeHooked, HookedNeedsBridge,
       AllPlainHooked
<1> QED
  BY <1>1, <1>2, <1>3, <1>4, <1>5, <1>6

\* Initialize only opens the door to modules.
LEMMA InitializeStep ==
  ASSUME HostInductive, Initialize
  PROVE  HostInductive'
<1> USE MethodAssumption DEF HostInductive, Initialize, configVars, threadVars, listVars,
       serverVars
<1>1. HostTypeOK'
  BY DEF HostTypeOK, PCs, Registrations
<1>2. OneThreadPerModule'
  BY DEF OneThreadPerModule, HostTypeOK
<1>3. InOrder'
  BY DEF InOrder, Looping, Registering, OneThreadPerModule, Registration, TodoIsLeft,
       LeftTo, HostTypeOK
<1>4. FilterKept'
  BY DEF FilterKept, HookedOnlyInNamespace, InOrder, TodoIsLeft, LeftTo, Looping,
       Registering, HostTypeOK
<1>5. ClaimsAgree' /\ TodoIsLeft' /\ ServedBeforeHooked' /\ HookedNeedsBridge' /\
      AllPlainHooked'
  BY DEF ClaimsAgree, Claims, Registration, Hook, TodoIsLeft, LeftTo, ServedBeforeHooked,
       HookedNeedsBridge, AllPlainHooked
<1> QED
  BY <1>1, <1>2, <1>3, <1>4, <1>5

\* A module that is reported is in no other thread's hands and has no hooks.
LEMMA LoadStep ==
  ASSUME HostInductive, NEW th \in Threads, NEW m \in Modules, ModuleLoadFinished(th, m)
  PROVE  HostInductive'
<1> USE MethodAssumption DEF HostInductive, ModuleLoadFinished, At, configVars, threadVars,
       listVars, serverVars
<1>1. HostTypeOK'
  BY DEF HostTypeOK, PCs, Registrations
<1>2. ClaimsAgree'
  BY DEF ClaimsAgree, Claims, Registration, Hook, Registering, HostTypeOK, Registrations
<1>3. OneThreadPerModule'
  BY DEF OneThreadPerModule, HostTypeOK
<1>4. TodoIsLeft'
  BY DEF TodoIsLeft, LeftTo, Looping, Registering, OneThreadPerModule, HostTypeOK
<1>5. InOrder'
  BY DEF InOrder, Looping, Registering, OneThreadPerModule, Registration, TodoIsLeft,
       LeftTo, HostTypeOK
<1>6. AllPlainHooked'
  BY DEF AllPlainHooked, HostTypeOK, InOrder, OneThreadPerModule, TodoIsLeft, LeftTo, Looping,
       Registering
<1>7. FilterKept' /\ ServedBeforeHooked' /\ HookedNeedsBridge'
  BY DEF FilterKept, HookedOnlyInNamespace, ServedBeforeHooked, HookedNeedsBridge
<1> QED
  BY <1>1, <1>2, <1>3, <1>4, <1>5, <1>6, <1>7

\* The references are added without a trace in the state.
LEMMA ReferencesStep ==
  ASSUME HostInductive, NEW th \in Threads, AddProfilerCoreReferences(th)
  PROVE  HostInductive'
<1> USE MethodAssumption DEF HostInductive, AddProfilerCoreReferences, At, configVars,
       threadVars, listVars, serverVars
<1>1. HostTypeOK'
  BY DEF HostTypeOK, PCs, Registrations
<1>2. ClaimsAgree'
  BY DEF ClaimsAgree, Claims, Registration, Hook, Registering, HostTypeOK, Registrations
<1>3. OneThreadPerModule'
  BY DEF OneThreadPerModule, HostTypeOK
<1>4. TodoIsLeft'
  BY DEF TodoIsLeft, LeftTo, Looping, Registering, OneThreadPerModule, HostTypeOK
<1>5. InOrder'
  BY DEF InOrder, Looping, Registering, OneThreadPerModule, Registration, TodoIsLeft,
       LeftTo, HostTypeOK
<1>6. FilterKept' /\ ServedBeforeHooked' /\ HookedNeedsBridge' /\ AllPlainHooked'
  BY DEF FilterKept, HookedOnlyInNamespace, ServedBeforeHooked, HookedNeedsBridge,
       AllPlainHooked
<1> QED
  BY <1>1, <1>2, <1>3, <1>4, <1>5, <1>6

\* The bridge type is complete before the loops start.
LEMMA BridgeStep ==
  ASSUME HostInductive, NEW th \in Threads, AddHookBridgeType(th)
  PROVE  HostInductive'
<1> USE MethodAssumption DEF HostInductive, AddHookBridgeType, At, configVars, threadVars,
       listVars, serverVars
<1>1. HostTypeOK'
  BY DEF HostTypeOK, PCs, Registrations, Registration, OneThreadPerModule, TodoIsLeft, LeftTo,
       Looping, Registering
<1>2. ClaimsAgree'
  BY DEF ClaimsAgree, Claims, Registration, Hook, Registering, HostTypeOK, Registrations
<1>3. OneThreadPerModule'
  BY DEF OneThreadPerModule, HostTypeOK
<1>4. TodoIsLeft'
  BY DEF TodoIsLeft, LeftTo, Looping, Registering, OneThreadPerModule, HostTypeOK
<1>5. InOrder'
  BY DEF InOrder, Looping, Registering, OneThreadPerModule, Registration, TodoIsLeft,
       LeftTo, HostTypeOK
<1>6. HookedNeedsBridge'
  BY DEF HookedNeedsBridge, InOrder, HostTypeOK, TodoIsLeft, LeftTo, Looping, Registering
<1>7. FilterKept' /\ ServedBeforeHooked' /\ AllPlainHooked'
  BY DEF FilterKept, HookedOnlyInNamespace, ServedBeforeHooked, AllPlainHooked
<1> QED
  BY <1>1, <1>2, <1>3, <1>4, <1>5, <1>6, <1>7

\* The loops start with every selected method of a module without hooks.
LEMMA MethodsStep ==
  ASSUME HostInductive, NEW th \in Threads, InstrumentMethods(th)
  PROVE  HostInductive'
<1> USE MethodAssumption DEF HostInductive, InstrumentMethods, Returns, At, configVars,
       threadVars, listVars, serverVars, GetModuleTypesToInstrument, Selected
<1>1. HostTypeOK'
  BY DEF HostTypeOK, PCs, Registrations, Registration, OneThreadPerModule, TodoIsLeft, LeftTo,
       Looping, Registering
<1>2. ClaimsAgree'
  BY DEF ClaimsAgree, Claims, Registration, Hook, Registering, HostTypeOK, Registrations
<1>3. OneThreadPerModule'
  BY DEF OneThreadPerModule, HostTypeOK
<1>4. TodoIsLeft'
  BY DEF TodoIsLeft, LeftTo, Looping, Registering, OneThreadPerModule, InOrder, HostTypeOK
<1>5. InOrder'
  BY DEF InOrder, Looping, Registering, OneThreadPerModule, Registration, TodoIsLeft,
       LeftTo, HostTypeOK
<1>6. AllPlainHooked'
  BY DEF AllPlainHooked, HostTypeOK, InOrder, OneThreadPerModule, TodoIsLeft, LeftTo, Looping,
       Registering
<1>7. FilterKept' /\ ServedBeforeHooked' /\ HookedNeedsBridge'
  BY DEF FilterKept, HookedOnlyInNamespace, ServedBeforeHooked, HookedNeedsBridge
<1> QED
  BY <1>1, <1>2, <1>3, <1>4, <1>5, <1>6, <1>7

\* After a COM error the module is failed: nothing is claimed for it.
LEMMA ComErrorStep ==
  ASSUME HostInductive, NEW th \in Threads, ComError(th)
  PROVE  HostInductive'
<1> USE MethodAssumption DEF HostInductive, ComError, Returns, At, configVars, threadVars,
       listVars, serverVars
<1>1. HostTypeOK'
  BY DEF HostTypeOK, PCs, Registrations, Registration, OneThreadPerModule, TodoIsLeft, LeftTo,
       Looping, Registering
<1>2. ClaimsAgree'
  BY DEF ClaimsAgree, Claims, Registration, Hook, Registering, HostTypeOK, Registrations
<1>3. OneThreadPerModule'
  BY DEF OneThreadPerModule, HostTypeOK
<1>4. TodoIsLeft'
  BY DEF TodoIsLeft, LeftTo, Looping, Registering, OneThreadPerModule, HostTypeOK
<1>5. InOrder'
  BY DEF InOrder, Looping, Registering, OneThreadPerModule, Registration, TodoIsLeft,
       LeftTo, HostTypeOK
<1>6. AllPlainHooked'
  BY DEF AllPlainHooked, HostTypeOK, InOrder, OneThreadPerModule, TodoIsLeft, LeftTo, Looping,
       Registering
<1>7. FilterKept' /\ ServedBeforeHooked' /\ HookedNeedsBridge'
  BY DEF FilterKept, HookedOnlyInNamespace, ServedBeforeHooked, HookedNeedsBridge
<1> QED
  BY <1>1, <1>2, <1>3, <1>4, <1>5, <1>6, <1>7

\* A new token is above all tokens in use.
LEMMA IssueStep ==
  ASSUME HostInductive, NEW th \in Threads, NEW x \in Methods, IssueToken(th, x)
  PROVE  HostInductive'
<1> USE MethodAssumption DEF HostInductive, IssueToken, At, configVars, threadVars,
       listVars, serverVars
<1>1. HostTypeOK'
  BY DEF HostTypeOK, PCs, Registrations
<1>2. ClaimsAgree'
  BY DEF ClaimsAgree, Claims, Registration, Hook, Registering, HostTypeOK, Registrations
<1>3. OneThreadPerModule'
  BY DEF OneThreadPerModule, HostTypeOK
<1>4. TodoIsLeft'
  BY DEF TodoIsLeft, LeftTo, Looping, Registering, OneThreadPerModule, HostTypeOK
<1>5. InOrder'
  BY DEF InOrder, Looping, Registering, OneThreadPerModule, Registration, TodoIsLeft,
       LeftTo, HostTypeOK
<1>6. FilterKept' /\ ServedBeforeHooked' /\ HookedNeedsBridge' /\ AllPlainHooked'
  BY DEF FilterKept, HookedOnlyInNamespace, ServedBeforeHooked, HookedNeedsBridge,
       AllPlainHooked
<1> QED
  BY <1>1, <1>2, <1>3, <1>4, <1>5, <1>6

\* The list is not what the invariant speaks of.
LEMMA BuyStep ==
  ASSUME HostInductive, NEW th \in Threads, BuyNode(th)
  PROVE  HostInductive'
<1> USE MethodAssumption DEF HostInductive, BuyNode, At, configVars, threadVars, listVars,
       serverVars
<1>1. HostTypeOK'
  BY DEF HostTypeOK, PCs, Registrations
<1>2. ClaimsAgree'
  BY DEF ClaimsAgree, Claims, Registration, Hook, Registering, HostTypeOK, Registrations
<1>3. OneThreadPerModule'
  BY DEF OneThreadPerModule, HostTypeOK
<1>4. TodoIsLeft'
  BY DEF TodoIsLeft, LeftTo, Looping, Registering, OneThreadPerModule, HostTypeOK
<1>5. InOrder'
  BY DEF InOrder, Looping, Registering, OneThreadPerModule, Registration, TodoIsLeft,
       LeftTo, HostTypeOK
<1>6. FilterKept' /\ ServedBeforeHooked' /\ HookedNeedsBridge' /\ AllPlainHooked'
  BY DEF FilterKept, HookedOnlyInNamespace, ServedBeforeHooked, HookedNeedsBridge,
       AllPlainHooked
<1> QED
  BY <1>1, <1>2, <1>3, <1>4, <1>5, <1>6

\* Nor is its head.
LEMMA LinkHeadStep ==
  ASSUME HostInductive, NEW th \in Threads, LinkHead(th)
  PROVE  HostInductive'
<1> USE MethodAssumption DEF HostInductive, LinkHead, At, configVars, threadVars, listVars,
       serverVars
<1>1. HostTypeOK'
  BY DEF HostTypeOK, PCs, Registrations
<1>2. ClaimsAgree'
  BY DEF ClaimsAgree, Claims, Registration, Hook, Registering, HostTypeOK, Registrations
<1>3. OneThreadPerModule'
  BY DEF OneThreadPerModule, HostTypeOK
<1>4. TodoIsLeft'
  BY DEF TodoIsLeft, LeftTo, Looping, Registering, OneThreadPerModule, HostTypeOK
<1>5. InOrder'
  BY DEF InOrder, Looping, Registering, OneThreadPerModule, Registration, TodoIsLeft,
       LeftTo, HostTypeOK
<1>6. FilterKept' /\ ServedBeforeHooked' /\ HookedNeedsBridge' /\ AllPlainHooked'
  BY DEF FilterKept, HookedOnlyInNamespace, ServedBeforeHooked, HookedNeedsBridge,
       AllPlainHooked
<1> QED
  BY <1>1, <1>2, <1>3, <1>4, <1>5, <1>6

\* Nor its links.
LEMMA LinkPrevStep ==
  ASSUME HostInductive, NEW th \in Threads, LinkPrev(th)
  PROVE  HostInductive'
<1> USE MethodAssumption DEF HostInductive, LinkPrev, At, configVars, threadVars, listVars,
       serverVars
<1>1. HostTypeOK'
  BY DEF HostTypeOK, PCs, Registrations
<1>2. ClaimsAgree'
  BY DEF ClaimsAgree, Claims, Registration, Hook, Registering, HostTypeOK, Registrations
<1>3. OneThreadPerModule'
  BY DEF OneThreadPerModule, HostTypeOK
<1>4. TodoIsLeft'
  BY DEF TodoIsLeft, LeftTo, Looping, Registering, OneThreadPerModule, HostTypeOK
<1>5. InOrder'
  BY DEF InOrder, Looping, Registering, OneThreadPerModule, Registration, TodoIsLeft,
       LeftTo, HostTypeOK
<1>6. FilterKept' /\ ServedBeforeHooked' /\ HookedNeedsBridge' /\ AllPlainHooked'
  BY DEF FilterKept, HookedOnlyInNamespace, ServedBeforeHooked, HookedNeedsBridge,
       AllPlainHooked
<1> QED
  BY <1>1, <1>2, <1>3, <1>4, <1>5, <1>6

\* What is sent is what the thread claims already.
LEMMA SendStep ==
  ASSUME HostInductive, NEW th \in Threads, OnMethodRegistered(th)
  PROVE  HostInductive'
<1> USE MethodAssumption DEF HostInductive, OnMethodRegistered, At, configVars, threadVars,
       listVars, serverVars
<1>1. HostTypeOK'
  BY DEF HostTypeOK, PCs, Registrations, Registration, OneThreadPerModule, TodoIsLeft, LeftTo,
       Looping, Registering
<1>2. ClaimsAgree'
  BY DEF ClaimsAgree, Claims, Registration, Hook, Registering, HostTypeOK, Registrations
<1>3. OneThreadPerModule'
  BY DEF OneThreadPerModule, HostTypeOK
<1>4. TodoIsLeft'
  BY DEF TodoIsLeft, LeftTo, Looping, Registering, OneThreadPerModule, HostTypeOK
<1>5. InOrder'
  BY DEF InOrder, Looping, Registering, OneThreadPerModule, Registration, TodoIsLeft,
       LeftTo, HostTypeOK
<1>6. FilterKept' /\ ServedBeforeHooked' /\ HookedNeedsBridge' /\ AllPlainHooked'
  BY DEF FilterKept, HookedOnlyInNamespace, ServedBeforeHooked, HookedNeedsBridge,
       AllPlainHooked
<1> QED
  BY <1>1, <1>2, <1>3, <1>4, <1>5, <1>6

\* What the server holds was on its way before.
LEMMA ServerStep ==
  ASSUME HostInductive, NEW g \in wire, ServerHandles(g)
  PROVE  HostInductive'
<1> USE MethodAssumption DEF HostInductive, ServerHandles, configVars, threadVars, listVars,
       serverVars
<1>1. HostTypeOK'
  BY DEF HostTypeOK, PCs, Registrations, Registration, OneThreadPerModule, TodoIsLeft, LeftTo,
       Looping, Registering
<1>2. ClaimsAgree'
  BY DEF ClaimsAgree, Claims, Registration, Hook, Registering, HostTypeOK, Registrations
<1>3. InOrder'
  BY DEF InOrder, Looping, Registering, OneThreadPerModule, Registration, TodoIsLeft,
       LeftTo, HostTypeOK
<1>4. ServedBeforeHooked'
  BY DEF ServedBeforeHooked, InOrder, HostTypeOK, TodoIsLeft, LeftTo, Looping, Registering,
       Registration
<1>5. OneThreadPerModule' /\ TodoIsLeft' /\ FilterKept' /\ HookedNeedsBridge' /\
      AllPlainHooked'
  BY DEF OneThreadPerModule, TodoIsLeft, LeftTo, FilterKept, HookedOnlyInNamespace,
       HookedNeedsBridge, AllPlainHooked
<1> QED
  BY <1>1, <1>2, <1>3, <1>4, <1>5

\* A call that returns has been handled.
LEMMA ReturnStep ==
  ASSUME HostInductive, NEW th \in Threads, RegisterMethodReturns(th)
  PROVE  HostInductive'
<1> USE MethodAssumption DEF HostInductive, RegisterMethodReturns, At, configVars,
       threadVars, listVars, serverVars
<1>1. HostTypeOK'
  BY DEF HostTypeOK, PCs, Registrations
<1>2. ClaimsAgree'
  BY DEF ClaimsAgree, Claims, Registration, Hook, Registering, HostTypeOK, Registrations
<1>3. OneThreadPerModule'
  BY DEF OneThreadPerModule, HostTypeOK
<1>4. TodoIsLeft'
  BY DEF TodoIsLeft, LeftTo, Looping, Registering, OneThreadPerModule, HostTypeOK
<1>5. InOrder'
  BY DEF InOrder, Looping, Registering, OneThreadPerModule, Registration, TodoIsLeft,
       LeftTo, HostTypeOK
<1>6. FilterKept' /\ ServedBeforeHooked' /\ HookedNeedsBridge' /\ AllPlainHooked'
  BY DEF FilterKept, HookedOnlyInNamespace, ServedBeforeHooked, HookedNeedsBridge,
       AllPlainHooked
<1> QED
  BY <1>1, <1>2, <1>3, <1>4, <1>5, <1>6

\* A call that fails needs the fault.
LEMMA FailStep ==
  ASSUME HostInductive, NEW th \in Threads, RegisterMethodFails(th)
  PROVE  HostInductive'
<1> USE MethodAssumption DEF HostInductive, RegisterMethodFails, At, configVars, threadVars,
       listVars, serverVars
<1>1. HostTypeOK'
  BY DEF HostTypeOK, PCs, Registrations
<1>2. ClaimsAgree'
  BY DEF ClaimsAgree, Claims, Registration, Hook, Registering, HostTypeOK, Registrations
<1>3. OneThreadPerModule'
  BY DEF OneThreadPerModule, HostTypeOK
<1>4. TodoIsLeft'
  BY DEF TodoIsLeft, LeftTo, Looping, Registering, OneThreadPerModule, HostTypeOK
<1>5. InOrder'
  BY DEF InOrder, Looping, Registering, OneThreadPerModule, Registration, TodoIsLeft,
       LeftTo, HostTypeOK
<1>6. FilterKept' /\ ServedBeforeHooked' /\ HookedNeedsBridge' /\ AllPlainHooked'
  BY DEF FilterKept, HookedOnlyInNamespace, ServedBeforeHooked, HookedNeedsBridge,
       AllPlainHooked
<1> QED
  BY <1>1, <1>2, <1>3, <1>4, <1>5, <1>6

\* The hooks pass the token the thread claims, of a method it had left to do.
LEMMA InjectStep ==
  ASSUME HostInductive, NEW th \in Threads, NEW ok \in BOOLEAN, InjectEnterExitHooks(th, ok)
  PROVE  HostInductive'
<1> USE MethodAssumption DEF HostInductive, InjectEnterExitHooks, CanHook, Returns, At,
       configVars, threadVars, listVars, serverVars
<1>1. HostTypeOK'
  BY DEF HostTypeOK, PCs, Registrations, Registration, OneThreadPerModule, TodoIsLeft, LeftTo,
       Looping, Registering
<1>2. ClaimsAgree'
  BY DEF ClaimsAgree, Claims, Registration, Hook, Registering, HostTypeOK, Registrations
<1>3. OneThreadPerModule'
  BY DEF OneThreadPerModule, HostTypeOK
<1>4. TodoIsLeft'
  <2> USE DEF OneThreadPerModule, TodoIsLeft, LeftTo, Looping, Registering, HostTypeOK
  <2>1. method[th] \in todo[th] /\ module[th] \in Modules /\ method[th] \in Methods
        /\ ModuleOf[method[th]] = module[th]
    OBVIOUS
  <2>2. ASSUME NEW u \in Threads, u # th
        PROVE  LeftTo(u)'
    <3>1. pc'[u] = pc[u] /\ todo'[u] = todo[u]
      BY <2>2
    <3>2. \A x \in Methods : ModuleOf[x] # module[th] => hooked'[x] = hooked[x]
      BY <2>1
    <3>3. \A x \in Methods : hooked[x] # 0 => hooked'[x] # 0
      BY <2>1
    <3>4. pc[u] # "idle" => module[u] # module[th]
      BY <2>2
    <3> QED
      BY <2>2, <3>1, <3>2, <3>3, <3>4
  <2>3. ASSUME pc'[th] \in Looping
        PROVE  LeftTo(th)'
    <3>1. pc'[th] = "method" /\ todo'[th] = todo[th] \ {method[th]}
      BY <2>3
    <3>2. \A x \in Methods \ {method[th]} : hooked'[x] = hooked[x]
      BY <2>1
    <3>3. Body[method[th]] = "plain" /\ "com" \notin Faults =>
              hooked'[method[th]] = token[th]
      BY <2>1
    <3>4. token[th] # 0
      BY TokenIssued
    <3> QED
      BY <2>1, <3>1, <3>2, <3>3, <3>4
  <2> QED
    BY <2>2, <2>3
<1>5. InOrder'
  BY DEF InOrder, Looping, Registering, OneThreadPerModule, Registration, TodoIsLeft,
       LeftTo, HostTypeOK
<1>6. FilterKept'
  BY DEF FilterKept, HookedOnlyInNamespace, InOrder, TodoIsLeft, LeftTo, Looping,
       Registering, HostTypeOK
<1>7. ServedBeforeHooked'
  BY DEF ServedBeforeHooked, InOrder, HostTypeOK, TodoIsLeft, LeftTo, Looping, Registering,
       Registration
<1>8. HookedNeedsBridge'
  BY DEF HookedNeedsBridge, InOrder, HostTypeOK, TodoIsLeft, LeftTo, Looping, Registering
<1>9. AllPlainHooked'
  <2> USE DEF OneThreadPerModule, TodoIsLeft, LeftTo, Looping, Registering, HostTypeOK
  <2> SUFFICES ASSUME NEW x \in InNamespace, load'[ModuleOf[x]] = "ok",
                      Body[x] = "plain", "com" \notin Faults
               PROVE  hooked'[x] # 0
    BY DEF AllPlainHooked
  <2>1. method[th] \in todo[th] /\ module[th] \in Modules /\ method[th] \in Methods
        /\ token[th] # 0
    BY TokenIssued
  <2>2. CASE x = method[th]
    BY <2>1, <2>2
  <2>3. CASE x # method[th] /\ load[ModuleOf[x]] = "ok"
    BY <2>1, <2>3 DEF AllPlainHooked
  <2>4. CASE x # method[th] /\ load[ModuleOf[x]] # "ok"
    <3>1. ModuleOf[x] = module[th] /\ todo[th] = {method[th]}
      BY <2>4
    <3> QED
      BY <2>1, <2>4, <3>1
  <2> QED
    BY <2>2, <2>3, <2>4
<1> QED
  BY <1>1, <1>2, <1>3, <1>4, <1>5, <1>6, <1>7, <1>8, <1>9

\* Stuttering changes nothing.
LEMMA StutterStep ==
  ASSUME HostInductive, UNCHANGED hostVars
  PROVE  HostInductive'
<1> USE MethodAssumption DEF HostInductive, hostVars, configVars, threadVars, listVars,
       serverVars
<1>1. HostTypeOK'
  BY DEF HostTypeOK
<1>2. ClaimsAgree' /\ OneThreadPerModule' /\ TodoIsLeft' /\ InOrder' /\ FilterKept' /\
      ServedBeforeHooked' /\ HookedNeedsBridge' /\ AllPlainHooked'
  BY DEF ClaimsAgree, Claims, Registration, Hook, OneThreadPerModule, TodoIsLeft, LeftTo,
       InOrder, FilterKept, HookedOnlyInNamespace, ServedBeforeHooked,
       HookedNeedsBridge, AllPlainHooked
<1> QED
  BY <1>1, <1>2

-----------------------------------------------------------------------------
\* Nothing is loaded, claimed or hooked at first.
LEMMA InitInductive == HostInit => HostInductive
<1> SUFFICES ASSUME HostInit PROVE HostInductive
  OBVIOUS
<1> USE MethodAssumption DEF HostInit
<1>1. HostTypeOK /\ OneThreadPerModule /\ TodoIsLeft /\ InOrder
  BY DEF HostTypeOK, PCs, OneThreadPerModule, TodoIsLeft, LeftTo, Looping, Registering, InOrder
<1>2. Claims = {}
  BY DEF Claims, Registering
<1>3. ClaimsAgree /\ FilterKept /\ ServedBeforeHooked /\ HookedNeedsBridge /\ AllPlainHooked
  BY <1>2 DEF ClaimsAgree, FilterKept, ServedBeforeHooked, HookedNeedsBridge, AllPlainHooked
<1> QED
  BY <1>1, <1>3 DEF HostInductive

LEMMA NextInductive == HostInductive /\ [HostNext]_hostVars => HostInductive'
<1> SUFFICES ASSUME HostInductive, [HostNext]_hostVars PROVE HostInductive'
  OBVIOUS
<1>1. CASE \E ok \in BOOLEAN : GetProfilingConfig(ok)
  BY <1>1, ConfigStep
<1>2. CASE Initialize
  BY <1>2, InitializeStep
<1>3. CASE \E th \in Threads, m \in Modules : ModuleLoadFinished(th, m)
  BY <1>3, LoadStep
<1>4. ASSUME NEW th \in Threads, Callback(th) \/ ComError(th) \/ RegisterMethodFails(th)
      PROVE  HostInductive'
  <2>1. CASE AddProfilerCoreReferences(th) \/ AddHookBridgeType(th) \/ InstrumentMethods(th)
    BY <2>1, ReferencesStep, BridgeStep, MethodsStep
  <2>2. CASE \E x \in Methods : IssueToken(th, x)
    BY <2>2, IssueStep
  <2>3. CASE BuyNode(th) \/ LinkHead(th) \/ LinkPrev(th)
    BY <2>3, BuyStep, LinkHeadStep, LinkPrevStep
  <2>4. CASE OnMethodRegistered(th) \/ RegisterMethodReturns(th) \/ RegisterMethodFails(th)
    BY <2>4, SendStep, ReturnStep, FailStep
  <2>5. CASE \E ok \in BOOLEAN : InjectEnterExitHooks(th, ok)
    BY <2>5, InjectStep
  <2>6. CASE ComError(th)
    BY <2>6, ComErrorStep
  <2> QED
    BY <1>4, <2>1, <2>2, <2>3, <2>4, <2>5, <2>6 DEF Callback
<1>5. CASE \E g \in wire : ServerHandles(g)
  BY <1>5, ServerStep
<1>6. CASE UNCHANGED hostVars
  BY <1>6, StutterStep
<1> QED
  BY <1>1, <1>2, <1>3, <1>4, <1>5, <1>6 DEF HostNext

\* The inductive invariant holds however many threads load modules at once
\* and whatever fails.
THEOREM HostInvariant == HostSpec => []HostInductive
BY InitInductive, NextInductive, PTL DEF HostSpec

\* Every variable keeps to its type.
THEOREM HostTypeCorrect == HostSpec => []HostTypeOK
<1>1. HostInductive => HostTypeOK
  BY DEF HostInductive
<1> QED
  BY <1>1, HostInvariant, PTL

-----------------------------------------------------------------------------
(* What holds of a state.                                                  *)

\* MetadataRegistry's tokens: concurrent callbacks never hand one token to the
\* server for two methods, and no two methods' hooks pass the same one.
THEOREM HostTokensUnique == HostSpec => []TokensUnique
<1>1. ASSUME HostInductive
      PROVE  TokensUnique
  <2>1. \A g, h \in Claims : g.token = h.token => g = h
    BY <1>1 DEF HostInductive, ClaimsAgree
  <2>2. wire \cup served \subseteq Claims
    BY DEF Claims
  <2>3. ASSUME NEW x \in Methods, NEW y \in Methods, hooked[x] # 0, hooked[x] = hooked[y]
        PROVE  x = y
    <3>1. Hook(x) \in Claims /\ Hook(y) \in Claims
      BY <2>3 DEF Claims
    <3>2. Hook(x).token = Hook(y).token
      BY <2>3 DEF Hook
    <3>3. Hook(x) = Hook(y)
      BY <2>1, <3>1, <3>2
    <3> QED
      BY <3>3 DEF Hook
  <2> QED
    BY <2>1, <2>2, <2>3 DEF TokensUnique
<1> QED
  BY <1>1, HostInvariant, PTL

\* When registration calls do not fail, hooks are installed only after the
\* server has learnt what their token means.
THEOREM HostServedBeforeHooked == HostSpec => []ServedBeforeHooked
<1>1. HostInductive => ServedBeforeHooked
  BY DEF HostInductive
<1> QED
  BY <1>1, HostInvariant, PTL

\* Wherever a COM error stops the callback, no module has hooks without the
\* bridge type they call.
THEOREM HostHookedNeedsBridge == HostSpec => []HookedNeedsBridge
<1>1. HostInductive => HookedNeedsBridge
  BY DEF HostInductive
<1> QED
  BY <1>1, HostInvariant, PTL

\* A module that ended without an error has hooks in every selected method
\* that can take them.
THEOREM HostAllPlainHooked == HostSpec => []AllPlainHooked
<1>1. HostInductive => AllPlainHooked
  BY DEF HostInductive
<1> QED
  BY <1>1, HostInvariant, PTL

\* When the request for the configuration does not fail, only methods of the
\* namespace are hooked: the assumption cannot be dropped, as GetProfilingConfig
\* does not look at the Status.
THEOREM HostHookedOnlyInNamespace ==
  ASSUME "config" \notin Faults
  PROVE  HostSpec => []HookedOnlyInNamespace
<1>1. ASSUME HostInductive
      PROVE  HookedOnlyInNamespace
  <2>1. CASE phase = "constructing"
    <3>1. \A x \in Methods : hooked[x] = 0
      BY <1>1, <2>1, MethodAssumption DEF HostInductive, InOrder
    <3> QED
      BY <3>1 DEF HookedOnlyInNamespace
  <2>2. CASE phase # "constructing"
    BY <1>1, <2>2 DEF HostInductive, FilterKept
  <2> QED
    BY <2>1, <2>2
<1> QED
  BY <1>1, HostInvariant, PTL

-----------------------------------------------------------------------------
(* What holds of a step.                                                   *)

\* The part of a step that HooksKept speaks of.
Kept ==
  /\ \A x \in Methods : hooked[x] # 0 => hooked'[x] = hooked[x]
  /\ served \subseteq served'
  /\ counter <= counter'

LEMMA KeptStep ==
  ASSUME HostInductive, [HostNext]_hostVars
  PROVE  Kept
<1> USE DEF HostInductive, HostTypeOK, Kept
<1>1. ASSUME NEW th \in Threads, NEW ok \in BOOLEAN, InjectEnterExitHooks(th, ok)
      PROVE  Kept
  <2>1. method[th] \in todo[th] /\ hooked[method[th]] = 0
    BY <1>1 DEF InjectEnterExitHooks, TodoIsLeft, LeftTo, Looping, Registering
  <2> QED
    BY <1>1, <2>1 DEF InjectEnterExitHooks, serverVars
<1>2. ASSUME NEW th \in Threads, NEW x \in Methods, IssueToken(th, x)
      PROVE  Kept
  BY <1>2 DEF IssueToken, serverVars
<1>3. ASSUME NEW g \in wire, ServerHandles(g)
      PROVE  Kept
  BY <1>3 DEF ServerHandles
<1>4. CASE UNCHANGED <<hooked, served, counter>>
  BY <1>4
<1> QED
  BY <1>1, <1>2, <1>3, <1>4
     DEF HostNext, hostVars, Callback, GetProfilingConfig, Initialize, ModuleLoadFinished,
         AddProfilerCoreReferences, AddHookBridgeType, InstrumentMethods, ComError,
         BuyNode, LinkHead, LinkPrev, OnMethodRegistered, RegisterMethodReturns,
         RegisterMethodFails, serverVars

\* A method is hooked at most once, the server forgets no registration, and
\* tokens only grow.
THEOREM HostHooksKept == HostSpec => HooksKept
<1>1. HostInductive /\ [HostNext]_hostVars => [Kept]_hostVars
  BY KeptStep
<1>2. HostSpec => [][Kept]_hostVars
  BY <1>1, HostInvariant, PTL DEF HostSpec
<1> QED
  BY <1>2, PTL DEF HooksKept, Kept

-----------------------------------------------------------------------------
(* A method gets one token.                                                *)

\* Only IssueToken binds a token to a method: all other steps pass it on.
LEMMA ClaimsPass ==
  ASSUME HostInductive, [HostNext]_hostVars
  PROVE  \/ Claims' \subseteq Claims
         \/ \E th \in Threads, x \in Methods : IssueToken(th, x)
<1> USE MethodAssumption DEF HostInductive, HostTypeOK, Claims, Registering, Registration,
       Hook, Registrations, At, Returns, configVars, threadVars, listVars, serverVars
<1>1. ASSUME NEW th \in Threads, NEW ok \in BOOLEAN, InjectEnterExitHooks(th, ok)
      PROVE  Claims' \subseteq Claims
  <2>1. method[th] \in Methods
    BY <1>1 DEF InjectEnterExitHooks, TodoIsLeft, LeftTo, Looping
  <2> QED
    BY <1>1, <2>1 DEF InjectEnterExitHooks
<1>2. ASSUME NEW th \in Threads,
             AddProfilerCoreReferences(th) \/ AddHookBridgeType(th) \/ InstrumentMethods(th)
             \/ ComError(th) \/ \E m \in Modules : ModuleLoadFinished(th, m)
      PROVE  Claims' \subseteq Claims
  BY <1>2 DEF AddProfilerCoreReferences, AddHookBridgeType, InstrumentMethods, ComError,
       ModuleLoadFinished
<1>3. ASSUME NEW th \in Threads, BuyNode(th) \/ LinkHead(th) \/ LinkPrev(th)
      PROVE  Claims' \subseteq Claims
  BY <1>3 DEF BuyNode, LinkHead, LinkPrev
<1>4. ASSUME NEW th \in Threads,
             OnMethodRegistered(th) \/ RegisterMethodReturns(th) \/ RegisterMethodFails(th)
      PROVE  Claims' \subseteq Claims
  BY <1>4 DEF OnMethodRegistered, RegisterMethodReturns, RegisterMethodFails
<1>5. ASSUME NEW g \in wire, ServerHandles(g)
      PROVE  Claims' \subseteq Claims
  BY <1>5 DEF ServerHandles
<1>6. CASE \E ok \in BOOLEAN : GetProfilingConfig(ok)
  BY <1>6 DEF GetProfilingConfig
<1>7. CASE Initialize \/ UNCHANGED hostVars
  BY <1>7 DEF Initialize, hostVars
<1> QED
  BY <1>1, <1>2, <1>3, <1>4, <1>5, <1>6, <1>7 DEF HostNext, Callback

\* Where no token is issued, no method without one comes to have one, and what
\* a thread has not reached after the step it had not reached before.
LEMMA OneTokenKept ==
  ASSUME HostInductive, OneTokenPerMethod, [HostNext]_hostVars, Claims' \subseteq Claims
  PROVE  OneTokenPerMethod'
<1> USE MethodAssumption DEF HostInductive, HostTypeOK
<1>1. \A x \in Methods : Unclaimed(x) => Unclaimed(x)'
  BY DEF Unclaimed
<1>2. \A g, h \in Claims' : g.method = h.method => g = h
  BY DEF OneTokenPerMethod
<1>3. ASSUME NEW th \in Threads, NEW m \in Modules, ModuleLoadFinished(th, m)
      PROVE  OneTokenPerMethod'
  BY <1>1, <1>2, <1>3 DEF OneTokenPerMethod, ModuleLoadFinished, At, Looping, Registering
<1>4. ASSUME NEW th \in Threads, InstrumentMethods(th)
      PROVE  OneTokenPerMethod'
  BY <1>1, <1>2, <1>4 DEF OneTokenPerMethod, InstrumentMethods, Returns,
       GetModuleTypesToInstrument, Selected, Looping, Registering, OneThreadPerModule
<1>5. ASSUME NEW th \in Threads, AddProfilerCoreReferences(th) \/ AddHookBridgeType(th)
      PROVE  OneTokenPerMethod'
  BY <1>1, <1>2, <1>5 DEF OneTokenPerMethod, AddProfilerCoreReferences, AddHookBridgeType,
       At, Looping, Registering, threadVars
<1>6. ASSUME NEW th \in Threads, ComError(th)
      PROVE  OneTokenPerMethod'
  BY <1>1, <1>2, <1>6 DEF OneTokenPerMethod, ComError, Returns, Looping, Registering,
       OneThreadPerModule
<1>7. ASSUME NEW th \in Threads, BuyNode(th) \/ LinkHead(th) \/ LinkPrev(th)
      PROVE  OneTokenPerMethod'
  BY <1>1, <1>2, <1>7 DEF OneTokenPerMethod, BuyNode, LinkHead, LinkPrev, At, Looping,
       Registering, threadVars
<1>8. ASSUME NEW th \in Threads,
             OnMethodRegistered(th) \/ RegisterMethodReturns(th) \/ RegisterMethodFails(th)
      PROVE  OneTokenPerMethod'
  BY <1>1, <1>2, <1>8 DEF OneTokenPerMethod, OnMethodRegistered, RegisterMethodReturns,
       RegisterMethodFails, At, Looping, Registering, threadVars
<1>9. ASSUME NEW th \in Threads, NEW ok \in BOOLEAN, InjectEnterExitHooks(th, ok)
      PROVE  OneTokenPerMethod'
  <2>1. module[th] \in Modules /\ load[module[th]] = "loading"
    BY <1>9 DEF InjectEnterExitHooks, OneThreadPerModule
  <2>2. \A u \in Threads : u # th => pc'[u] = pc[u] /\ todo'[u] = todo[u]
    BY <1>9 DEF InjectEnterExitHooks, Returns
  <2>3. pc'[th] \in {"idle", "method"} /\ todo'[th] = todo[th] \ {method[th]}
    BY <1>9 DEF InjectEnterExitHooks, Returns
  <2>4. \A m \in Modules : load'[m] = "unloaded" => load[m] = "unloaded"
    BY <1>9 DEF InjectEnterExitHooks, Returns
  <2>5. UNCHANGED <<module, method>> /\ pc[th] = "inject"
    BY <1>9 DEF InjectEnterExitHooks
  <2> QED
    BY <1>1, <1>2, <2>2, <2>3, <2>4, <2>5 DEF OneTokenPerMethod, Looping, Registering
<1>10. CASE UNCHANGED <<pc, module, todo, method, load>>
  BY <1>1, <1>2, <1>10 DEF OneTokenPerMethod
<1>11. ASSUME NEW th \in Threads, NEW x \in Methods, IssueToken(th, x)
       PROVE  OneTokenPerMethod'
  BY <1>1, <1>2, <1>11 DEF OneTokenPerMethod, IssueToken, At, Looping, Registering
<1> QED
  BY <1>3, <1>4, <1>5, <1>6, <1>7, <1>8, <1>9, <1>10, <1>11
     DEF HostNext, hostVars, Callback, GetProfilingConfig, Initialize, ServerHandles,
         threadVars

\* The method a token is issued for had none, and no other thread is about to
\* issue one for it: its module is in the hands of one thread.
LEMMA OneTokenIssued ==
  ASSUME HostInductive, OneTokenPerMethod,
         NEW th \in Threads, NEW x \in Methods, IssueToken(th, x)
  PROVE  OneTokenPerMethod'
<1> USE MethodAssumption DEF HostInductive, HostTypeOK
<1>1. Unclaimed(x) /\ ModuleOf[x] = module[th] /\ pc[th] = "method"
  BY DEF IssueToken, At, OneTokenPerMethod, TodoIsLeft, LeftTo, Looping, Registering
<1>2. Claims' = Claims \cup {[token |-> counter + 1, method |-> x]}
  BY DEF IssueToken, At, Claims, Registering, Registration, Hook, configVars, listVars,
       serverVars
<1>3. \A g, h \in Claims' : g.method = h.method => g = h
  BY <1>1, <1>2 DEF OneTokenPerMethod, Unclaimed
<1>4. \A y \in Methods : y # x /\ Unclaimed(y) => Unclaimed(y)'
  BY <1>2 DEF Unclaimed
<1>5. \A u \in Threads : u # th /\ pc[u] # "idle" => module[u] # ModuleOf[x]
  BY <1>1 DEF OneThreadPerModule
<1>6. load[ModuleOf[x]] = "loading"
  BY <1>1 DEF OneThreadPerModule
<1>7. /\ \A u \in Threads : u # th => pc'[u] = pc[u] /\ method'[u] = method[u]
      /\ pc'[th] = "buy" /\ method'[th] = x
      /\ UNCHANGED <<module, todo, load>>
  BY DEF IssueToken, At
<1>8. \A u \in Threads : pc[u] \in Looping => \A y \in todo[u] : ModuleOf[y] = module[u]
  BY DEF TodoIsLeft, LeftTo
<1>9. \A y \in Methods : load'[ModuleOf[y]] = "unloaded" => Unclaimed(y)'
  BY <1>4, <1>6, <1>7 DEF OneTokenPerMethod
<1>10. \A u \in Threads, y \in Methods :
         pc'[u] \in {"references", "bridge", "types"} /\ ModuleOf[y] = module'[u] =>
             Unclaimed(y)'
  BY <1>4, <1>5, <1>7 DEF OneTokenPerMethod
<1>11. \A u \in Threads, y \in Methods :
         pc'[u] \in Looping /\ y \in todo'[u] =>
             Unclaimed(y)' \/ (pc'[u] \in Registering /\ y = method'[u])
  BY <1>1, <1>4, <1>5, <1>7, <1>8 DEF OneTokenPerMethod, Looping, Registering
<1> QED
  BY <1>3, <1>9, <1>10, <1>11 DEF OneTokenPerMethod

LEMMA OneTokenStep ==
  ASSUME HostInductive, OneTokenPerMethod, [HostNext]_hostVars
  PROVE  OneTokenPerMethod'
BY ClaimsPass, OneTokenKept, OneTokenIssued

LEMMA OneTokenInit == HostInit => OneTokenPerMethod
BY DEF HostInit, OneTokenPerMethod, Claims, Unclaimed, Registering, Looping

\* A method gets at most one token in the life of a process, whatever fails.
THEOREM HostOneTokenPerMethod == HostSpec => []OneTokenPerMethod
<1>1. HostInductive /\ OneTokenPerMethod /\ [HostNext]_hostVars => OneTokenPerMethod'
  BY OneTokenStep
<1> QED
  BY <1>1, OneTokenInit, HostInvariant, PTL DEF HostSpec

\* The registry's loops reach each method once: no method is described to the
\* server twice.
THEOREM HostRegisteredOnce == HostSpec => []RegisteredOnce
<1>1. OneTokenPerMethod => RegisteredOnce
  BY DEF OneTokenPerMethod, RegisteredOnce, Claims
<1> QED
  BY <1>1, HostOneTokenPerMethod, PTL

-----------------------------------------------------------------------------
(* The list.                                                               *)

\* What has entered the list has been registered since, or is about to be.
LEMMA EnteredKept ==
  ASSUME HostInductive, [HostNext]_hostVars, NEW x, Entered(x)
  PROVE  Entered(x)'
<1> USE MethodAssumption DEF HostInductive, HostTypeOK, Entered
<1>1. CASE \E th \in Threads, m \in Modules : ModuleLoadFinished(th, m)
  BY <1>1 DEF ModuleLoadFinished, At, serverVars
<1>2. ASSUME NEW th \in Threads,
             AddProfilerCoreReferences(th) \/ AddHookBridgeType(th) \/ InstrumentMethods(th)
             \/ ComError(th)
      PROVE  Entered(x)'
  BY <1>2 DEF AddProfilerCoreReferences, AddHookBridgeType, InstrumentMethods, ComError, At,
       Returns, serverVars, threadVars
<1>3. ASSUME NEW th \in Threads, NEW y \in Methods, IssueToken(th, y)
      PROVE  Entered(x)'
  BY <1>3 DEF IssueToken, At, serverVars
<1>4. ASSUME NEW th \in Threads, BuyNode(th) \/ LinkHead(th) \/ LinkPrev(th)
      PROVE  Entered(x)'
  BY <1>4 DEF BuyNode, LinkHead, LinkPrev, At, serverVars, threadVars
<1>5. ASSUME NEW th \in Threads, OnMethodRegistered(th)
      PROVE  Entered(x)'
  <2>1. wire' = wire \cup {Registration(th)} /\ Registration(th).method = method[th]
    BY <1>5 DEF OnMethodRegistered, Registration
  <2>2. \A u \in Threads : u # th => pc'[u] = pc[u]
    BY <1>5 DEF OnMethodRegistered, At
  <2>3. UNCHANGED <<method, served>>
    BY <1>5 DEF OnMethodRegistered, threadVars
  <2> QED BY <2>1, <2>2, <2>3
<1>6. ASSUME NEW th \in Threads, RegisterMethodReturns(th) \/ RegisterMethodFails(th)
      PROVE  Entered(x)'
  BY <1>6 DEF RegisterMethodReturns, RegisterMethodFails, At, threadVars, serverVars
<1>7. ASSUME NEW th \in Threads, NEW ok \in BOOLEAN, InjectEnterExitHooks(th, ok)
      PROVE  Entered(x)'
  BY <1>7 DEF InjectEnterExitHooks, Returns, serverVars
<1>8. ASSUME NEW g \in wire, ServerHandles(g)
      PROVE  Entered(x)'
  BY <1>8 DEF ServerHandles, threadVars
<1>9. CASE UNCHANGED <<pc, method, wire, served>>
  BY <1>9
<1> QED
  BY <1>1, <1>2, <1>3, <1>4, <1>5, <1>6, <1>7, <1>8, <1>9
     DEF HostNext, hostVars, Callback, GetProfilingConfig, Initialize, threadVars, serverVars

\* A thread registers a method that no other thread has.
LEMMA OneThreadPerMethod ==
  ASSUME HostInductive, NEW t \in Threads, NEW u \in Threads,
         pc[t] \in Registering, pc[u] \in Registering, method[t] = method[u]
  PROVE  t = u
BY DEF HostInductive, OneThreadPerModule, TodoIsLeft, LeftTo, Looping, Registering

\* What a thread is about to enter has not been registered.
LEMMA UnsentKept ==
  ASSUME HostInductive, OneTokenPerMethod, ListLinked, [HostNext]_hostVars,
         NEW th \in Threads, pc'[th] \in {"buy", "linkHead", "linkPrev", "send"},
         NEW g \in wire' \cup served', g.method = method'[th]
  PROVE  FALSE
<1> USE MethodAssumption DEF HostInductive, HostTypeOK
<1>1. ASSUME NEW x \in Methods, IssueToken(th, x)
      PROVE  FALSE
  BY <1>1 DEF IssueToken, At, OneTokenPerMethod, Unclaimed, Claims, Looping, Registering,
       serverVars
<1>2. ASSUME NEW u \in Threads, OnMethodRegistered(u)
      PROVE  FALSE
  <2>1. u # th /\ pc[u] = "send" /\ pc[th] = pc'[th] /\ method[th] = method'[th]
    BY <1>2 DEF OnMethodRegistered, At, threadVars
  <2>2. g = Registration(u)
    BY <1>2, <2>1 DEF OnMethodRegistered, ListLinked
  <2> QED
    BY <2>1, <2>2, OneThreadPerMethod DEF Registration, Registering
<1>3. ASSUME pc[th] \in {"buy", "linkHead", "linkPrev", "send"}, method[th] = method'[th],
             wire' \cup served' \subseteq wire \cup served
      PROVE  FALSE
  BY <1>3 DEF ListLinked
<1>4. ASSUME NEW u \in Threads,
             AddProfilerCoreReferences(u) \/ AddHookBridgeType(u) \/ InstrumentMethods(u)
             \/ ComError(u) \/ \E m \in Modules : ModuleLoadFinished(u, m)
      PROVE  FALSE
  BY <1>3, <1>4 DEF AddProfilerCoreReferences, AddHookBridgeType, InstrumentMethods, ComError,
       ModuleLoadFinished, At, Returns, serverVars, threadVars
<1>5. ASSUME NEW u \in Threads, NEW x \in Methods, IssueToken(u, x)
      PROVE  FALSE
  BY <1>1, <1>3, <1>5 DEF IssueToken, At, serverVars
<1>6. ASSUME NEW u \in Threads, BuyNode(u) \/ LinkHead(u) \/ LinkPrev(u)
      PROVE  FALSE
  BY <1>3, <1>6 DEF BuyNode, LinkHead, LinkPrev, At, serverVars, threadVars
<1>7. ASSUME NEW u \in Threads, RegisterMethodReturns(u) \/ RegisterMethodFails(u)
      PROVE  FALSE
  BY <1>3, <1>7 DEF RegisterMethodReturns, RegisterMethodFails, At, threadVars, serverVars
<1>8. ASSUME NEW u \in Threads, NEW ok \in BOOLEAN, InjectEnterExitHooks(u, ok)
      PROVE  FALSE
  BY <1>3, <1>8 DEF InjectEnterExitHooks, Returns, serverVars
<1>9. ASSUME NEW h \in wire, ServerHandles(h)
      PROVE  FALSE
  BY <1>3, <1>9 DEF ServerHandles, threadVars
<1>10. CASE UNCHANGED <<pc, method, wire, served>>
  BY <1>3, <1>10
<1> QED
  BY <1>2, <1>4, <1>5, <1>6, <1>7, <1>8, <1>9, <1>10
     DEF HostNext, hostVars, Callback, GetProfilingConfig, Initialize, threadVars, serverVars

\* A node that is bought is nobody's successor, and LinkPrev writes the _Next
\* of the node that the new one's _Prev names: _Prev still undoes _Next.
LEMMA LinksKept ==
  ASSUME HostInductive, ListLinked, [HostNext]_hostVars,
         NEW x \in Methods \cup {Null}, NEW y \in Methods, next'[x] = y
  PROVE  prev'[y] = x /\ Entered(y)'
<1> USE MethodAssumption DEF HostInductive, HostTypeOK
<1>1. ASSUME NEW th \in Threads, BuyNode(th)
      PROVE  prev'[y] = x /\ Entered(y)'
  <2>1. pc[th] = "buy" /\ method[th] \in Methods
    BY <1>1 DEF BuyNode, At, TodoIsLeft, LeftTo, Looping, Registering
  <2>2. ~ Entered(method[th])
    <3>1. \A u \in Threads : pc[u] \in {"linkHead", "linkPrev", "send"} => method[u] # method[th]
      BY <2>1, OneThreadPerMethod DEF Registering
    <3> QED BY <2>1, <3>1 DEF Entered, ListLinked
  <2>3. next[x] = y /\ x # method[th]
    BY <1>1, <2>1 DEF BuyNode
  <2>4. prev[y] = x /\ Entered(y)
    BY <2>3 DEF ListLinked
  <2>5. prev'[y] = prev[y]
    BY <1>1, <2>1, <2>2, <2>4 DEF BuyNode
  <2>6. Entered(y)'
    BY <2>4, EnteredKept
  <2> QED BY <2>4, <2>5, <2>6
<1>2. ASSUME NEW th \in Threads, LinkPrev(th)
      PROVE  prev'[y] = x /\ Entered(y)'
  <2>1. pc[th] = "linkPrev" /\ method[th] \in Methods /\ prev' = prev
    BY <1>2 DEF LinkPrev, At, TodoIsLeft, LeftTo, Looping, Registering
  <2>2. CASE x = prev[method[th]]
    <3>1. y = method[th] /\ Entered(y)
      BY <1>2, <2>1, <2>2 DEF LinkPrev, Entered
    <3> QED BY <2>1, <2>2, <3>1, EnteredKept
  <2>3. CASE x # prev[method[th]]
    <3>1. next[x] = y
      BY <1>2, <2>1, <2>3 DEF LinkPrev
    <3> QED BY <2>1, <3>1, EnteredKept DEF ListLinked
  <2> QED BY <2>2, <2>3
<1>3. ASSUME UNCHANGED <<prev, next>>
      PROVE  prev'[y] = x /\ Entered(y)'
  <2>1. prev[y] = x /\ Entered(y)
    BY <1>3 DEF ListLinked
  <2> QED BY <1>3, <2>1, EnteredKept
<1> QED
  BY <1>1, <1>2, <1>3
     DEF HostNext, hostVars, Callback, GetProfilingConfig, Initialize, ModuleLoadFinished,
         AddProfilerCoreReferences, AddHookBridgeType, InstrumentMethods, ComError, IssueToken,
         LinkHead, OnMethodRegistered, RegisterMethodReturns, RegisterMethodFails,
         InjectEnterExitHooks, ServerHandles, listVars

LEMMA ListLinkedStep ==
  ASSUME HostInductive, OneTokenPerMethod, ListLinked, [HostNext]_hostVars
  PROVE  ListLinked'
<1>1. ASSUME NEW x \in Methods \cup {Null}, NEW y \in Methods, next'[x] = y
      PROVE  prev'[y] = x /\ Entered(y)'
  BY <1>1, LinksKept
<1>2. ASSUME NEW th \in Threads, pc'[th] \in {"buy", "linkHead", "linkPrev", "send"},
             NEW g \in wire' \cup served', g.method = method'[th]
      PROVE  FALSE
  BY <1>2, UnsentKept
<1> QED
  <2>1. \A x \in Methods \cup {Null}, y \in Methods : next'[x] = y => prev'[y] = x /\ Entered(y)'
    BY <1>1
  <2>2. \A th \in Threads : pc'[th] \in {"buy", "linkHead", "linkPrev", "send"} =>
          \A g \in wire' \cup served' : g.method # method'[th]
    BY <1>2
  <2> QED BY <2>1, <2>2 DEF ListLinked

LEMMA ListLinkedInit == HostInit => ListLinked
BY MethodAssumption DEF HostInit, ListLinked

\* Every node is where the pushes left it: _Prev undoes _Next.
LEMMA AlwaysLinked == HostSpec => []ListLinked
<1>1. HostInductive /\ OneTokenPerMethod /\ ListLinked /\ [HostNext]_hostVars => ListLinked'
  BY ListLinkedStep
<1> QED
  BY <1>1, ListLinkedInit, HostInvariant, HostOneTokenPerMethod, PTL DEF HostSpec

\* Every non-empty set of natural numbers below a bound has a least element:
\* as a finite set it is minimal among its initial segments.
LEMMA LeastBelow ==
  ASSUME NEW m \in Nat, NEW T \in SUBSET (0 .. m), T # {}
  PROVE  \E n \in T : \A k \in T : n <= k
<1> DEFINE Below == {0 .. n - 1 : n \in T}
<1>1. Below \subseteq FiniteSubsetsOf(Nat) /\ Below # {}
  <2>1. ASSUME NEW n \in T PROVE IsFiniteSet(0 .. n - 1) /\ 0 .. n - 1 \subseteq Nat
    <3>1. n \in Nat /\ n - 1 \in Int
      OBVIOUS
    <3> QED BY <3>1, FS_Interval, SMT
  <2> QED BY <2>1 DEF FiniteSubsetsOf
<1>2. PICK b \in Below : \A c \in Below : <<c, b>> \notin StrictSubsetOrdering(Nat)
  <2> HIDE DEF Below
  <2> QED BY <1>1, WFMin, FS_StrictSubsetOrderingWellFounded
<1>3. PICK n \in T : b = 0 .. n - 1
  OBVIOUS
<1>4. ASSUME NEW k \in T, k < n PROVE FALSE
  <2>1. 0 .. k - 1 \in Below /\ 0 .. k - 1 \in SUBSET Nat /\ 0 .. n - 1 \in SUBSET Nat
    OBVIOUS
  <2>2. 0 .. k - 1 \subseteq 0 .. n - 1 /\ k \in 0 .. n - 1 /\ k \notin 0 .. k - 1
    BY <1>4
  <2>3. <<0 .. k - 1, 0 .. n - 1>> \in StrictSubsetOrdering(Nat)
    BY <2>1, <2>2 DEF StrictSubsetOrdering
  <2> QED BY <1>2, <1>3, <2>1, <2>3
<1> QED BY <1>4

\* The recursion of Walk is well-founded.
LEMMA WalkDefined ==
  ASSUME IsFiniteSet(Methods)
  PROVE  \A n \in 0 .. Cardinality(Methods) + 1 :
             Walk[n] = IF n = 0 THEN Null ELSE next[Walk[n - 1]]
<1> DEFINE L == Cardinality(Methods) + 1
           F(m, f) == [n \in 0 .. m |-> IF n = 0 THEN Null ELSE next[f[n - 1]]]
           T == {m \in 0 .. L : ~ \E f : f = F(m, f)}
<1>1. L \in Nat
  BY FS_CardinalityType
<1>2. T = {}
  <2> SUFFICES ASSUME T # {} PROVE FALSE
    OBVIOUS
  <2>1. PICK m \in T : \A k \in T : m <= k
    <3>1. T \in SUBSET (0 .. L)
      OBVIOUS
    <3> HIDE DEF T, L
    <3> QED BY <1>1, <3>1, LeastBelow
  <2>2. m \in 0 .. L /\ ~ \E f : f = F(m, f)
    OBVIOUS
  <2>3. m # 0
    <3>1. F(0, <<>>) = F(0, F(0, <<>>))
      OBVIOUS
    <3> QED BY <2>2, <3>1
  <2>4. m - 1 \in 0 .. L /\ m - 1 \notin T /\ m \in Nat /\ m - 1 \in Nat
    <3> HIDE DEF L, T
    <3> QED BY <1>1, <2>1, <2>2, <2>3
  <2>5. PICK f : f = F(m - 1, f)
    BY <2>4
  <2> DEFINE g == F(m, f)
  <2>6. \A n \in 0 .. m - 1 : g[n] = f[n]
    <3>1. \A n \in 0 .. m - 1 : f[n] = IF n = 0 THEN Null ELSE next[f[n - 1]]
      BY <2>5
    <3>2. \A n \in 0 .. m - 1 : n \in 0 .. m
      BY <2>4
    <3> QED BY <3>1, <3>2
  <2>7. F(m, g) = F(m, f)
    <3> HIDE DEF g
    <3>1. \A n \in 0 .. m : n # 0 => g[n - 1] = f[n - 1]
      <4>1. \A n \in 0 .. m : n # 0 => n - 1 \in 0 .. m - 1
        BY <2>4
      <4> QED BY <2>6, <4>1
    <3> QED BY <3>1
  <2>8. \E h : h = F(m, h)
    <3> HIDE DEF F
    <3> QED BY <2>7
  <2> QED BY <2>2, <2>8
<1>3. PICK f : f = F(L, f)
  <2>1. L \in 0 .. L
    <3> HIDE DEF L
    <3> QED BY <1>1
  <2> QED BY <1>2, <2>1
<1>4. Walk = CHOOSE h : h = F(L, h)
  BY DEF Walk
<1>5. Walk = F(L, Walk)
  <2> HIDE DEF F, L
  <2> QED BY <1>3, <1>4
<1> HIDE DEF L
<1>6. \A n \in 0 .. L : F(L, Walk)[n] = IF n = 0 THEN Null ELSE next[Walk[n - 1]]
  OBVIOUS
<1>7. \A n \in 0 .. L : Walk[n] = IF n = 0 THEN Null ELSE next[Walk[n - 1]]
  <2> HIDE DEF F
  <2> QED BY <1>5, <1>6
<1> QED BY <1>7 DEF L

\* There are fewer nodes than steps, so a walk that does not come back to the
\* head meets a node twice.  The earliest such node has one predecessor, which
\* the walk has then met twice before, or the head.
LEMMA WalkComesBack ==
  ASSUME IsFiniteSet(Methods), HostTypeOK, ListLinked
  PROVE  ListEnds
<1> DEFINE L == Cardinality(Methods) + 1
<1> SUFFICES ASSUME \A n \in 1 .. L : Walk[n] # Null PROVE FALSE
  BY DEF ListEnds
<1>1. Cardinality(Methods) \in Nat /\ L \in Nat
  BY FS_CardinalityType
<1>2. \A n \in 0 .. L : Walk[n] = IF n = 0 THEN Null ELSE next[Walk[n - 1]]
  BY WalkDefined
<1>3. \A n \in 0 .. L : Walk[n] \in Methods \cup {Null}
  <2> DEFINE T == {n \in 0 .. L : Walk[n] \notin Methods \cup {Null}}
  <2> SUFFICES ASSUME T # {} PROVE FALSE
    OBVIOUS
  <2>1. PICK n \in T : \A k \in T : n <= k
    <3>1. T \in SUBSET (0 .. L)
      OBVIOUS
    <3> HIDE DEF T, L
    <3> QED BY <1>1, <3>1, LeastBelow
  <2>2. n \in 0 .. L /\ n # 0
    BY <1>2
  <2>3. n - 1 \in 0 .. L /\ n - 1 \notin T
    <3> HIDE DEF T, L
    <3> QED BY <1>1, <2>1, <2>2
  <2>4. Walk[n - 1] \in Methods \cup {Null}
    BY <2>3
  <2>5. Walk[n] \in Methods \cup {Null}
    <3> HIDE DEF T, L
    <3> QED BY <1>2, <2>2, <2>4 DEF HostTypeOK
  <2> QED BY <2>5
<1> HIDE DEF L
<1>4. \A n \in 1 .. L : n \in 0 .. L /\ n - 1 \in 0 .. L /\ Walk[n] \in Methods
  BY <1>1, <1>3
<1>5. \A n \in 1 .. L : prev[Walk[n]] = Walk[n - 1]
  <2> TAKE n \in 1 .. L
  <2>1. next[Walk[n - 1]] = Walk[n] /\ Walk[n - 1] \in Methods \cup {Null} /\ Walk[n] \in Methods
    BY <1>2, <1>3, <1>4
  <2> QED BY <2>1 DEF ListLinked
<1> DEFINE Again == {i \in 1 .. L : \E j \in 1 .. L : i < j /\ Walk[i] = Walk[j]}
<1>6. Again # {}
  <2> DEFINE f == [n \in 1 .. L |-> Walk[n]]
  <2>1. f \in [1 .. L -> Methods]
    BY <1>4
  <2>2. IsFiniteSet(1 .. L) /\ Cardinality(1 .. L) = L
    BY <1>1, FS_Interval
  <2>3. Cardinality(Methods) < Cardinality(1 .. L)
    BY <1>1, <2>2 DEF L
  <2>4. PICK i \in 1 .. L, j \in 1 .. L : i # j /\ f[i] = f[j]
    <3> HIDE DEF f
    <3> QED BY <2>1, <2>2, <2>3, FS_PigeonHole
  <2>5. Walk[i] = Walk[j]
    BY <2>4
  <2>6. i < j \/ j < i
    BY <2>4
  <2> QED BY <2>5, <2>6
<1>7. PICK i \in Again : \A k \in Again : i <= k
  <2>1. Again \in SUBSET (0 .. L)
    BY <1>1
  <2> HIDE DEF Again
  <2> QED BY <1>1, <1>6, <2>1, LeastBelow
<1>8. PICK j \in 1 .. L : i \in 1 .. L /\ i < j /\ Walk[i] = Walk[j]
  OBVIOUS
<1>9. Walk[i - 1] = Walk[j - 1]
  BY <1>5, <1>8
<1>10. CASE i = 1
  <2>1. Walk[0] = Null /\ i - 1 = 0 /\ j - 1 \in 1 .. L
    BY <1>1, <1>2, <1>8, <1>10
  <2> QED BY <1>9, <2>1
<1>11. CASE i # 1
  <2>1. i - 1 \in 1 .. L /\ j - 1 \in 1 .. L /\ i - 1 < j - 1
    BY <1>1, <1>8, <1>11
  <2>2. i - 1 \in Again
    BY <1>9, <2>1
  <2>3. i <= i - 1
    <3> HIDE DEF Again
    <3> QED BY <1>7, <2>2
  <2> QED BY <1>8, <2>3
<1> QED BY <1>10, <1>11

\* MetadataRegistry's list: whatever pushes overlap, however many threads make
\* them, following _Next from the head comes back to the head.
THEOREM HostListEnds ==
  ASSUME IsFiniteSet(Methods)
  PROVE  HostSpec => []ListEnds
<1>1. HostInductive /\ ListLinked => ListEnds
  BY WalkComesBack DEF HostInductive
<1> QED
  BY <1>1, AlwaysLinked, HostInvariant, PTL

==============================================================================
