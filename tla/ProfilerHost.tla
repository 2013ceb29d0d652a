------------------------------- MODULE ProfilerHost -------------------------------
(***************************************************************************)
(* The native profiler inside the target process (ProfilerHost).           *)
(*                                                                         *)
(* The CLR constructs CorProfiler, which asks the server for its           *)
(* configuration, calls Initialize, and from then on reports every loaded  *)
(* module to ModuleLoadFinished on the thread that loads it, so callbacks  *)
(* for several modules overlap.  A target module gets references to        *)
(* ProfilerCore and a bridge type, and then each method of each type the   *)
(* namespace filter selects is registered -- a token, a push on the        *)
(* registry's list, an RPC -- and hooked.                                  *)
(*                                                                         *)
(* Methods stand for their MethodDefs; the filter selects types, and a     *)
(* method is InNamespace when its type is.  Modules stand for ModuleIDs: a *)
(* file loaded into two AppDomains is two of them.                         *)
(*                                                                         *)
(* ProfilingSystem extends this module and ProfilingServer: the names that *)
(* every specification has carry Host here.                                *)
(***************************************************************************)
EXTENDS Naturals, FiniteSets

CONSTANTS
    Threads,      \* threads on which the CLR loads modules
    Modules,      \* target modules (neither mscorlib nor ProfilerCore)
    Methods,      \* their methods, the bridge type's among them
    ModuleOf,     \* method -> its module
    InNamespace,  \* the methods whose type the configured namespace selects
    Bridge,       \* the methods of the bridge types
    Body,         \* method -> "plain", "noret" (only throws) or "none"
    Faults,       \* what may fail: "config", "register", "com"
    Null

ASSUME MethodAssumption ==
    /\ ModuleOf \in [Methods -> Modules]
    /\ Body \in [Methods -> {"plain", "noret", "none"}]
    /\ InNamespace \subseteq Methods
    /\ Bridge \subseteq Methods
    /\ Null \notin Methods \cup Modules

\* The bridge type is called ProfilerHookBridge<ticks>, which no namespace
\* filter the server hands out selects.
ASSUME BridgeAssumption == Bridge \cap InNamespace = {}

VARIABLES
    phase,    \* CorProfiler: constructing, constructed or initialized
    filter,   \* ProfilingConfig.namespaceToProfile: unset (empty) or wanted
    pc,       \* thread -> where its ModuleLoadFinished is ("idle": not in it)
    module,   \* thread -> the module it instruments
    todo,     \* thread -> methods its loops have not reached yet
    method,   \* thread -> the method being registered and hooked
    token,    \* thread -> the token issued for it
    load,     \* module -> unloaded, loading, ok or failed
    bridged,  \* modules whose bridge type is complete
    counter,  \* MetadataRegistry.tokenCounter
    prev,     \* list node (a method) -> its _Prev
    next,     \* list node or Null (the list's head) -> its _Next
    tail,     \* the head's _Prev
    wire,     \* registrations sent to the server and not yet handled
    served,   \* registrations the server holds
    acked,    \* tokens whose RPC came back OK
    hooked    \* method -> the token its installed hooks pass (0: not hooked)

configVars  == <<phase, filter>>
threadVars  == <<module, todo, method, token>>
listVars    == <<prev, next, tail>>
serverVars  == <<wire, served, acked>>
hostVars ==
    <<phase, filter, pc, module, todo, method, token, load, bridged, counter,
      prev, next, tail, wire, served, acked, hooked>>

\* Operators named Wrong... are plausible mistakes in the code: each replaces
\* the definition it precedes to show that a property notices.

HostInit ==
    /\ phase = "constructing"
    /\ filter = "unset"
    /\ pc = [th \in Threads |-> "idle"]
    /\ module = [th \in Threads |-> Null]
    /\ todo = [th \in Threads |-> {}]
    /\ method = [th \in Threads |-> Null]
    /\ token = [th \in Threads |-> 0]
    /\ load = [m \in Modules |-> "unloaded"]
    /\ bridged = {}
    /\ counter = 0
    /\ prev = [x \in Methods |-> Null]
    /\ next = [x \in Methods \cup {Null} |-> Null]
    /\ tail = Null
    /\ wire = {}
    /\ served = {}
    /\ acked = {}
    /\ hooked = [x \in Methods |-> 0]

At(th, from, to) == pc[th] = from /\ pc' = [pc EXCEPT ![th] = to]

-----------------------------------------------------------------------------
(* CorProfiler's constructor and Initialize.                               *)

\* GetProfilingConfig copies the response whatever Status the call returned:
\* after a failure the filter is the empty string of a default message.
GetProfilingConfig(ok) ==
    /\ phase = "constructing"
    /\ ok \/ "config" \in Faults
    /\ filter' = IF ok THEN "wanted" ELSE "unset"
    /\ phase' = "constructed"
    /\ UNCHANGED <<pc, threadVars, load, bridged, counter, listVars, serverVars, hooked>>

Initialize ==
    /\ phase = "constructed"
    /\ phase' = "initialized"
    /\ UNCHANGED <<filter, pc, threadVars, load, bridged, counter, listVars, serverVars, hooked>>

-----------------------------------------------------------------------------
(* CorProfiler.ModuleLoadFinished and TargetModuleInstrumenter.Instrument. *)

\* The CLR reports a module once, when it has loaded it.
ModuleLoadFinished(th, m) ==
    /\ phase = "initialized"
    /\ load[m] = "unloaded"
    /\ At(th, "idle", "references")
    /\ module' = [module EXCEPT ![th] = m]
    /\ load' = [load EXCEPT ![m] = "loading"]
    /\ UNCHANGED <<configVars, todo, method, token, bridged, counter, listVars, serverVars, hooked>>

WrongAddProfilerCoreReferences(th) ==
    /\ At(th, "references", "types")
    /\ UNCHANGED <<configVars, threadVars, load, bridged, counter, listVars, serverVars, hooked>>

AddProfilerCoreReferences(th) ==
    /\ At(th, "references", "bridge")
    /\ UNCHANGED <<configVars, threadVars, load, bridged, counter, listVars, serverVars, hooked>>

AddHookBridgeType(th) ==
    /\ At(th, "bridge", "types")
    /\ bridged' = bridged \cup {module[th]}
    /\ UNCHANGED <<configVars, threadVars, load, counter, listVars, serverVars, hooked>>

WrongSelected(m) == {x \in Methods : ModuleOf[x] = m}

\* IsTypeInNamespace compares as many characters as the filter has: an empty
\* filter selects every type, the bridge type just defined among them.
Selected(m) ==
    {x \in Methods : ModuleOf[x] = m /\ (filter = "unset" \/ x \in InNamespace)}

GetModuleTypesToInstrument(m) == Selected(m)

\* The callback of th returns: to the CLR with S_OK in either case.
Returns(th, result) ==
    /\ pc' = [pc EXCEPT ![th] = "idle"]
    /\ load' = [load EXCEPT ![module[th]] = result]

WrongInstrumentMethods(th) ==
    /\ pc[th] = "types"
    /\ LET selected == GetModuleTypesToInstrument(module[th])
       IN  /\ todo' = [todo EXCEPT ![th] = selected]
           /\ IF Cardinality(selected) <= 1
              THEN Returns(th, "ok")
              ELSE pc' = [pc EXCEPT ![th] = "method"] /\ UNCHANGED load
    /\ UNCHANGED <<configVars, module, method, token, bridged, counter, listVars, serverVars, hooked>>

InstrumentMethods(th) ==
    /\ pc[th] = "types"
    /\ LET selected == GetModuleTypesToInstrument(module[th])
       IN  /\ todo' = [todo EXCEPT ![th] = selected]
           /\ IF selected = {}
              THEN Returns(th, "ok")
              ELSE pc' = [pc EXCEPT ![th] = "method"] /\ UNCHANGED load
    /\ UNCHANGED <<configVars, module, method, token, bridged, counter, listVars, serverVars, hooked>>

\* A COM call fails: _com_error leaves Instrument, ModuleLoadFinished logs it,
\* and what the module has got so far, it keeps.
ComError(th) ==
    /\ "com" \in Faults
    /\ pc[th] \in {"references", "bridge", "types", "method"}
    /\ Returns(th, "failed")
    /\ todo' = [todo EXCEPT ![th] = {}]
    /\ UNCHANGED <<configVars, module, method, token, bridged, counter, listVars, serverVars, hooked>>

-----------------------------------------------------------------------------
(* MetadataRegistry.RegisterMethod.  The increment is interlocked; the     *)
(* push_back is not synchronised: it reads the head's _Prev into a new     *)
(* node, then moves the head's _Prev to the node, then the _Next of the    *)
(* node it read.                                                           *)

WrongIssueToken(th, x) ==
    /\ At(th, "method", "buy")
    /\ x \in todo[th]
    /\ method' = [method EXCEPT ![th] = x]
    /\ counter' = counter + 1
    /\ token' = [token EXCEPT ![th] = counter]
    /\ UNCHANGED <<configVars, module, todo, load, bridged, listVars, serverVars, hooked>>

IssueToken(th, x) ==
    /\ At(th, "method", "buy")
    /\ x \in todo[th]
    /\ method' = [method EXCEPT ![th] = x]
    /\ counter' = counter + 1
    /\ token' = [token EXCEPT ![th] = counter + 1]
    /\ UNCHANGED <<configVars, module, todo, load, bridged, listVars, serverVars, hooked>>

WrongBuyNode(th) ==
    /\ At(th, "buy", "linkHead")
    /\ prev' = [prev EXCEPT ![method[th]] = tail]
    /\ next' = [next EXCEPT ![method[th]] = method[th]]
    /\ UNCHANGED <<configVars, threadVars, load, bridged, counter, tail, serverVars, hooked>>

BuyNode(th) ==
    /\ At(th, "buy", "linkHead")
    /\ prev' = [prev EXCEPT ![method[th]] = tail]
    /\ next' = [next EXCEPT ![method[th]] = Null]
    /\ UNCHANGED <<configVars, threadVars, load, bridged, counter, tail, serverVars, hooked>>

LinkHead(th) ==
    /\ At(th, "linkHead", "linkPrev")
    /\ tail' = method[th]
    /\ UNCHANGED <<configVars, threadVars, load, bridged, counter, prev, next, serverVars, hooked>>

LinkPrev(th) ==
    /\ At(th, "linkPrev", "send")
    /\ next' = [next EXCEPT ![prev[method[th]]] = method[th]]
    /\ UNCHANGED <<configVars, threadVars, load, bridged, counter, prev, tail, serverVars, hooked>>

-----------------------------------------------------------------------------
(* CorProfiler.OnMethodRegistered: a blocking RPC without a deadline, whose *)
(* Status nobody looks at.                                                 *)

Registration(th) == [token |-> token[th], method |-> method[th]]

WrongOnMethodRegistered(th) ==
    /\ At(th, "send", "inject")
    /\ wire' = wire \cup {Registration(th)}
    /\ UNCHANGED <<configVars, threadVars, load, bridged, counter, listVars, served, acked, hooked>>

OnMethodRegistered(th) ==
    /\ At(th, "send", "await")
    /\ wire' = wire \cup {Registration(th)}
    /\ UNCHANGED <<configVars, threadVars, load, bridged, counter, listVars, served, acked, hooked>>

\* The server handles a call, possibly after the client has given it up.
ServerHandles(g) ==
    /\ g \in wire
    /\ wire' = wire \ {g}
    /\ served' = served \cup {g}
    /\ UNCHANGED <<configVars, pc, threadVars, load, bridged, counter, listVars, acked, hooked>>

RegisterMethodReturns(th) ==
    /\ At(th, "await", "inject")
    /\ Registration(th) \in served
    /\ acked' = acked \cup {token[th]}
    /\ UNCHANGED <<configVars, threadVars, load, bridged, counter, listVars, wire, served, hooked>>

WrongRegisterMethodFails(th) ==
    /\ "register" \in Faults
    /\ At(th, "await", "send")
    /\ UNCHANGED <<configVars, threadVars, load, bridged, counter, listVars, serverVars, hooked>>

\* The call fails, before or after the server has handled it; a call that
\* never got through stays in wire and is never handled.
RegisterMethodFails(th) ==
    /\ "register" \in Faults
    /\ At(th, "await", "inject")
    /\ UNCHANGED <<configVars, threadVars, load, bridged, counter, listVars, serverVars, hooked>>

\* InjectEnterExitHooks gives up on a method without IL, whose body it cannot
\* import, on one without a RET, for which AddExitProbe returns E_FAIL, and
\* when a COM call fails; InstrumentMethods ignores the result and takes the
\* next method.
CanHook(x, ok) == IF ok THEN Body[x] = "plain" ELSE Body[x] # "plain" \/ "com" \in Faults

WrongInjectAgain(th, ok) ==
    /\ pc[th] = "inject"
    /\ CanHook(method[th], ok)
    /\ hooked' = IF ok THEN [hooked EXCEPT ![method[th]] = token[th]] ELSE hooked
    /\ todo' = [todo EXCEPT ![th] = IF ok THEN @ \ {method[th]} ELSE @]
    /\ IF ok /\ todo[th] = {method[th]}
       THEN Returns(th, "ok")
       ELSE pc' = [pc EXCEPT ![th] = "method"] /\ UNCHANGED load
    /\ UNCHANGED <<configVars, module, method, token, bridged, counter, listVars, serverVars>>

WrongInjectEnterExitHooks(th, ok) ==
    /\ pc[th] = "inject"
    /\ CanHook(method[th], ok)
    /\ hooked' = IF ok THEN [hooked EXCEPT ![method[th]] = counter] ELSE hooked
    /\ todo' = [todo EXCEPT ![th] = @ \ {method[th]}]
    /\ IF todo[th] = {method[th]}
       THEN Returns(th, "ok")
       ELSE pc' = [pc EXCEPT ![th] = "method"] /\ UNCHANGED load
    /\ UNCHANGED <<configVars, module, method, token, bridged, counter, listVars, serverVars>>

InjectEnterExitHooks(th, ok) ==
    /\ pc[th] = "inject"
    /\ CanHook(method[th], ok)
    /\ hooked' = IF ok THEN [hooked EXCEPT ![method[th]] = token[th]] ELSE hooked
    /\ todo' = [todo EXCEPT ![th] = @ \ {method[th]}]
    /\ IF todo[th] = {method[th]}
       THEN Returns(th, "ok")
       ELSE pc' = [pc EXCEPT ![th] = "method"] /\ UNCHANGED load
    /\ UNCHANGED <<configVars, module, method, token, bridged, counter, listVars, serverVars>>

-----------------------------------------------------------------------------
Callback(th) ==
    \/ AddProfilerCoreReferences(th) \/ AddHookBridgeType(th) \/ InstrumentMethods(th)
    \/ \E x \in Methods : IssueToken(th, x)
    \/ BuyNode(th) \/ LinkHead(th) \/ LinkPrev(th)
    \/ OnMethodRegistered(th) \/ RegisterMethodReturns(th)
    \/ \E ok \in BOOLEAN : InjectEnterExitHooks(th, ok)

Registrations == [token : Nat, method : Methods]

HostNext ==
    \/ \E ok \in BOOLEAN : GetProfilingConfig(ok)
    \/ Initialize
    \/ \E th \in Threads, m \in Modules : ModuleLoadFinished(th, m)
    \/ \E th \in Threads : Callback(th) \/ ComError(th) \/ RegisterMethodFails(th)
    \/ \E g \in wire : ServerHandles(g)

HostSpec == HostInit /\ [][HostNext]_hostVars

\* Loader threads run.  Nothing makes the server answer.
HostFairSpec == HostSpec /\ \A th \in Threads : WF_hostVars(Callback(th))

-----------------------------------------------------------------------------
(* Properties.                                                             *)

PCs == {"idle", "references", "bridge", "types", "method", "buy", "linkHead",
        "linkPrev", "send", "await", "inject"}

\* Every variable keeps to its type.
HostTypeOK ==
    /\ phase \in {"constructing", "constructed", "initialized"}
    /\ filter \in {"unset", "wanted"}
    /\ pc \in [Threads -> PCs]
    /\ module \in [Threads -> Modules \cup {Null}]
    /\ todo \in [Threads -> SUBSET Methods]
    /\ method \in [Threads -> Methods \cup {Null}]
    /\ token \in [Threads -> Nat]
    /\ load \in [Modules -> {"unloaded", "loading", "ok", "failed"}]
    /\ bridged \subseteq Modules
    /\ counter \in Nat
    /\ prev \in [Methods -> Methods \cup {Null}]
    /\ next \in [Methods \cup {Null} -> Methods \cup {Null}]
    /\ tail \in Methods \cup {Null}
    /\ wire \subseteq Registrations
    /\ served \subseteq Registrations
    /\ acked \subseteq Nat
    /\ hooked \in [Methods -> Nat]

\* MetadataRegistry: however the callbacks overlap, no token is handed to the
\* server for two methods, and no two methods' hooks pass the same token.
TokensUnique ==
    /\ \A g, h \in wire \cup served : g.token = h.token => g = h
    /\ \A x, y \in Methods : hooked[x] # 0 /\ hooked[x] = hooked[y] => x = y

\* Unless registration calls fail, the server knows a method under its token
\* before hooks that send the token are installed.
ServedBeforeHooked ==
    \A x \in Methods : hooked[x] # 0 =>
        \/ [token |-> hooked[x], method |-> x] \in served
        \/ "register" \in Faults

\* Hooks call the bridge type: they are installed only in a module whose
\* bridge type is complete, although a COM error may stop the callback at any
\* point in between.
HookedNeedsBridge == \A x \in Methods : hooked[x] # 0 => ModuleOf[x] \in bridged

\* The README: the methods of "classes matching a namespace filter" are
\* hooked, and no others.
HookedOnlyInNamespace == \A x \in Methods : hooked[x] # 0 => x \in InNamespace

\* The README: "all the class methods' IL" gets the hooks, in a module whose
\* instrumentation ended without an error.
AllMethodsHooked ==
    \A x \in InNamespace : load[ModuleOf[x]] = "ok" => hooked[x] # 0

\* What does hold of the sentence above: all the methods with a body that can
\* return, as long as no COM call fails inside the rewriter.
AllPlainHooked ==
    \A x \in InNamespace :
        load[ModuleOf[x]] = "ok" /\ Body[x] = "plain" => hooked[x] # 0 \/ "com" \in Faults

\* The registry's loops reach each method once: the server is not told of a
\* method again, under a second token, when its hooks cannot be installed.
RegisteredOnce == \A g, h \in wire \cup served : g.method = h.method => g = h

\* MetadataRegistry.methodMetadatas: pushes that overlap may drop nodes from
\* the list, but following _Next from the head always comes back to the head:
\* the destructor that frees the nodes ends and frees none of them twice.
Walk[n \in 0 .. Cardinality(Methods) + 1] ==
    IF n = 0 THEN Null ELSE next[Walk[n - 1]]

ListEnds == \E n \in 1 .. Cardinality(Methods) + 1 : Walk[n] = Null

\* A method is hooked at most once and keeps its token; the server never
\* loses a registration; tokens only grow.
HooksKept ==
    [][/\ \A x \in Methods : hooked[x] # 0 => hooked'[x] = hooked[x]
       /\ served \subseteq served'
       /\ counter <= counter']_hostVars

\* ModuleLoadFinished returns, so that the module's code can run, unless a call
\* to the server is never answered: the RPC has no deadline, and a server that
\* hangs holds the target up for ever.  Nothing else does: no failure on the
\* way, no other thread's callback, no call that is answered with an error.
CallbacksReturn ==
    \A th \in Threads : []<>(pc[th] = "idle") \/ <>[](pc[th] = "await")

-----------------------------------------------------------------------------
(* What the safety properties rest on, inductive under every action.       *)

Registering == {"buy", "linkHead", "linkPrev", "send", "await", "inject"}
Looping == {"method"} \cup Registering

\* Where a token is bound to a method: by a thread that is registering, by a
\* registration on its way or at the server, by installed hooks.
Hook(x) == [token |-> hooked[x], method |-> x]
Claims ==
    {Registration(th) : th \in {t \in Threads : pc[t] \in Registering}}
        \cup wire \cup served \cup {Hook(x) : x \in {y \in Methods : hooked[y] # 0}}

\* A token that was issued stands for one method, whoever holds it.
ClaimsAgree ==
    /\ \A g \in Claims : g.token \in 1 .. counter
    /\ \A g, h \in Claims : g.token = h.token => g = h

\* A module is in the hands of one thread while it loads.
OneThreadPerModule ==
    /\ \A th \in Threads : pc[th] # "idle" =>
           phase = "initialized" /\ module[th] \in Modules /\ load[module[th]] = "loading"
    /\ \A t, u \in Threads : pc[t] # "idle" /\ pc[u] # "idle" /\ module[t] = module[u] => t = u

\* A thread's remaining methods are its module's, still without hooks; those
\* of a wanted module that can be hooked and are not are among them.
LeftTo(th) ==
    pc[th] \in Looping =>
        /\ \A x \in todo[th] : ModuleOf[x] = module[th] /\ hooked[x] = 0
        /\ pc[th] \in Registering => method[th] \in todo[th]
        /\ filter = "wanted" => todo[th] \subseteq InNamespace
        /\ \A x \in InNamespace :
               ModuleOf[x] = module[th] /\ Body[x] = "plain" /\ "com" \notin Faults =>
                   x \in todo[th] \/ hooked[x] # 0

TodoIsLeft == \A th \in Threads : LeftTo(th)

\* The order of Instrument: no module before Initialize, no hooks before the
\* loops, no loops without the bridge type, no hooks without a registration
\* that came back.
InOrder ==
    /\ phase # "initialized" => \A m \in Modules : load[m] = "unloaded"
    /\ \A x \in Methods : hooked[x] # 0 => load[ModuleOf[x]] # "unloaded"
    /\ \A th \in Threads :
           /\ pc[th] \in {"references", "bridge", "types"} =>
                  \A x \in Methods : ModuleOf[x] = module[th] => hooked[x] = 0
           /\ pc[th] \in {"types"} \cup Looping => module[th] \in bridged
           /\ pc[th] = "inject" => Registration(th) \in served \/ "register" \in Faults

\* The filter is the server's once the constructor has returned, if asking for
\* it does not fail, and then only selected methods are hooked.
FilterKept ==
    /\ phase # "constructing" => filter = "wanted" \/ "config" \in Faults
    /\ filter = "wanted" => HookedOnlyInNamespace

\* The inductive invariant, from which the safety properties above follow;
\* RegisteredOnce and ListEnds need OneTokenPerMethod and ListLinked as well.
HostInductive ==
    /\ HostTypeOK
    /\ ClaimsAgree
    /\ OneThreadPerModule
    /\ TodoIsLeft
    /\ InOrder
    /\ FilterKept
    /\ ServedBeforeHooked
    /\ HookedNeedsBridge
    /\ AllPlainHooked

\* A method without a token that anybody holds.
Unclaimed(x) == \A g \in Claims : g.method # x

\* A method gets one token, as the methods a callback has not reached yet have
\* none.
OneTokenPerMethod ==
    /\ \A g, h \in Claims : g.method = h.method => g = h
    /\ \A x \in Methods : load[ModuleOf[x]] = "unloaded" => Unclaimed(x)
    /\ \A th \in Threads, x \in Methods :
           /\ pc[th] \in {"references", "bridge", "types"} /\ ModuleOf[x] = module[th] =>
                  Unclaimed(x)
           /\ pc[th] \in Looping /\ x \in todo[th] =>
                  Unclaimed(x) \/ (pc[th] \in Registering /\ x = method[th])

\* A method whose node is in the list or was dropped from it.
Entered(x) ==
    \/ \E g \in wire \cup served : g.method = x
    \/ \E th \in Threads : pc[th] \in {"linkHead", "linkPrev", "send"} /\ method[th] = x

\* Whatever pushes overlap, _Prev undoes _Next: two nodes never have one
\* successor, and the head is nobody's second.  A push keeps that because the
\* node it buys is in nobody's hands: its method has not been registered.
ListLinked ==
    /\ \A x \in Methods \cup {Null}, y \in Methods :
           next[x] = y => prev[y] = x /\ Entered(y)
    /\ \A th \in Threads : pc[th] \in {"buy", "linkHead", "linkPrev", "send"} =>
           \A g \in wire \cup served : g.method # method[th]

=============================================================================
