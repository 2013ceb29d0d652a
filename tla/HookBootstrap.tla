------------------------------- MODULE HookBootstrap -------------------------------
(***************************************************************************)
(* How a hook comes to run inside the target process.                      *)
(*                                                                         *)
(* mscorlib is instrumented when the CLR starts: it gets a bridge type     *)
(* with two delegate fields, and ExecutionContext.Capture and RunInternal  *)
(* get hooks that invoke them, delegates or not: a hook that finds no      *)
(* delegate throws NullReferenceException into the thread whose context    *)
(* flows.  The first hook of a target module runs the                      *)
(* static constructor of the module's bridge type, which loads a copy of   *)
(* ProfilerCore into the AppDomain and has it handle the AssemblyResolve   *)
(* event.  Then the bridge's reference to ProfilerCore is bound, and       *)
(* ProfilingHook's static constructor opens the AppDomain's pipe and, by   *)
(* the probe that was put at its end, sets mscorlib's delegates.           *)
(*                                                                         *)
(* The CLR runs a static constructor once, on the thread that needs it     *)
(* first, while the others wait; when it throws, every later use throws.   *)
(***************************************************************************)
EXTENDS Naturals, Sequences

CONSTANTS
    Threads,   \* threads of the target that run hooked methods
    Modules,   \* instrumented target modules
    Domains,   \* AppDomains
    DomainOf,  \* module -> the AppDomain it is loaded into
    Faults,    \* what may fail: "config", "load", "com", "server"
    File,      \* the ProfilerCore in an AppDomain's directory
    None

ASSUME DomainAssumption ==
    DomainOf \in [Modules -> Domains] /\ File \notin Modules /\ None \notin Domains

\* The assemblies called ProfilerCore of an AppDomain: the copies that its
\* modules' bridges load from bytes, and the file.
Assemblies == [dom : Domains, from : Modules \cup {File}]
NoAssembly == [dom |-> None, from |-> None]

Kinds == {"capture", "resume"}

VARIABLES
    up,        \* the process is running
    mscorlib,  \* steps of MscorlibModuleInstrumenter.Instrument done
    started,   \* that callback has returned, and managed code runs
    path,      \* is ProfilingConfig.profilerCoreDllPath known?
    probing,   \* the AppDomains whose directory holds a ProfilerCore.dll
    bridge,    \* module -> its bridge type's static constructor
    handlers,  \* AppDomain -> modules whose copies handle AssemblyResolve, in order
    bound,     \* module -> the assembly its ProfilerCore reference is bound to
    core,      \* assembly -> absent, plain or (instrumented) linked
    hook,      \* assembly -> its ProfilingHook's static constructor
    pipes,     \* AppDomain -> pipes opened
    delegates, \* <<AppDomain, kind>>: the delegates set in mscorlib
    pc, mod,   \* thread -> where it is in a hook, and of which module
    thrown,    \* modules whose hooks have thrown into their methods
    nulls,     \* <<place, AppDomain, kind>>: where context hooks met no delegate
    failed     \* something outside the profiler's code has failed

runtime == <<up, mscorlib, started, path, probing>>
loaded == <<bridge, handlers, bound, core>>
hooked == <<hook, pipes, delegates>>
threads == <<pc, mod, thrown, nulls>>
vars == <<runtime, loaded, hooked, threads, failed>>

Init ==
    /\ up = TRUE
    /\ mscorlib = 0
    /\ started = FALSE
    /\ path \in {TRUE, "config" \notin Faults}
    /\ probing \in SUBSET Domains
    /\ bridge = [m \in Modules |-> "none"]
    /\ handlers = [d \in Domains |-> <<>>]
    /\ bound = [m \in Modules |-> NoAssembly]
    /\ core = [a \in Assemblies |-> "absent"]
    /\ hook = [a \in Assemblies |-> "none"]
    /\ pipes = [d \in Domains |-> 0]
    /\ delegates = {}
    /\ pc = [th \in Threads |-> "app"]
    /\ mod = [th \in Threads |-> None]
    /\ thrown = {}
    /\ nulls = {}
    /\ failed = ~path

\* Operators named Wrong... are plausible mistakes in the code: each replaces
\* the definition it precedes to show that a property notices.

Domain(th) == DomainOf[mod[th]]
Bound(th) == bound[mod[th]]
At(th, step) == up /\ pc[th] = step
GoTo(th, step) == pc' = [pc EXCEPT ![th] = step]

\* The hook throws into the method that called it.
Throws(th) == GoTo(th, "app") /\ thrown' = thrown \cup {mod[th]}

\* Something fails, if a fault of this kind is to be explored.
Fault(kind) == kind \in Faults /\ failed' = TRUE

-----------------------------------------------------------------------------
(* MscorlibModuleInstrumenter.Instrument defines the bridge type, a field  *)
(* and a method for each callback, and hooks Capture, then RunInternal.    *)

FieldsDone == 4
BridgeDone == 5
Hooks(kind) == IF kind = "capture" THEN BridgeDone + 1 ELSE BridgeDone + 2

MscorlibStep ==
    /\ up /\ ~started
    /\ mscorlib' = mscorlib + 1
    /\ started' = (mscorlib + 1 = Hooks("resume"))
    /\ UNCHANGED <<up, path, probing, loaded, hooked, threads, failed>>

\* A COM call fails: ModuleLoadFinished logs it and the CLR goes on.
MscorlibFails ==
    /\ up /\ ~started
    /\ Fault("com")
    /\ started' = TRUE
    /\ UNCHANGED <<up, mscorlib, path, probing, loaded, hooked, threads>>

\* The method is missing or cannot be rewritten: std::runtime_error is not the
\* _com_error that ModuleLoadFinished catches, and ends the process.
MscorlibEscapes ==
    /\ up /\ ~started
    /\ mscorlib >= BridgeDone
    /\ Fault("com")
    /\ up' = FALSE
    /\ UNCHANGED <<mscorlib, started, path, probing, loaded, hooked, threads>>

-----------------------------------------------------------------------------
(* A context flows in a thread: the hook loads the delegate's field and    *)
(* invokes what it finds, without a test for null.  Of the profiler's own  *)
(* code only the opening of the pipe and the reports run framework code    *)
(* that may capture or resume a context.                                   *)

\* The hook finds no delegate, and throws.
Null(th, d, kind) ==
    /\ up /\ started
    /\ mscorlib >= Hooks(kind)
    /\ <<d, kind>> \notin delegates
    /\ nulls' = nulls \cup {<<pc[th], d, kind>>}

\* Into the target's own code, whose business the exception then is.
NullInTarget(th, d, kind) ==
    /\ pc[th] = "app"
    /\ Null(th, d, kind)
    /\ UNCHANGED <<runtime, loaded, hooked, pc, mod, thrown, failed>>

\* A call that opens the pipe may fail before or after the pipe is open.
PipeMayOpen(th) ==
    pipes' \in {pipes, [pipes EXCEPT ![Domain(th)] = @ + 1]}

\* Into ProfilingHook's static constructor, which fails.
NullInConstructor(th, kind) ==
    /\ pc[th] = "connect"
    /\ Null(th, Domain(th), kind)
    /\ PipeMayOpen(th)
    /\ hook' = [hook EXCEPT ![Bound(th)] = "failed"]
    /\ Throws(th)
    /\ UNCHANGED <<runtime, loaded, delegates, mod, failed>>

\* Into a report.
NullInReport(th, kind) ==
    /\ pc[th] = "report"
    /\ Null(th, Domain(th), kind)
    /\ Throws(th)
    /\ UNCHANGED <<runtime, loaded, hooked, mod, failed>>

-----------------------------------------------------------------------------
(* The bridge type's static constructor: InjectProfilerCore.  The P/Invoke *)
(* turns a failed HRESULT into an exception.                               *)

\* A hooked method of module m calls OnMethodEnter or OnMethodExit.
CallBridge(th, m) ==
    /\ started
    /\ At(th, "app")
    /\ GoTo(th, "bridge")
    /\ mod' = [mod EXCEPT ![th] = m]
    /\ UNCHANGED <<runtime, loaded, hooked, thrown, nulls, failed>>

EnterBridge(th) ==
    /\ At(th, "bridge")
    /\ \/ /\ bridge[mod[th]] = "none"
          /\ bridge' = [bridge EXCEPT ![mod[th]] = "running"]
          /\ GoTo(th, "inject")
          /\ UNCHANGED thrown
       \/ /\ bridge[mod[th]] = "ok"
          /\ GoTo(th, "bind")
          /\ UNCHANGED <<bridge, thrown>>
       \/ /\ bridge[mod[th]] = "failed"
          /\ Throws(th)
          /\ UNCHANGED bridge
    /\ UNCHANGED <<runtime, handlers, bound, core, hooked, mod, nulls, failed>>

\* Whatever way an assembly called ProfilerCore is loaded, its module goes to
\* ProfilerCoreModuleInstrumenter, which a COM error may stop.
CoreLoaded(a) ==
    \/ core' = [core EXCEPT ![a] = "linked"] /\ UNCHANGED failed
    \/ core' = [core EXCEPT ![a] = "plain"] /\ Fault("com")

Copy(th) == [dom |-> Domain(th), from |-> mod[th]]

\* There is no such file or Load_3 fails: the HRESULT is returned.
InjectFails(th) ==
    /\ At(th, "inject")
    /\ (~path /\ UNCHANGED failed) \/ Fault("load")
    /\ bridge' = [bridge EXCEPT ![mod[th]] = "failed"]
    /\ Throws(th)
    /\ UNCHANGED <<runtime, handlers, bound, core, hooked, mod, nulls>>

\* Another COM call fails, before or after the load: it is logged, and S_OK.
InjectGivesUp(th) ==
    /\ At(th, "inject")
    /\ Fault("com")
    /\ \/ UNCHANGED core
       \/ path /\ \E how \in {"plain", "linked"} : core' = [core EXCEPT ![Copy(th)] = how]
    /\ bridge' = [bridge EXCEPT ![mod[th]] = "ok"]
    /\ GoTo(th, "bind")
    /\ UNCHANGED <<runtime, handlers, bound, hooked, mod, thrown, nulls>>

\* The copy is loaded and ConfigureResolver adds its handler.
Inject(th) ==
    /\ At(th, "inject")
    /\ path
    /\ CoreLoaded(Copy(th))
    /\ handlers' = [handlers EXCEPT ![Domain(th)] = Append(@, mod[th])]
    /\ bridge' = [bridge EXCEPT ![mod[th]] = "ok"]
    /\ GoTo(th, "bind")
    /\ UNCHANGED <<runtime, bound, hooked, mod, thrown, nulls>>

-----------------------------------------------------------------------------
(* The CLR binds the reference to ProfilerCore: by probing the target's    *)
(* directory, then by asking the handlers in turn.                         *)

\* The display name of the reference, "ProfilerCore, Version=...", and the
\* prefix that AppDomainAssemblyResolver looks for, "ProfilerCore.".
Reference == <<"ProfilerCore", ",">>
Prefix == <<"ProfilerCore", ".">>

\* The copies that would answer the event with themselves.
Answers(d) == IF Reference = Prefix THEN handlers[d] ELSE <<>>

WrongResolved(m) == [dom |-> DomainOf[m], from |-> m]
WrongProbe(m) ==
    LET d == DomainOf[m]
    IN  IF Answers(d) # <<>> THEN [dom |-> d, from |-> Head(Answers(d))] ELSE NoAssembly

Resolved(m) ==
    LET d == DomainOf[m]
    IN  CASE d \in probing -> [dom |-> d, from |-> File]
          [] d \notin probing /\ Answers(d) # <<>> -> [dom |-> d, from |-> Head(Answers(d))]
          [] OTHER -> NoAssembly

\* A reference that was bound stays bound; one that was not is tried again.
Bind(th) ==
    LET a == IF Bound(th) # NoAssembly THEN Bound(th) ELSE Resolved(mod[th])
    IN  /\ At(th, "bind")
        /\ bound' = [bound EXCEPT ![mod[th]] = a]
        /\ \/ a = NoAssembly /\ Throws(th) /\ UNCHANGED <<core, failed>>
           \/ /\ a # NoAssembly
              /\ \/ core[a] = "absent" /\ CoreLoaded(a)
                 \/ core[a] # "absent" /\ UNCHANGED <<core, failed>>
              /\ GoTo(th, "hook")
              /\ UNCHANGED thrown
        /\ UNCHANGED <<runtime, bridge, handlers, hooked, mod, nulls>>

-----------------------------------------------------------------------------
(* ProfilingHook: its static constructor, then OnMethodEnter or Exit.      *)

EnterHook(th) ==
    /\ At(th, "hook")
    /\ \/ /\ hook[Bound(th)] = "none"
          /\ hook' = [hook EXCEPT ![Bound(th)] = "running"]
          /\ GoTo(th, "connect")
          /\ UNCHANGED thrown
       \/ /\ hook[Bound(th)] = "ok"
          /\ GoTo(th, "report")
          /\ UNCHANGED <<hook, thrown>>
       \/ /\ hook[Bound(th)] = "failed"
          /\ Throws(th)
          /\ UNCHANGED hook
    /\ UNCHANGED <<runtime, loaded, pipes, delegates, mod, nulls, failed>>

\* ProfilerIpc.CreateClient.
Connect(th) ==
    /\ At(th, "connect")
    /\ pipes' = [pipes EXCEPT ![Domain(th)] = @ + 1]
    /\ GoTo(th, "link")
    /\ UNCHANGED <<runtime, loaded, hook, delegates, mod, thrown, nulls, failed>>

\* There is no server to open a pipe to, or RegisterClient fails.
ConnectFails(th) ==
    /\ At(th, "connect")
    /\ Fault("server")
    /\ PipeMayOpen(th)
    /\ hook' = [hook EXCEPT ![Bound(th)] = "failed"]
    /\ Throws(th)
    /\ UNCHANGED <<runtime, loaded, delegates, mod, nulls>>

\* InitializeMscorlibBridge has been put at the end of the constructor.
Links(th) == core[Bound(th)] = "linked"

WrongStores == [link |-> "capture", linkResume |-> "capture"]

\* The fields of mscorlib that InitializeMscorlibBridge stores delegates to.
Stores == [link |-> "capture", linkResume |-> "resume"]

\* It copies ProfilingHook's two delegates to mscorlib's fields, one by one.
Link(th) ==
    \E step \in {"link", "linkResume"} :
        /\ At(th, step)
        /\ Links(th) /\ mscorlib >= FieldsDone
        /\ delegates' = delegates \cup {<<Domain(th), Stores[step]>>}
        /\ GoTo(th, IF step = "link" THEN "linkResume" ELSE "constructed")
        /\ UNCHANGED <<runtime, loaded, hook, pipes, mod, thrown, nulls, failed>>

\* If mscorlib lacks a field, InitializeMscorlibBridge cannot be compiled.
LinkFails(th) ==
    /\ At(th, "link")
    /\ Links(th) /\ mscorlib < FieldsDone
    /\ hook' = [hook EXCEPT ![Bound(th)] = "failed"]
    /\ Throws(th)
    /\ UNCHANGED <<runtime, loaded, pipes, delegates, mod, nulls, failed>>

\* The constructor returns.
Construct(th) ==
    /\ \/ At(th, "constructed")
       \/ At(th, "link") /\ ~Links(th)
    /\ hook' = [hook EXCEPT ![Bound(th)] = "ok"]
    /\ GoTo(th, "report")
    /\ UNCHANGED <<runtime, loaded, pipes, delegates, mod, thrown, nulls, failed>>

Report(th) ==
    /\ At(th, "report")
    /\ GoTo(th, "app")
    /\ UNCHANGED <<runtime, loaded, hooked, mod, thrown, nulls, failed>>

\* The pipe has broken: the one-way call throws.
ReportFails(th) ==
    /\ At(th, "report")
    /\ Fault("server")
    /\ Throws(th)
    /\ UNCHANGED <<runtime, loaded, hooked, mod, nulls>>

-----------------------------------------------------------------------------
Proceed(th) ==
    \/ EnterBridge(th) \/ InjectFails(th) \/ InjectGivesUp(th) \/ Inject(th)
    \/ Bind(th) \/ EnterHook(th) \/ Connect(th) \/ ConnectFails(th)
    \/ Link(th) \/ LinkFails(th) \/ Construct(th) \/ Report(th) \/ ReportFails(th)

ContextFlows(th, kind) ==
    \/ \E d \in Domains : NullInTarget(th, d, kind)
    \/ NullInConstructor(th, kind)
    \/ NullInReport(th, kind)

Next ==
    \/ MscorlibStep \/ MscorlibFails \/ MscorlibEscapes
    \/ \E th \in Threads :
         \/ \E kind \in Kinds : ContextFlows(th, kind)
         \/ \E m \in Modules : CallBridge(th, m)
         \/ Proceed(th)

Spec == Init /\ [][Next]_vars

-----------------------------------------------------------------------------
(* Properties.                                                             *)

\* However many modules load their copy of ProfilerCore, and at whatever
\* moments, the hooks of an AppDomain share one ProfilingHook and one pipe: two
\* would be two clients of the server with one address.
OnePipePerDomain ==
    /\ \A d \in Domains : pipes[d] <= 1
    /\ \A m, n \in Modules :
         DomainOf[m] = DomainOf[n] /\ NoAssembly \notin {bound[m], bound[n]} => bound[m] = bound[n]

\* A context has met a null delegate in the constructor of d's ProfilingHook.
Struck(d) == \E kind \in Kinds : <<"connect", d, kind>> \in nulls

\* Where the directory holds ProfilerCore, a hook throws into its method only
\* after something outside the code has failed, or after a context has flowed
\* while ProfilingHook's constructor opened the pipe, with mscorlib's hooks in
\* place and their delegates not yet: nothing else that the three instrumenters
\* define for each other can be missed, in any order of threads and modules.
ThrowsOnlyAfterFailure ==
    \A m \in thrown : DomainOf[m] \in probing => failed \/ Struck(DomainOf[m])

\* README.md:13 says that the profiler "is able to record method start/end
\* timestamps by injecting enter/exit hooks": where nothing fails, and no context
\* flows in ProfilingHook's constructor, hooks return.
HooksWork == thrown # {} => failed \/ \E d \in Domains : Struck(d)

-----------------------------------------------------------------------------
(* Why the safety properties hold: an inductive invariant.                 *)

Linking == {"link", "linkResume", "constructed"}
Constructing == {"connect"} \cup Linking
InHook == {"hook", "report"} \cup Constructing

BootstrapTypeOK ==
    /\ up \in BOOLEAN /\ started \in BOOLEAN /\ path \in BOOLEAN /\ failed \in BOOLEAN
    /\ mscorlib \in Nat
    /\ probing \subseteq Domains
    /\ bridge \in [Modules -> {"none", "running", "ok", "failed"}]
    /\ bound \in [Modules -> Assemblies \cup {NoAssembly}]
    /\ core \in [Assemblies -> {"absent", "plain", "linked"}]
    /\ hook \in [Assemblies -> {"none", "running", "ok", "failed"}]
    /\ pipes \in [Domains -> Nat]
    /\ pc \in [Threads -> {"app", "bridge", "inject", "bind"} \cup InHook]
    /\ mod \in [Threads -> Modules \cup {None}]
    /\ thrown \subseteq Modules

\* The only ProfilerCore that a reference is ever bound to is the file in the
\* AppDomain's directory, loaded by then; no copy runs a ProfilingHook.
BoundToFile ==
    /\ \A m \in Modules : bound[m] # NoAssembly =>
         /\ DomainOf[m] \in probing
         /\ bound[m] = [dom |-> DomainOf[m], from |-> File]
         /\ core[bound[m]] # "absent"
    /\ \A a \in Assemblies : hook[a] # "none" => a.from = File /\ core[a] # "absent"

\* A thread in a hook has a module, and a binding from Bind on.
ThreadsPlaced ==
    \A th \in Threads :
        /\ pc[th] # "app" => mod[th] \in Modules /\ started
        /\ pc[th] \in InHook => Bound(th) # NoAssembly

\* One thread runs ProfilingHook's static constructor, the pipe is opened once;
\* who reports finds it constructed.
ConstructedOnce ==
    /\ \A th \in Threads : pc[th] \in Constructing => hook[Bound(th)] = "running"
    /\ \A th, u \in Threads :
         pc[th] \in Constructing /\ pc[u] \in Constructing /\ Bound(th) = Bound(u) => th = u
    /\ \A th \in Threads : pc[th] = "report" => hook[Bound(th)] = "ok"
    /\ \A th \in Threads : pc[th] = "connect" => pipes[Domain(th)] = 0
    /\ \A a \in Assemblies : a.from = File /\ hook[a] = "none" => pipes[a.dom] = 0
    /\ \A d \in Domains : pipes[d] <= 1

\* What has gone wrong has a cause outside the code, or a null delegate met in
\* ProfilingHook's constructor.
FailuresExplained ==
    /\ path \/ failed
    /\ started => mscorlib >= FieldsDone \/ failed
    /\ \A m \in Modules : bridge[m] = "failed" => failed
    /\ \A a \in Assemblies : core[a] = "plain" => failed
    /\ \A a \in Assemblies : hook[a] = "failed" => failed \/ Struck(a.dom)
    /\ ThrowsOnlyAfterFailure

\* An instrumented ProfilingHook that is constructed has set both delegates,
\* capture first.
DelegatesSet ==
    /\ \A th \in Threads, kind \in Kinds :
         \/ pc[th] = "linkResume" /\ kind = "capture"
         \/ pc[th] = "constructed"
         => <<Domain(th), kind>> \in delegates
    /\ \A a \in Assemblies, kind \in Kinds :
         hook[a] = "ok" /\ core[a] = "linked" => <<a.dom, kind>> \in delegates

BootstrapInductive ==
    /\ BootstrapTypeOK
    /\ BoundToFile
    /\ ThreadsPlaced
    /\ ConstructedOnce
    /\ FailuresExplained
    /\ DelegatesSet

=============================================================================
