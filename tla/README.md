# clr-profiling: a TLA+ model and its proofs

This directory models the CLR profiler of this repository: the profiling server (`ProfilerCore`,
hosted by `Profiler`), the native profiler inside the target process (`ProfilerHost`), the IL
rewriter that puts hooks into methods, how those hooks come to run, and the whole from end to end.
TLC checks the models on small instances; TLAPS proves, for every instance, each safety property
that the passing runs check, the rewriter's included, and that the detailed models implement the
abstract ones. Liveness is model-checked.

## The system

A target process is started with the native profiler attached. The CLR constructs `CorProfiler`,
which connects to the server over gRPC (`localhost:7777`), asks for its configuration and from
then on is told of every module that loads. A target module gets references to ProfilerCore and a
*bridge type*; then each method of each type in the configured namespace is *registered* (it gets
a token, and an RPC tells the server what the token means) and *hooked* (its IL is rewritten to
call the bridge with the token when it is entered and before it returns). The bridge calls
`ProfilingHook`, whose static constructor opens a WCF named pipe to the server, one per AppDomain.
Events travel on that pipe as one-way messages. The server prints a line for each event.

    target process                                             server
    CLR -> CorProfiler -> MetadataRegistry -> IpcClient --gRPC--> HostIpcService --+
             |  TargetModuleInstrumenter                                           |
             |    -> ILRewriter                                                    v
             v                                                             SessionRegistry
    hooked method -> bridge type -> ProfilingHook --pipe--> ProfilerService -------+
                                                                    ProfilingSession, MetadataRegistry

### Inventory

| Component | State | Operations | What makes it correct |
|---|---|---|---|
| SessionRegistry, ProfilingSession, MetadataRegistry (C#) | sessions by pid; per session the metadata by token and the callback | `Get` (GetOrAdd), `RegisterMethod`, `ResolveMethodToken`, `OnMethodEnter/Exit` | one session per pid whoever races to create it; an acknowledged token resolves |
| HostIpcService | none of its own | `GetProfilingConfig`, `RegisterMethod`, on pool threads | a call returns; its effect precedes its reply |
| ProfilerService, ProfilerIpcClient, ProfilingHook | endpoint -> pid; the channel of each AppDomain | `RegisterClient`, `OnMethodEnter/Exit`, one message at a time | an event's sender is known; it is the right process as long as no other one has announced itself |
| ProfilingManager, Program | serving or not | `Start`, `Stop` | stopping terminates |
| CorProfiler, IpcClient, ProfilingConfig | configuration; COM references | constructor, `Initialize`, `ModuleLoadFinished`, `OnMethodRegistered`, `Shutdown` | callbacks return; a failure harms nobody else |
| MetadataRegistry (C++) | token counter, `std::list` of metadata | `RegisterMethod` | tokens are unique; the list stays walkable |
| TargetModuleInstrumenter, ModuleInstrumenter | references, bridge methods | `Instrument` in three parts, the namespace filter | hooks only where the bridge is, only in the namespace, and everywhere there |
| ILRewriter | instruction list, exception clauses, maxStack | `Import`, `AddEnterProbe`, `AddExitProbe`, `Export` | same control flow, every return through an exit probe |
| MscorlibModuleInstrumenter, ProfilerCoreModuleInstrumenter, ProfilerCoreInjection, ProfilerAssemblyResolver | bridge initialisation, delegates in mscorlib, the loaded assembly of each AppDomain | `Instrument`, `InjectProfilerCore`, `ConfigureResolver` | ProfilerCore is loaded before its first use, once per AppDomain; a hook throws only after a failure, or after a context has met an mscorlib hook without its delegate |
| ClassFactory, DllMain | reference counts | `QueryInterface`, `AddRef`, `Release`, `DllCanUnloadNow` | no use after the last release |
| StringUtils, ErrorUtils, Globals, DebugILGenerator, IpcGen, ProfilingTarget, `include/` | - | conversions, logging, an unused generator, a build tool, a sample, vendored headers | not modelled |

The hard parts are listed under `hazards` in `PROJECT.json`, each at its line with the properties
that watch it. In short: sessions are created by racing threads without a lock; registrations and
events travel on different connections; pids are reused and sessions never removed; every RPC
status is ignored and no RPC has a deadline; a COM error may stop the instrumentation of a module
anywhere; modules are instrumented on several threads that share an unsynchronised list; Shutdown
races with callbacks; static constructors run on whatever thread needs them first; and inserting
code makes short branches too short.

## Modules

| Module | Models |
|---|---|
| `ProfilingServer` | the server and its clients: calls, sessions, pipes, dispatcher, process crashes and pid reuse |
| `ProfilingServerRestart` | the same with a server that dies and starts again under living clients |
| `ProfilerHost` | the native profiler: configuration, module callbacks, the method registry, partial failure |
| `ProfileContract` | what profiling promises about the lines on the console (abstract) |
| `ProfilingSystem` | `ProfilerHost` composed with `ProfilingServer`; implements `ProfileContract` |
| `ILCode` | opcodes, sizes, offsets, branches and clauses of method bodies |
| `ILRewriter` | the rewriting of one method body |
| `ILMachine` | one call of a body, as the CLR executes it (external) |
| `MethodRun` | what a hooked method promises to report (abstract) |
| `ILExecution` | a method is rewritten and then called; implements `MethodRun`, and `ILMachine` on the method's own body |
| `HookBootstrap` | how a hook comes to run: mscorlib's bridge, the bridge's static constructor, binding, `ProfilingHook` |
| `ComLifetime` | COM reference counts, `Initialize`, `Shutdown` against callbacks in progress |
| `TypeFilter` | which types the namespace filter selects |
| `..._proofs` | theorems about `ProfilingServer`, `ProfilingServerRestart`, `ProfilerHost`, `ProfilingSystem`, `ILExecution` (with `ILRewriter`), `HookBootstrap`, `ComLifetime` and `TypeFilter` |
| `MC...` | instances for TLC; `MCILBodies` holds the method bodies |

Operators called `Wrong...` are plausible mistakes in the code. Each stands before the definition
it would replace, and no specification uses them: replaced one at a time they show that every
checked property notices a mistake (`mutants` in `PROJECT.json`).

### ProfilingServer and ProfilingServerRestart

A process is a pid and an *incarnation*, because the operating system reuses pids and the server
keys everything by pid alone. A *call* is one RPC of a process: its configuration call or the
registration of one token. `status` is the client's view of a call (unsent, pending, ok, failed),
`stage` the server's (sent, miss, have, done, refused); a call that has failed in the client goes
on in the server. `SessionRegistry.Get` is `ConcurrentDictionary.GetOrAdd`: the lookup
(`AcceptCall`, `DispatcherLookup`) and the insertion (`CreateSession`, `DispatcherCreates`) are
separate steps, and the insertion returns the session that is stored, which need not be the one
just built. A session object is named after the caller that built it, so that the discarded ones
stay visible. `ProfilerService` is a single instance with one message in progress (`wcf`); a
message is dispatched in three or four steps, between which RPC handlers run. `printed` collects
what the lines on the console say: which pipe, which token, whose metadata.

`ShutdownAsync().Wait()` is taken to refuse new calls and to wait for the handlers in progress.

`ProfilerService` tells its senders apart by `Channel.RemoteAddress`. The clients of a duplex named
pipe have no address of their own: the server sees the anonymous address of them all. So the
dictionary `clientEndpointToPid` has a single key, and the model a single value, `endpoint`: the
process that announced itself last is taken for the sender of every message that follows, whatever
pipe it comes from. With several processes events are therefore credited to the wrong one, and the
properties say how wrong it can get. The history `since` has, for each pipe that has announced
itself, the pids that have done so from then on; the pipe is `Mingled` once another process is
among them. `Attribution` says that the pid credited with an event is one of `since`, never one that
announced itself before the event's own pipe, and `UnknownOnlyIfUnacked` excuses an unknown token
only by a call that was not acknowledged or by a mingled pipe. For a process that is alone with
the server both are what one would expect of the code; nothing more holds for several.

`ProfilingServerRestart` adds one action. Everything the server keeps is in memory, so a restart
empties it, kills the handlers and breaks the pipes; `lost` records the registrations that went
with it. Clients do nothing about it: they never register again, and an AppDomain that has lost its
pipe keeps its faulted client for good. An AppDomain that runs its *first* hook after the restart
does get through, with tokens the new server has never heard of: that is what `UnknownOnlyIfLost`
says, where `UnknownOnlyIfUnacked` fails.

### ProfilerHost

`pc` follows each loader thread through `ModuleLoadFinished`. `ComError` may end a callback
wherever a COM call is made; the `_com_error` is caught in `ModuleLoadFinished`, logged, and what
the module has got so far it keeps. `Faults` switches the failures on: `"config"` (the
configuration call), `"register"` (registrations) and `"com"`. A method has IL with a RET
(`"plain"`), IL that only throws (`"noret"`) or none. `std::list::push_back` on the shared list
is three stores (`BuyNode`, `LinkHead`, `LinkPrev`) as the library in use makes them; overlapping
pushes are a data race, and the model lets them interleave at each store. The namespace filter is
the set `InNamespace`; an empty filter selects everything. Its variables and specifications carry
`host` in their names (`hostVars`, `HostSpec`), because `ProfilingSystem` extends this module and
`ProfilingServer` together.

### ProfileContract and ProfilingSystem

`ProfilingSystem` puts one `ProfilerHost` against `ProfilingServer`. The two share steps: when the
host's callback sends a registration the server model's call is sent, what the server stores the
host's abstract server (`wire`, `served`) gets, and a callback goes on when its call returns or
fails. Once a module is loaded its hooked methods may run (`FirstHook`, `HookReports`) with the
token their probe loads, cut to the four bytes of an `ldc.i4` (`Operand`). Other processes do
whatever `ProfilingServer` lets a process do. `KeepsContract` is the refinement: each line printed
for the process names a method whose hook has run and which the server was told of, or no method,
and then only if a hook ran whose registration was never acknowledged. The contract has a step
`Mix`: once another process with pipes to the server may be taken for this one, or the pid has been
used again (`Mixed`), a line may also name no method or a method of the other process, whatever hook
it is about. `Named`, `Known`, `Confirmed` and `Mixed` are the mapping.

### ILCode, ILRewriter, ILMachine, MethodRun, ILExecution

An input is a body: instructions with byte displacements, clauses with byte offsets. The model
keeps what the code keeps. `il` is the linked list, `target` the `m_pTarget` pointers, `offset` the
offsets of the latest layout. `Layout` and `Resolve` are the two loops of `Export` and alternate
for as long as `TooFar` is not empty. `body` is what `SetILFunctionBody` gets: again bytes and
displacements, so that the properties parse the output and compare it with the input instead of
trusting the pointers. A `"block"` is a run of straight-line code, so long that a few probes are
enough to put a branch across it out of reach.

`ILExecution` then calls the method: `ILMachine` executes the installed body, or the method's own
if nothing was installed, with branches that go either way and exceptions that go to any clause
that covers them. Two refinements say that this is right. `KeepsPromise`: the call behaves as
`MethodRun`, which reports one enter first, one exit exactly if it returns, and nothing after an
exception. `SameRun`: with the probes erased (`OriginalIp`) the call is a call of the *original*
body, so that no branch, handler or clause leads elsewhere than before; the exception is a hook
that fails (`HookFails`), which may leave the method where the method would not. The end of the
installed body corresponds to the end of the original.

### HookBootstrap

Three instrumenters and two static constructors have to fit together before a hook reports
anything. `mscorlib` counts the steps of `MscorlibModuleInstrumenter.Instrument`; `bridge` and
`hook` are the static constructors of a module's bridge type and of each loaded `ProfilingHook`,
which the CLR runs once, on the thread that needs them first, while others wait, and whose failure
it remembers. `InjectProfilerCore` loads a *copy* of ProfilerCore per module; `bound` is the
assembly a module's reference is bound to. The binding is external: the CLR probes the directory
(`probing` says whether there is a file), then asks the `AssemblyResolve` handlers. The bridge's
static constructor is taken to run before its reference to ProfilerCore is bound. `failed` records
that something outside the code has failed; it occurs in properties only.

The IL put into `ExecutionContext.Capture` and `RunInternal` loads a delegate's field and invokes
what it finds, without a test for null. A context that flows before the delegates are set throws a
NullReferenceException into its thread, and the model says what that does at each place: in the
target's own code it is the target's exception (`NullInTarget`); while `ProfilingHook`'s static
constructor opens the pipe it makes the constructor fail, and with it every later hook of the
AppDomain, although nothing outside the code has failed (`NullInConstructor`); and it ends a report
(`NullInReport`, possible where the pipe was opened but ProfilerCore itself was not instrumented, so
that nobody ever sets the delegates). `nulls` records where. Whether framework code captures a
context on the way to an open pipe is up to the framework; the model lets it.
`InitializeMscorlibBridge` sets the two delegates in two steps, between which other threads'
contexts flow.

### ComLifetime

`held` counts the pointers each client has, `refCount` is the object's own count. `Release` is two
steps, the interlocked subtraction and the decision on its result, so that several clients can be
in the middle of it. Clients keep to the rules of COM: who calls into an object holds a pointer to
it. `ModuleLoadFinished` uses `corProfilerInfo` at eight points; `Shutdown` may clear it between
any two. Only from the last on does the instrumenter use its own copy, so an earlier use can meet
a null pointer: `crashed`. `CrashOnlyInShutdown` says that this needs a shutdown and cannot happen
once `Instrument`, with its calls to the server, is reached. The CLR is assumed to keep a reference
of its own to its `ICorProfilerInfo5`.

### TypeFilter

`GetModuleTypesToInstrument` and the walk of `IsNestedTypeInNamespace` around a nested type, with
the visibility bits as numbers. A type whose name does not fit the buffer (`truncated`) is passed
over without a walk, since `GetTypeDefProps` then does not return S_OK (`Skip`). Metadata keep a
nested type's own name without its namespace, and the code compares that name with the filter as
well: a nested class `MyAppHelper` of a class outside the namespace `MyApp` is selected.
`SelectedByChain` states exactly what is selected.

## Runs

| Run | Instance | Shows |
|---|---|---|
| `server_race` | one process, two tokens, failing calls, a server that starts and stops; fair | no registration ends in a discarded session (`NoSplitSession`); an unknown token means an unacknowledged call (`UnknownOnlyIfUnacked`); nothing stored vanishes (`SessionStable`); calls return, events get printed, Stop ends |
| `server_restart` | restarts of the server; a pid used twice | what was acknowledged to *this* server resolves (`AckedHereResolves`), an unknown token means a failed call or one that an earlier server took with it (`UnknownOnlyIfLost`), the dispatcher finds a sender for every event, none that announced itself before the event's pipe did (`SenderKnown`) |
| `system_processes` | a profiled process and another one with the same tokens, failing calls | the inductive invariant of the server's proofs (`Inductive`), what an event may be credited to when both processes have the one address (`Attribution`), the contract (`KeepsContract`) |
| `system_threads` | one process that loads two modules at once, with and without a configuration | unique tokens (`TokensUnique`), registration before hooks (`ServedBeforeHooked`), every method that returns is hooked (`AllPlainHooked`), the list ends (`ListEnds`), the contract |
| `host` | two threads, three modules, mixed bodies, failing COM and RPC calls; fair | no hook without a bridge (`HookedNeedsBridge`), none outside the namespace (`HookedOnlyInNamespace`), no method registered twice (`RegisteredOnce`), the inductive invariant of the proofs (`HostInductive`), `ModuleLoadFinished` returns unless a call is never answered (`CallbacksReturn`) |
| `host_config_lost` | configuration call fails | *violated*: methods outside the namespace are hooked |
| `host_throw_only` | nothing fails | *violated*: a method that only throws is not hooked |
| `method_calls` | about 4200 bodies, rewritten and called, hooks may throw | branches, switches and clauses survive (`BranchesLand`, `ClausesKept`), probes on every path (`ProbesOnEveryPath`), stack (`StackSuffices`), only growth (`OnlyGrows`), the layout loop ends (`RewritingEnds`), the promise (`KeepsPromise`), the same run as without hooks (`SameRun`), the inductive invariant of the rewriter's proofs (`RewriteInductive`) |
| `bootstrap` | two threads, two modules, an AppDomain with or without the file, everything may fail, contexts flow | one pipe (`OnePipePerDomain`), throws explained by a failure or a null delegate in the constructor (`ThrowsOnlyAfterFailure`), the inductive invariant of the proofs (`BootstrapInductive`) |
| `bootstrap_resolver` | the same, nothing fails | *violated*: without the file every hook throws (`HooksWork`, which excuses null delegates) |
| `com_lifetime` | two clients, a factory, a profiler, two callbacks | alive while held, deleted once (`LivesWhileHeld`), `ICorProfilerInfo5` counted right (`InfoBalanced`), who may meet a null pointer (`CrashOnlyInShutdown`), the inductive invariant of the proofs (`LifetimeInductive`) |
| `type_filter` | all nestings of three types, any of them with too long a name | exactly the types that a name around them selects (`SelectedByChain`) |

### Bounds

*Server.* `MaxIncarnations` caps how often a pid is reused (two are enough for a stale session),
`MaxQueue` the messages waiting in a pipe (the announcement and one event, or one alone), and
`MayFail` the calls whose failure is explored. Races over a session need two callers, and there are
three (two calls and a pipe). Each call is made at most once: a client never repeats one. In
`server_restart` the server may restart any number of times.

*Host.* Two threads and two modules make every pair of callbacks overlap; the third module of
`host` has nothing to profile. Up to three methods of a module are instrumented in any order, so a
module can fail before, between and after its methods.

*System.* The contract is checked twice, with a second process (one method and one loader thread
each) and with two loader threads (one process), because both together are too large. What the
processes could do to each other needs no second thread, and threads share no state with other
processes. Its proof has no such bound. Tokens fit their operand (`OperandValues`), and
hooks report operands for which the server model has events.

*Rewriter.* All bodies of up to three instructions (plain, block, ret, throw and three kinds of
branch to anywhere), all bodies of five built from conditional short branches, blocks and returns,
switches of two targets, and a protected region with a filter, a handler and an enclosing clause
that ends with the method. A block has 122 bytes: a branch across one reaches and stops reaching
when a probe comes between, and two branches across each other need three rounds. The last
instruction leaves the method or jumps, as the verifier demands. Bodies of five start
with a MaxStack just below 65536, so that the 16-bit field is at its limit. A call is unbounded:
a loop runs on, and the states repeat.

*Bootstrap.* Contexts flow at any time. One AppDomain: two AppDomains share nothing but the steps of
mscorlib, which precede all managed code. Two modules and two threads race in it.

*COM.* `MaxHeld` is two pointers per client and object. *Filter.* Three types make a walk of two
steps outwards; parts of names are single values.

`CHECK_DEADLOCK FALSE` is in every configuration: a system with no process left, no module left to
load, a method that has returned or a target that has ended stops.

### Fairness

*Server.* Handlers run on pool threads that the scheduler serves, and replies and refusals reach a
client that lives: weak fairness. `SF` for `Dispatch(c)`: WCF queues the channels that wait for the
instance, so a channel that waits again and again between other channels' messages gets its turn.
Nothing is fair about processes that start, call or die and operators that stop the server.

*Host.* Loader threads run (weak fairness). Nothing is assumed of the server: the RPC has no
deadline, so a callback whose call is never answered waits for ever, and `CallbacksReturn` says that
this is the only way in which it does not return.

*Rewriter and calls.* The thread that rewrites runs, and so does the one that executes the body;
whether a branch is taken or an exception thrown is up to the program, so a method may loop for
ever. The fair part of `KeepsPromise` is that a method which has reported its exit returns.

## Findings

1. *Classes matching a namespace filter* (README.md:13 of the repository). `IpcClient::GetProfilingConfig`
   ignores the status of the call. When it fails, the namespace is the empty string of a default
   message, `wcsncmp` compares no characters, and every type of every module is instrumented, the
   bridge type just defined among them (`host_config_lost`).
2. *All the class methods' IL* (the same line). `AddExitProbe` gives up on a body without RET, and
   `InstrumentMethods` ignores that. A method that only throws gets no enter hook either, although
   the server has been told its token (`host_throw_only`). `AllPlainHooked` is what does hold.
3. *Is able to record timestamps* (the same line). `AppDomainAssemblyResolver` looks for names that
   start with `ProfilerCore.`, with a dot; the reference that the bridge is given is displayed as
   `ProfilerCore, Version=...`. The handler never answers, and where the target's directory holds no
   ProfilerCore.dll every hook throws (`bootstrap_resolver`). The sample target does not show it
   because all projects build into one directory, where probing finds the file.

## Proofs

### The server

`ProfilingServer_proofs` proves, for any pids, tokens, AppDomains and bounds, and assuming only the
named assumptions of `ProfilingServer` (the null values are not elements of the sets, bounds are
numbers):

| Theorem | Statement |
|---|---|
| `InductiveInvariant` | `Spec => []Inductive` |
| `TypeCorrect` | `Spec => []TypeOK` |
| `SessionsNeverSplit` | `Spec => []NoSplitSession` |
| `AckedAlwaysResolve` | `Spec => []AckedResolves` |
| `SenderAlwaysKnown` | `Spec => []SenderKnown` |
| `CallbackAlwaysOfProcess` | `Spec => []CallbackOfProcess` |
| `EventsTraced` | `Spec => []Attribution` |
| `UnknownMeansUnacked` | `Spec => []UnknownOnlyIfUnacked` |
| `RegistryStable` | `Spec => SessionStable` |

`NoSplitSession` is not inductive: it says that handlers of one pid hold one session, and an
insertion preserves it only because what is held is also what is *stored*. `Inductive` adds
that (`ServedIsStored`), that a stored session was built on behalf of its pid (`SessionOfPid`),
that a pipe that carries events starts with its announcement or has been announced
(`HelloFirst`), that whoever is taken for the sender of an announced pipe's messages has announced
himself since that pipe did (`SendersSince`), that the dispatcher works for a pid that announced
itself (`DispatcherKnows`), and that an event's token has been registered and the call has returned
(`EventsReturned`). The last one is the argument that joins the two connections: a method is hooked
after its blocking call, so when the call was acknowledged the metadata was stored before the event
was written. None of it assumes that processes are told apart: a pipe with which no other pid has
been mingled has a sender of its own because `since` then holds its pid alone.

The proof has one lemma per action, and one step per conjunct the action can disturb. `TypeOK`,
`AckedResolves` and `CallbackOfProcess` are consequences of `Inductive`, which
`system_processes` checks.

`ProfilingServerRestart_proofs` proves, under the same assumptions, for a server that may die and
start again at any time:

| Theorem | Statement |
|---|---|
| `RestartInvariant` | `RestartSpec => []RestartInductive` |
| `AckedHereAlwaysResolve` | `RestartSpec => []AckedHereResolves` |
| `SenderKnownAfterRestart` | `RestartSpec => []SenderKnown` |
| `UnknownMeansLost` | `RestartSpec => []UnknownOnlyIfLost` |

`Inductive` does not survive a restart: a call that was answered is no longer stored. What does
survive is the same invariant of the calls that are not `lost`, so `RestartInductive` states it for
those, and every step but the restart is then a step of `ProfilingServer` whose lemmas are cited.
The restart itself keeps it because what the old server had finished is lost, what it was serving
has failed, and the new one has nothing.

### The native profiler

`ProfilerHost_proofs` proves, for any threads, modules, methods, bodies, filter and faults, and
assuming only `MethodAssumption` (what `ModuleOf` and `Body` map from and to):

| Theorem | Statement |
|---|---|
| `HostInvariant` | `HostSpec => []HostInductive` |
| `HostTypeCorrect` | `HostSpec => []HostTypeOK` |
| `HostTokensUnique` | `HostSpec => []TokensUnique` |
| `HostServedBeforeHooked` | `HostSpec => []ServedBeforeHooked` |
| `HostHookedNeedsBridge` | `HostSpec => []HookedNeedsBridge` |
| `HostAllPlainHooked` | `HostSpec => []AllPlainHooked` |
| `HostHookedOnlyInNamespace` | `"config" \notin Faults` implies `HostSpec => []HookedOnlyInNamespace` |
| `HostHooksKept` | `HostSpec => HooksKept` |
| `HostOneTokenPerMethod` | `HostSpec => []OneTokenPerMethod` |
| `HostRegisteredOnce` | `HostSpec => []RegisteredOnce` |
| `HostListEnds` | `IsFiniteSet(Methods)` implies `HostSpec => []ListEnds` |

`TokensUnique` speaks of registrations that were sent and of hooks; a thread that has a token and
has not sent it yet could break it. `ClaimsAgree` therefore speaks of every place a token can be
(`Claims`): a registering thread, the wire, the server, an installed hook. That a method is hooked
once needs that no two threads have one module (`OneThreadPerModule`) and that what a thread's
loops have not reached has no hooks (`TodoIsLeft`). The latter also carries the methods that can be
hooked from the start of the loops to the end of the callback, which gives `AllPlainHooked`.
`InOrder` and `FilterKept` record what the earlier steps of the callback and of the constructor
have established. `OneTokenPerMethod` is the converse of `TokensUnique`: a method has one token for
life. The assumption on `"config"` is the finding of `host_config_lost`: without it the
statement is false. `host` checks `HostInductive`.

`HostListEnds` needs nothing about which pushes are lost. `ListLinked` says that `_Prev` undoes
`_Next`: a push that goes wrong drops nodes, but it never makes two nodes share a successor, because
the node it buys is one that nobody has seen (its method has no token yet: `OneTokenPerMethod`).
A walk from the head that did not come back would meet a node twice, by counting; the first node it
meets twice has one predecessor, which it would have met twice before, or the head.

### The whole

`ProfilingSystem_proofs` proves that the whole profiler implements `ProfileContract`:

| Theorem | Statement |
|---|---|
| `HalvesKept` | `SystemSpec => HostSpec /\ Spec` |
| `SystemJoint` | `SystemSpec => []Joint` |
| `ContractKept` | `TokensFit` implies `SystemSpec => KeepsContract` |

A composed step is a step or a stutter of each half (`HalvesKept`), so the invariants of both
hold. `Joint` ties them together: what the server stores and prints for the process it was told by
it (`StoredIsTold`), what the profiler counts as acknowledged its IPC client does too
(`AckedIsOk`), every event in a pipe, in the dispatcher or on the console comes from a hook that
has run (`EventsAreSent`), and who has called or is described to the server has been started
(`CallersBegun`). With it each step maps to a step or a stutter of the contract. Other processes may
come, share the address, and use the pid again: that is the contract's step `Mix`, and what it
allows from then on. `TokensFit` is the one premise, and the code does not establish it: a token is
a 64-bit count and the operand of an `ldc.i4` 32 bits wide, so a process that registers more than
2^32 methods reports tokens of other methods. `HalvesKept` and `SystemJoint` need no premise.

### The rewriter and its calls

`ILExecution_proofs` proves, for any sizes of blocks and all bodies that satisfy `BodyAssumption`:
of any length, with any branches, switches and clauses that begin and end at instructions.

| Theorem | Statement |
|---|---|
| `RewriterInvariant` | `Spec => []RewriteInductive` |
| `RewriterTypeCorrect` | `Spec => []TypeOK` |
| `BranchesAlwaysLand` | `Spec => []BranchesLand` |
| `ClausesAlwaysKept` | `Spec => []ClausesKept` |
| `StackAlwaysSuffices` | `Spec => []StackSuffices` |
| `ProbesAlwaysOnEveryPath` | `Spec => []ProbesOnEveryPath` |
| `OnlyBranchesGrow` | `Spec => OnlyGrows` |
| `PromiseKept` | `RunSpec => Promise!Spec` |
| `RunsTheSame` | `RunSpec => SameRun` |

The properties speak of the installed bytes, which are parsed again: that a displacement leads to an
instruction is a fact about sums of sizes. The proof has four layers.

1. *What the recursive functions compute.* The library's induction theorems cannot be used, because
   their parameter is an operator. But a finite set of initial segments of the natural numbers has
   a minimal member (a theorem without such a parameter), so every non-empty set of natural numbers
   has a least element (`Least`), and induction over a *set* follows (`UpTo`). With it the
   recursions of `OffsetsOf`, `BaseOf` and the insertion of the exit probes are shown to be
   well-founded, offsets to ascend, and `PositionAt` to invert them.
2. *The rewriter.* `RewriteInductive` says which names the list has and in which order (`ListOK`,
   `NamesOK`: the k-th instruction of the import, its exit probe behind it, so that keys ascend),
   what each has become (`OwnOK`, `ProbesOK`), and that the offsets are the layout of the list as it
   is (`LaidOut`) and the displacements those of the offsets (`Resolved`). Type correctness alone is
   not inductive: that an export finds the targets of its clauses in the list needs the names.
3. *The installed body.* A target is a name; the name's place in the list is where its offset points
   (`LandsInBody`); a RET's name now stands for a NOP before its exit probe, so what led to the RET
   leads to the probe. A range of bytes that began and ended at instructions covers those and their
   probes' neighbours, never a probe (`CoveredInBody`), since a clause cannot end inside a probe.
4. *Calls.* `WhereReported` says that what has been reported tells where control is; with the body's
   probes in place every step of the machine is one of `MethodRun` (`PromiseKept`, the safety part
   of `KeepsPromise`). For `RunsTheSame` each step of the installed body is mapped: a probe's steps
   stutter, a branch goes where the original goes, an exception meets the clauses it would have met.


### The bootstrap of the hooks

`HookBootstrap_proofs` proves, for any threads, modules, AppDomains and faults, and assuming only
`DomainAssumption`:

| Theorem | Statement |
|---|---|
| `BootstrapInvariant` | `Spec => []BootstrapInductive` |
| `PipeShared` | `Spec => []OnePipePerDomain` |
| `ThrowsExplained` | `Spec => []ThrowsOnlyAfterFailure` |

The one pipe needs that all references of an AppDomain are bound to one assembly, the file, since
the copies never answer (`BoundToFile`), and that one thread at a time is in that assembly's
constructor, the pipe not yet open (`ConstructedOnce`). `FailuresExplained` carries the cause of
every remembered failure: something outside the code, or a null delegate met in the constructor
(`Struck`). That there is no third cause needs `DelegatesSet`: who reports through an instrumented
`ProfilingHook` finds both delegates, so a report meets a null one only if a failure kept
ProfilerCore from being instrumented. What `Resolved` says matters: if the copies did answer, or
answered for themselves, these would be other theorems.

### Objects and the filter

`ComLifetime_proofs` proves, for any clients, factories and profilers, assuming `ObjectAssumption`
and `HeldAssumption`:

| Theorem | Statement |
|---|---|
| `LifetimeInvariant` | `Spec => []LifetimeInductive` |
| `ObjectsLiveWhileHeld` | `Spec => []LivesWhileHeld` |
| `InfoAlwaysBalanced` | `Spec => []InfoBalanced` |
| `CrashesOnlyInShutdown` | `Spec => []CrashOnlyInShutdown` |

A reference count is a sum over clients, and the proof turns the sum into a set: `Pointers(o)` has
one element for each pointer that some client has, named by the client and a number, and `Counted`
says that the count is its cardinality. Taking or giving up a pointer adds or removes one element,
and the cardinality theorems do the arithmetic. `OneEnds` says that one client at most has seen its
subtraction reach zero and that nobody gets a pointer before it deletes the object; so the object
is deleted once. `InfoSet` says from when until when a profiler has its `ICorProfilerInfo5` and
which callbacks have copies; `CrashesOnlyInShutdown` rests on it.

`TypeFilter_proofs` proves `ChainSelects == Spec => []SelectedByChain`, for any number of types,
nesting, names and filter. `Chain(t)` is the least set that has `t` and with every type the one
around it, a definition that needs no recursion, and a type is selected if one of them matches and
its own name fits the buffer; `WalkInductive` adds that what the walk has passed
by does not match. That the flag tests let no nested type through is a fact about `Bits`, which are
computed by division, as a module with theorems cannot use `Bitwise`.

### What the proofs assume, and what is only model-checked

The assumptions are the named ones of the modules: null values are not elements of the sets, maps
have their domains, bounds are numbers, factories are not profilers, and a method body is one that
an assembler could have written. TLC evaluates each in the runs. Beyond them `ContractKept` assumes
`TokensFit`, `HostHookedOnlyInNamespace` that the configuration call does not fail, and
`HostListEnds` that there are finitely many methods.

Only model-checked is liveness, since fairness and ENABLED are out of the prover's reach:
`CallsReturn`, `EventsPrinted`, `StopTerminates`, `CallbacksReturn`, `RewritingEnds`,
and the fair part of `KeepsPromise` (a method that has reported its exit returns). For
`RewritingEnds` the reason why it holds is proved: `OnlyBranchesGrow`.

## Not modelled

* `DllCanUnloadNow` (always S_OK), `LockServer` and aggregation: they change no state. `DllMain`
  logs.
* `StopNotifications`, which nothing calls, and the CLR callbacks that return S_OK.
* Operands of IL other than branch targets; IL prefixes, `tail.` among them; malformed IL; the tiny
  header and the rejit path, which no caller uses.
* Whether opening a WCF channel captures a context. The model of the bootstrap lets contexts flow
  at any time, and a hook that finds no delegate throws.
* What `std::runtime_error` does to the CLR: `MscorlibEscapes` ends the process.
* `StringUtils`, `ErrorUtils` and `Globals` (conversions, error texts, logging), the unused
  `DebugILGenerator`, the build tool `IpcGen`, the sample target: no state, or none of the
  profiler's.
* `include/`: vendored headers of protobuf, spdlog and others, and generated code. By far most
  lines of the repository are these; they are third-party code, and the models treat what they
  do as given.

## What is left

The plan of this project, the core first and then the parts around it, is carried out, and every
safety property of a passing run is a theorem. What could follow: a measure for the layout loop
(the number of short branches decreases with each round) as an action property, which would be the
provable half of `RewritingEnds`; and an instance of `ProfilingSystem` with two processes and two
loader threads on a larger machine.
