------------------------------ MODULE ProfilingSystem ------------------------------
(***************************************************************************)
(* The profiler from end to end: the native profiler of one process        *)
(* (ProfilerHost) against the server (ProfilingServer), among other        *)
(* processes that do whatever the server model lets a process do.          *)
(*                                                                         *)
(* The two specifications share steps: what the one sends or receives, the *)
(* other does too.  The host's abstract wire and store of registrations    *)
(* (wire, served) become the calls that travel and the metadata the server *)
(* keeps.  The hosted process is the first incarnation of the pid Target.  *)
(* The server has one table entry for all senders, so that what it prints  *)
(* for this process depends on who else announces himself.                 *)
(***************************************************************************)
EXTENDS ProfilerHost, ProfilingServer

CONSTANTS
    Target,        \* the pid of the hosted process
    DomainOf,      \* module -> the AppDomain it is loaded into
    OperandValues  \* values a probe's four-byte operand can have

ASSUME TargetAssumption ==
    /\ Target \in Pids
    /\ DomainOf \in [Modules -> Domains]
    /\ Tokens \subseteq Nat
    /\ OperandValues \in Nat \ {0}
    /\ MaxIncarnations >= 1

VARIABLE
    ran  \* history: the methods of the hosted process whose hook has reported

\* hostVars are the host's variables, vars the server's.
systemVars == <<hostVars, vars, ran>>

SystemInit == HostInit /\ Init /\ ran = {}

-----------------------------------------------------------------------------
\* Operators named Wrong... are plausible mistakes in the code: each replaces
\* the definition it precedes to show that a property notices.

Hosted(x) == x.pid = Target /\ x.inc = 1

ThisProcess == [pid |-> Target, inc |-> 1]
Up == Alive(ThisProcess)

HostsConfigCall == ConfigCall(ThisProcess)
RegistrationCall(th) == MethodCall(ThisProcess, Registration(th).token)

\* The client learns that its call has failed.
Fails(r) ==
    /\ Up
    /\ status[r] = "pending"
    /\ CallFails(r) \/ Unavailable(r)

-----------------------------------------------------------------------------
(* The native profiler: its constructor's configuration call, the          *)
(* registration calls of its callbacks, and the rest of a callback.        *)

AskConfig ==
    /\ phase = "constructing"
    /\ SendCall(HostsConfigCall)
    /\ UNCHANGED hostVars

GetsConfig ==
    \/ ReceiveReply(HostsConfigCall) /\ GetProfilingConfig(TRUE)
    \/ Fails(HostsConfigCall) /\ GetProfilingConfig(FALSE)

Registers(th) ==
    \/ OnMethodRegistered(th) /\ SendCall(RegistrationCall(th))
    \/ RegisterMethodReturns(th) /\ ReceiveReply(RegistrationCall(th))
    \/ RegisterMethodFails(th) /\ Fails(RegistrationCall(th))

\* Bound: tokens are among those the server model has calls for.
CallbackAlone(th) ==
    \/ \E m \in Modules : ModuleLoadFinished(th, m)
    \/ AddProfilerCoreReferences(th) \/ AddHookBridgeType(th) \/ InstrumentMethods(th)
    \/ counter + 1 \in Tokens /\ \E x \in Methods : IssueToken(th, x)
    \/ BuyNode(th) \/ LinkHead(th) \/ LinkPrev(th)
    \/ \E ok \in BOOLEAN : InjectEnterExitHooks(th, ok)
    \/ ComError(th)

HostAlone ==
    /\ Up
    /\ Initialize \/ \E th \in Threads : CallbackAlone(th)
    /\ UNCHANGED vars

Host ==
    /\ AskConfig \/ GetsConfig \/ HostAlone \/ \E th \in Threads : Registers(th)
    /\ UNCHANGED ran

-----------------------------------------------------------------------------
(* A hook runs, in a method called once its module is loaded.  The probe   *)
(* passes the token as the operand of an ldc.i4, four bytes of it.         *)

Operand(t) == t % OperandValues

CanRun(x) == hooked[x] # 0 /\ load[ModuleOf[x]] \in {"ok", "failed"}

PipeOf(x) == [pid |-> Target, inc |-> 1, dom |-> DomainOf[ModuleOf[x]]]

\* The first hook in an AppDomain runs ProfilingHook's static constructor.
FirstHook(x) ==
    /\ CanRun(x)
    /\ OpenPipe(PipeOf(x))
    /\ UNCHANGED <<hostVars, ran>>

\* Bound: operands are among the tokens the server model has events for.
HookReports(x) ==
    /\ CanRun(x)
    /\ Operand(hooked[x]) \in Tokens
    /\ SendEvent(PipeOf(x), Operand(hooked[x]))
    /\ ran' = ran \cup {x}
    /\ UNCHANGED hostVars

-----------------------------------------------------------------------------
(* The server, and the other processes.                                    *)

\* The server stores the metadata of a method of this process.
Stores(r) ==
    /\ Hosted(r) /\ r.token # Config
    /\ Serve(r)
    /\ \E g \in wire : g.token = r.token /\ ServerHandles(g)
    /\ UNCHANGED ran

\* Nobody learns of it: the client is gone or has given up.
RefusedUnheard(r) == (~Up \/ status[r] = "failed") /\ Unavailable(r)

ServerAlone ==
    \/ Manager \/ Dispatcher
    \/ \E r \in Calls :
         AcceptCall(r) \/ CreateSession(r) \/ (r.token = Config /\ Serve(r))
    \/ \E r \in Calls : Hosted(r) /\ RefusedUnheard(r)
    \/ \E c \in Channels : Dispatch(c) \/ PipeBreaks(c)
    \/ \E p \in Pids : Process(p)

Others ==
    \/ \E r \in Calls : ~Hosted(r) /\ Call(r)
    \/ \E c \in Channels : ~Hosted(c) /\ Pipe(c)

SystemNext ==
    \/ Host
    \/ \E x \in Methods : FirstHook(x) \/ HookReports(x)
    \/ \E r \in Calls : Stores(r)
    \/ (ServerAlone \/ Others) /\ UNCHANGED <<hostVars, ran>>

SystemSpec == SystemInit /\ [][SystemNext]_systemVars

-----------------------------------------------------------------------------
(* Properties.                                                             *)

\* The method that registrations R describe token t by.
MethodOf(R, t) == CHOOSE x \in Methods : [token |-> t, method |-> x] \in R

\* The method whose description call r has brought to the server.
Described(r) == MethodOf(served, r.token)

\* What a line printed for this process names: a method of it, nothing, or
\* something that another process has registered.
Named(e) ==
    IF e.by = None THEN None ELSE IF Hosted(e.by) THEN Described(e.by) ELSE "foreign"

\* The server may take another process for this one: another pid has announced
\* itself since a pipe of this process did, or the pid has been used again.
Mixed == inc[Target] > 1 \/ \E c \in Channels : Hosted(c) /\ Mingled(c)

Known     == {x \in Methods : \E g \in served : g.method = x}
Confirmed == {x \in Methods : \E g \in served : g.method = x /\ g.token \in acked}
Lines     == {Named(e) : e \in {f \in printed : Hosted(f.chan)}}

\* From the hook of a method, over the pipe, past the registrations of all
\* processes, to the line on the console: the line names that method, and
\* nothing else before another process is mixed up with this one.
Contract ==
    INSTANCE ProfileContract WITH Unknown <- None, Foreign <- "foreign", known <- Known,
                                  confirmed <- Confirmed, mixed <- Mixed, lines <- Lines

KeepsContract == Contract!Spec

-----------------------------------------------------------------------------
(* Why the contract is kept.                                               *)

\* What the contract needs beyond the code: tokens fit the operand of an ldc.i4,
\* as those of a process that registers fewer than 2^32 methods do.
TokensFit == \A t \in Tokens : t < OperandValues

\* The tokens the server has been told of; those that a hook which ran passes.
Told == {g.token : g \in served}
Sent == {Operand(hooked[x]) : x \in ran}

\* What the server stores and prints for this process, the process has told it.
StoredIsTold ==
    /\ \A s \in Sessions, t \in Tokens :
           meta[s][t] # None /\ Hosted(meta[s][t]) => meta[s][t].token \in Told
    /\ \A e \in printed : e.by # None /\ Hosted(e.by) => e.by.token \in Told

\* What the profiler counts as registered, its IPC client does too.
AckedIsOk ==
    \A t \in acked : t \in Told /\ status[MethodCall(ThisProcess, t)] = "ok"

\* An event that travels for this process, or is printed, comes from a hook of
\* it that has run.
EventsAreSent ==
    /\ \A c \in Channels : Hosted(c) =>
           \A i \in 1 .. Len(pipe[c]) : pipe[c][i] # Hello => pipe[c][i] \in Sent
    /\ wcf.pc # "idle" /\ wcf.msg # Hello /\ Hosted(wcf.chan) => wcf.msg \in Sent
    /\ \A e \in printed : Hosted(e.chan) => e.token \in Sent

\* Calls, and what the server keeps of them, are of processes that have begun.
CallersBegun ==
    /\ \A r \in Calls : stage[r] # "none" => r.inc <= inc[r.pid]
    /\ \A s \in Sessions, t \in Tokens :
           meta[s][t] # None => meta[s][t].inc <= inc[meta[s][t].pid]

\* What ties the two halves together, inductive with the invariants of each.
Joint ==
    /\ 1 .. counter \subseteq Tokens
    /\ \A x \in ran : x \in Methods /\ hooked[x] # 0
    /\ StoredIsTold
    /\ AckedIsOk
    /\ EventsAreSent
    /\ CallersBegun

=============================================================================
