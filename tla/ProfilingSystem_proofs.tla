-------------------------- MODULE ProfilingSystem_proofs --------------------------
(***************************************************************************)
(* Proofs about ProfilingSystem: it implements ProfileContract, for any    *)
(* threads, modules, methods, processes, AppDomains and faults.            *)
(*                                                                         *)
(* The first part shows that each half keeps to its own specification, so  *)
(* that what is proved of the halves holds of the system.  The second      *)
(* shows that Joint, which ties the halves together, is inductive.  The    *)
(* third maps every step to a step of the contract.                        *)
(***************************************************************************)
EXTENDS ProfilingSystem, ProfilerHost_proofs, ProfilingServer_proofs

-----------------------------------------------------------------------------
(* The halves.                                                             *)

\* Whatever the system does is a step of the native profiler, or none.
LEMMA HostHalf == SystemNext => [HostNext]_hostVars
<1> SUFFICES ASSUME SystemNext PROVE [HostNext]_hostVars
  OBVIOUS
<1>1. CASE Host
  <2>1. CASE AskConfig
    BY <2>1 DEF AskConfig
  <2>2. CASE GetsConfig
    BY <2>2 DEF GetsConfig, HostNext
  <2>3. CASE HostAlone
    BY <2>3 DEF HostAlone, CallbackAlone, HostNext, Callback
  <2>4. CASE \E th \in Threads : Registers(th)
    BY <2>4 DEF Registers, HostNext, Callback
  <2> QED
    BY <1>1, <2>1, <2>2, <2>3, <2>4 DEF Host
<1>2. CASE \E x \in Methods : FirstHook(x) \/ HookReports(x)
  BY <1>2 DEF FirstHook, HookReports
<1>3. CASE \E r \in Calls : Stores(r)
  BY <1>3 DEF Stores, HostNext
<1>4. CASE (ServerAlone \/ Others) /\ UNCHANGED <<hostVars, ran>>
  BY <1>4
<1> QED
  BY <1>1, <1>2, <1>3, <1>4 DEF SystemNext

\* The calls and pipes of this process are some that the server model has.
LEMMA OwnCalls ==
  ASSUME HostInductive, Joint
  PROVE  /\ HostsConfigCall \in Calls
         /\ \A th \in Threads : pc[th] \in Registering =>
                token[th] \in Tokens /\ RegistrationCall(th) \in Calls
         /\ \A x \in Methods : PipeOf(x) \in Channels
         /\ \A x \in Methods : hooked[x] # 0 => hooked[x] \in Tokens
<1>1. 1 \in Incarnations
  BY TargetAssumption, BoundAssumption DEF Incarnations
<1>2. HostsConfigCall \in Calls
  BY <1>1, TargetAssumption DEF HostsConfigCall, ThisProcess, ConfigCall, Calls
<1>3. ASSUME NEW th \in Threads, pc[th] \in Registering
      PROVE  token[th] \in Tokens /\ RegistrationCall(th) \in Calls
  BY <1>1, <1>3, TokenIssued, TargetAssumption
     DEF RegistrationCall, Registration, ThisProcess, MethodCall, Calls, Joint
<1>4. ASSUME NEW x \in Methods
      PROVE  PipeOf(x) \in Channels
  BY <1>1, TargetAssumption, MethodAssumption DEF PipeOf, Channels
<1>5. ASSUME NEW x \in Methods, hooked[x] # 0
      PROVE  hooked[x] \in Tokens
  <2>1. Hook(x) \in Claims /\ Hook(x).token = hooked[x]
    BY <1>5 DEF Claims, Hook
  <2>2. hooked[x] \in 1 .. counter
    BY <2>1 DEF HostInductive, ClaimsAgree
  <2> QED
    BY <2>2 DEF Joint
<1> QED
  BY <1>2, <1>3, <1>4, <1>5

\* Whatever the system does is a step of the server, or none.
LEMMA ServerHalf ==
  ASSUME HostInductive, Joint, SystemNext
  PROVE  [Next]_vars
<1>1. CASE Host
  <2>1. CASE AskConfig
    BY <2>1, OwnCalls DEF AskConfig, Next, Call
  <2>2. CASE GetsConfig
    BY <2>2, OwnCalls DEF GetsConfig, Fails, Next, Call
  <2>3. CASE HostAlone
    BY <2>3 DEF HostAlone
  <2>4. ASSUME NEW th \in Threads, Registers(th)
        PROVE  [Next]_vars
    <3>1. pc[th] \in Registering
      BY <2>4 DEF Registers, OnMethodRegistered, RegisterMethodReturns,
           RegisterMethodFails, At, Registering
    <3> QED
      BY <2>4, <3>1, OwnCalls DEF Registers, Fails, Next, Call
  <2> QED
    BY <1>1, <2>1, <2>2, <2>3, <2>4 DEF Host
<1>2. CASE \E x \in Methods : FirstHook(x) \/ HookReports(x)
  BY <1>2, OwnCalls DEF FirstHook, HookReports, CanRun, Next, Pipe
<1>3. CASE \E r \in Calls : Stores(r)
  BY <1>3 DEF Stores, Next, Call
<1>4. CASE ServerAlone
  BY <1>4 DEF ServerAlone, RefusedUnheard, Next, Call, Pipe
<1>5. CASE Others
  BY <1>5 DEF Others, Next
<1> QED
  BY <1>1, <1>2, <1>3, <1>4, <1>5 DEF SystemNext

-----------------------------------------------------------------------------
(* What ties the halves together.                                          *)

\* Everything that is proved of the halves, and what ties them together.
Whole ==
  /\ HostInductive
  /\ OneTokenPerMethod
  /\ Inductive
  /\ Traced
  /\ Joint

\* The halves' invariants are kept.
LEMMA HalvesStep ==
  ASSUME Whole, SystemNext
  PROVE  /\ HostInductive' /\ OneTokenPerMethod' /\ Inductive' /\ Traced'
         /\ Kept
         /\ \A r \in Calls : Returned(r) => status'[r] = status[r]
<1>1. [HostNext]_hostVars /\ [Next]_vars
  BY HostHalf, ServerHalf DEF Whole
<1>2. HostInductive' /\ OneTokenPerMethod' /\ Kept
  BY <1>1, NextInductive, OneTokenStep, KeptStep DEF Whole
<1>3. Inductive' /\ Traced'
  BY <1>1, StepKeeps, TracedStep DEF Whole
<1> QED
  BY <1>1, <1>2, <1>3, OutcomeKept, AmongAll DEF Whole

\* Where the server stores a description of this process, the process has told
\* it so in the same step.
LEMMA MetaStep ==
  ASSUME SystemNext
  PROVE  \/ UNCHANGED meta
         \/ \E r \in Calls : Serve(r) /\ (Hosted(r) /\ r.token # Config => r.token \in Told')
<1> USE DEF clientVars, registryVars
<1>1. CASE Host
  BY <1>1 DEF Host, AskConfig, GetsConfig, HostAlone, Registers, Fails, SendCall,
       ReceiveReply, CallFails, Unavailable, vars
<1>2. CASE \E x \in Methods : FirstHook(x) \/ HookReports(x)
  BY <1>2 DEF FirstHook, HookReports, OpenPipe, SendEvent
<1>3. CASE \E r \in Calls : Stores(r)
  BY <1>3 DEF Stores, Told, ServerHandles
<1>4. CASE ServerAlone
  BY <1>4 DEF ServerAlone, Manager, Start, Stop, StopReturns, Process, StartProcess, Crash,
       AcceptCall, CreateSession, RefusedUnheard, Unavailable, PipeBreaks, Dispatch,
       DispatchHello, DispatchEvent, Dispatcher, DispatcherLookup, DispatcherCreates,
       SetCallback, PrintEvent
<1>5. CASE Others
  BY <1>5 DEF Others, Call, Pipe, SendCall, ReceiveReply, CallFails, Unavailable,
       AcceptCall, CreateSession, OpenPipe, SendEvent, PipeBreaks, Dispatch, DispatchHello,
       DispatchEvent
<1> QED
  BY <1>1, <1>2, <1>3, <1>4, <1>5 DEF SystemNext

\* Lines appear when the dispatcher prints an event.
LEMMA PrintedStep ==
  ASSUME SystemNext
  PROVE  UNCHANGED printed \/ (PrintEvent /\ UNCHANGED <<hostVars, ran>>)
<1> USE DEF clientVars, registryVars
<1>1. CASE Host
  BY <1>1 DEF Host, AskConfig, GetsConfig, HostAlone, Registers, Fails, SendCall,
       ReceiveReply, CallFails, Unavailable, vars
<1>2. CASE \E x \in Methods : FirstHook(x) \/ HookReports(x)
  BY <1>2 DEF FirstHook, HookReports, OpenPipe, SendEvent
<1>3. CASE \E r \in Calls : Stores(r)
  BY <1>3 DEF Stores, Serve
<1>4. CASE ServerAlone /\ UNCHANGED <<hostVars, ran>>
  BY <1>4 DEF ServerAlone, Manager, Start, Stop, StopReturns, Process, StartProcess, Crash,
       AcceptCall, CreateSession, Serve, RefusedUnheard, Unavailable, PipeBreaks, Dispatch,
       DispatchHello, DispatchEvent, Dispatcher, DispatcherLookup, DispatcherCreates,
       SetCallback
<1>5. CASE Others
  BY <1>5 DEF Others, Call, Pipe, SendCall, ReceiveReply, CallFails, Unavailable,
       AcceptCall, CreateSession, Serve, OpenPipe, SendEvent, PipeBreaks, Dispatch,
       DispatchHello, DispatchEvent
<1> QED
  BY <1>1, <1>2, <1>3, <1>4, <1>5 DEF SystemNext

\* The server stores only what it has just been told, and prints only what it
\* stores.
LEMMA StoredStep ==
  ASSUME Whole, SystemNext
  PROVE  StoredIsTold'
<1>1. Told \subseteq Told'
  BY HalvesStep DEF Told, Kept
<1>2. ASSUME NEW s \in Sessions, NEW t \in Tokens, meta'[s][t] # None, Hosted(meta'[s][t])
      PROVE  meta'[s][t].token \in Told'
  <2>1. CASE UNCHANGED meta
    BY <1>1, <1>2, <2>1 DEF Whole, Joint, StoredIsTold
  <2>2. ASSUME NEW r \in Calls, Serve(r), Hosted(r) /\ r.token # Config => r.token \in Told'
        PROVE  meta'[s][t].token \in Told'
    <3>1. meta'[s][t] = meta[s][t] \/ (meta'[s][t] = r /\ r.token # Config)
      BY <2>2 DEF Serve, Whole, Inductive, TypeOK
    <3> QED
      BY <1>1, <1>2, <2>2, <3>1 DEF Whole, Joint, StoredIsTold
  <2> QED
    BY <2>1, <2>2, MetaStep
<1>3. ASSUME NEW e \in printed', e.by # None, Hosted(e.by)
      PROVE  e.by.token \in Told'
  <2>1. CASE UNCHANGED printed
    BY <1>1, <1>3, <2>1 DEF Whole, Joint, StoredIsTold
  <2>2. CASE PrintEvent
    <3>1. wcf.sess \in Sessions /\ wcf.msg \in Tokens
      BY <2>2, BusyDispatcher
         DEF PrintEvent, Whole, Inductive, BusyStates, NoSplitSession, NoSplitAmong
    <3>2. e \in printed \/ e.by = meta[wcf.sess][wcf.msg]
      BY <1>3, <2>2 DEF PrintEvent, Resolve
    <3> QED
      BY <1>1, <1>3, <3>1, <3>2 DEF Whole, Joint, StoredIsTold
  <2> QED
    BY <2>1, <2>2, PrintedStep
<1> QED
  BY <1>2, <1>3 DEF StoredIsTold

\* Tokens are issued within the server model's.
LEMMA CounterStep ==
  ASSUME Whole, SystemNext
  PROVE  1 .. counter' \subseteq Tokens
<1>1. UNCHANGED counter \/ (counter' = counter + 1 /\ counter + 1 \in Tokens)
  BY DEF SystemNext, Host, AskConfig, GetsConfig, HostAlone, Registers, CallbackAlone,
       FirstHook, HookReports, Stores, hostVars, GetProfilingConfig, Initialize,
       ModuleLoadFinished, AddProfilerCoreReferences, AddHookBridgeType, InstrumentMethods,
       IssueToken, BuyNode, LinkHead, LinkPrev, InjectEnterExitHooks, ComError,
       OnMethodRegistered, RegisterMethodReturns, RegisterMethodFails, ServerHandles
<1>2. counter \in Nat
  BY DEF Whole, HostInductive, HostTypeOK
<1> QED
  BY <1>1, <1>2 DEF Whole, Joint

\* Only hooks that are installed run.
LEMMA RanStep ==
  ASSUME Whole, SystemNext
  PROVE  /\ \A x \in ran' : x \in Methods /\ hooked'[x] # 0
         /\ Sent \subseteq Sent'
<1>1. UNCHANGED ran \/ \E x \in Methods : ran' = ran \cup {x} /\ hooked[x] # 0
  BY DEF SystemNext, Host, FirstHook, HookReports, CanRun, Stores
<1>2. \A x \in Methods : hooked[x] # 0 => hooked'[x] = hooked[x]
  BY HalvesStep DEF Kept
<1> QED
  BY <1>1, <1>2 DEF Whole, Joint, Sent

\* The profiler counts a registration when its client does.
LEMMA AckedStep ==
  ASSUME Whole, SystemNext
  PROVE  AckedIsOk'
<1>1. \/ UNCHANGED acked
      \/ \E th \in Threads : RegisterMethodReturns(th) /\ ReceiveReply(RegistrationCall(th))
  BY DEF SystemNext, Host, AskConfig, GetsConfig, HostAlone, Registers, CallbackAlone,
       FirstHook, HookReports, Stores, hostVars, GetProfilingConfig, Initialize,
       ModuleLoadFinished, AddProfilerCoreReferences, AddHookBridgeType, InstrumentMethods,
       IssueToken, BuyNode, LinkHead, LinkPrev, InjectEnterExitHooks, ComError,
       OnMethodRegistered, RegisterMethodFails, ServerHandles, serverVars
<1>2. ASSUME NEW t \in acked
      PROVE  t \in Told' /\ status'[MethodCall(ThisProcess, t)] = "ok"
  <2>1. t \in Told' /\ t \in 1 .. counter
    <3>1. PICK g \in served : g.token = t
      BY DEF Whole, Joint, AckedIsOk, Told
    <3> QED
      BY <3>1, HalvesStep DEF Kept, Told, Whole, HostInductive, ClaimsAgree, Claims
  <2>2. MethodCall(ThisProcess, t) \in Calls
    <3>1. 1 \in Incarnations
      BY TargetAssumption, BoundAssumption DEF Incarnations
    <3> QED
      BY <2>1, <3>1, TargetAssumption DEF Whole, Joint, MethodCall, ThisProcess, Calls
  <2>3. status[MethodCall(ThisProcess, t)] = "ok"
    BY DEF Whole, Joint, AckedIsOk
  <2> QED
    BY <2>1, <2>2, <2>3, HalvesStep DEF Returned
<1>3. ASSUME NEW th \in Threads, RegisterMethodReturns(th), ReceiveReply(RegistrationCall(th))
      PROVE  AckedIsOk'
  <2>1. acked' = acked \cup {token[th]} /\ Registration(th) \in served' /\ pc[th] \in Registering
    BY <1>3 DEF RegisterMethodReturns, At, Registering
  <2>2. status'[MethodCall(ThisProcess, token[th])] = "ok"
    BY <1>3, <2>1, OwnCalls
       DEF ReceiveReply, RegistrationCall, Registration, Whole, Inductive, TypeOK
  <2> QED
    BY <1>2, <2>1, <2>2 DEF AckedIsOk, Told, Registration
<1> QED
  BY <1>1, <1>2, <1>3 DEF AckedIsOk

\* What a step does to a pipe of this process: only hooks add events to it.
LEMMA PipeStep ==
  ASSUME Whole, SystemNext, NEW c \in Channels, Hosted(c)
  PROVE  \/ pipe'[c] = pipe[c]
         \/ pipe'[c] \in {<<>>, <<Hello>>}
         \/ pipe[c] # <<>> /\ pipe'[c] = Tail(pipe[c])
         \/ \E x \in ran' \cap Methods :
                hooked[x] # 0 /\ pipe'[c] = Append(pipe[c], Operand(hooked[x]))
<1> USE DEF clientVars, registryVars, Whole, Inductive, TypeOK
<1>1. CASE Host
  BY <1>1 DEF Host, AskConfig, GetsConfig, HostAlone, Registers, Fails, SendCall,
       ReceiveReply, CallFails, Unavailable, vars
<1>2. ASSUME NEW x \in Methods, FirstHook(x) \/ HookReports(x)
      PROVE  \/ pipe'[c] = pipe[c]
             \/ pipe'[c] = <<Hello>>
             \/ \E y \in ran' \cap Methods :
                    hooked[y] # 0 /\ pipe'[c] = Append(pipe[c], Operand(hooked[y]))
  <2>1. CASE FirstHook(x)
    BY <2>1 DEF FirstHook, OpenPipe
  <2>2. CASE HookReports(x)
    <3>1. hooked[x] # 0 /\ x \in ran'
      BY <2>2 DEF HookReports, CanRun
    <3> QED
      BY <2>2, <3>1 DEF HookReports, SendEvent
  <2> QED
    BY <1>2, <2>1, <2>2
<1>3. CASE \E r \in Calls : Stores(r)
  BY <1>3 DEF Stores, Serve
<1>4. CASE ServerAlone
  <2>1. ASSUME NEW d \in Channels, Dispatch(d) \/ PipeBreaks(d)
        PROVE  \/ pipe'[c] = pipe[c]
               \/ pipe'[c] = <<>>
               \/ pipe[c] # <<>> /\ pipe'[c] = Tail(pipe[c])
    BY <2>1 DEF Dispatch, DispatchHello, DispatchEvent, CanDispatch, Take, PipeBreaks
  <2> QED
    BY <1>4, <2>1
       DEF ServerAlone, Manager, Start, Stop, StopReturns, Process, StartProcess, Crash,
           AcceptCall, CreateSession, Serve, RefusedUnheard, Unavailable, Dispatcher,
           DispatcherLookup, DispatcherCreates, SetCallback, PrintEvent
<1>5. CASE Others
  <2>1. ASSUME NEW d \in Channels, ~Hosted(d), Pipe(d)
        PROVE  pipe'[c] = pipe[c]
    BY <2>1 DEF Pipe, OpenPipe, SendEvent, PipeBreaks, Dispatch, DispatchHello,
         DispatchEvent, Take
  <2> QED
    BY <1>5, <2>1
       DEF Others, Call, SendCall, ReceiveReply, CallFails, Unavailable, AcceptCall,
           CreateSession, Serve
<1> QED
  BY <1>1, <1>2, <1>3, <1>4, <1>5 DEF SystemNext

\* What a step does to the dispatcher: it works on the first message of a pipe.
LEMMA WcfStep ==
  ASSUME Whole, SystemNext, wcf'.pc # "idle"
  PROVE  \/ wcf.pc # "idle" /\ wcf'.chan = wcf.chan /\ wcf'.msg = wcf.msg
         \/ \E c \in Channels :
                pipe[c] # <<>> /\ wcf'.chan = c /\ wcf'.msg = Head(pipe[c])
<1> USE DEF clientVars, registryVars
<1>1. CASE UNCHANGED wcf
  BY <1>1
<1>2. ASSUME NEW c \in Channels, Dispatch(c), wcf' # wcf
      PROVE  pipe[c] # <<>> /\ wcf'.chan = c /\ wcf'.msg = Head(pipe[c])
  BY <1>2 DEF Dispatch, DispatchHello, DispatchEvent, CanDispatch, Busy
<1>3. CASE DispatcherLookup \/ DispatcherCreates
  <2>1. wcf \in BusyStates
    BY <1>3, BusyDispatcher DEF DispatcherLookup, DispatcherCreates, Whole, Inductive
  <2> QED
    BY <1>3, <2>1 DEF DispatcherLookup, DispatcherCreates, BusyStates
<1>4. CASE SetCallback \/ PrintEvent
  BY <1>4 DEF SetCallback, PrintEvent, Idle
<1>5. UNCHANGED wcf \/ Dispatcher \/ \E c \in Channels : Dispatch(c)
  <2>1. CASE Host
    BY <2>1 DEF Host, AskConfig, GetsConfig, HostAlone, Registers, Fails, SendCall,
         ReceiveReply, CallFails, Unavailable, vars
  <2>2. CASE \E x \in Methods : FirstHook(x) \/ HookReports(x)
    BY <2>2 DEF FirstHook, HookReports, OpenPipe, SendEvent
  <2>3. CASE \E r \in Calls : Stores(r)
    BY <2>3 DEF Stores, Serve
  <2>4. CASE ServerAlone
    BY <2>4 DEF ServerAlone, Manager, Start, Stop, StopReturns, Process, StartProcess, Crash,
         AcceptCall, CreateSession, Serve, RefusedUnheard, Unavailable, PipeBreaks
  <2>5. CASE Others
    BY <2>5 DEF Others, Call, Pipe, SendCall, ReceiveReply, CallFails, Unavailable,
         AcceptCall, CreateSession, Serve, OpenPipe, SendEvent, PipeBreaks
  <2> QED
    BY <2>1, <2>2, <2>3, <2>4, <2>5 DEF SystemNext
<1> QED
  BY <1>1, <1>2, <1>3, <1>4, <1>5 DEF Dispatcher

\* An event comes from a hook, wherever it is on its way to the console.
LEMMA EventsStep ==
  ASSUME Whole, SystemNext
  PROVE  EventsAreSent'
<1>1. Sent \subseteq Sent'
  BY RanStep
<1>2. ASSUME NEW c \in Channels, Hosted(c), NEW i \in 1 .. Len(pipe'[c]), pipe'[c][i] # Hello
      PROVE  pipe'[c][i] \in Sent'
  <2>1. \A j \in 1 .. Len(pipe[c]) : pipe[c][j] # Hello => pipe[c][j] \in Sent'
    BY <1>1, <1>2 DEF Whole, Joint, EventsAreSent
  <2>2. CASE pipe'[c] = pipe[c]
    BY <1>2, <2>1, <2>2
  <2>3. CASE pipe'[c] \in {<<>>, <<Hello>>}
    BY <1>2, <2>3
  <2>4. CASE pipe[c] # <<>> /\ pipe'[c] = Tail(pipe[c])
    <3>1. i + 1 \in 1 .. Len(pipe[c]) /\ pipe'[c][i] = pipe[c][i + 1]
      BY <2>4, TakeFromPipe DEF Whole, Inductive
    <3> QED
      BY <1>2, <2>1, <3>1
  <2>5. ASSUME NEW x \in ran' \cap Methods, hooked[x] # 0,
               pipe'[c] = Append(pipe[c], Operand(hooked[x]))
        PROVE  pipe'[c][i] \in Sent'
    <3>1. Operand(hooked[x]) \in Sent'
      BY <2>5, HalvesStep DEF Kept, Sent
    <3>2. pipe[c] \in Seq(Tokens \cup {Hello})
      BY DEF Whole, Inductive, TypeOK
    <3>3. pipe'[c][i] = Operand(hooked[x])
            \/ (i \in 1 .. Len(pipe[c]) /\ pipe'[c][i] = pipe[c][i])
      BY <2>5, <3>2
    <3> QED
      BY <1>2, <2>1, <3>1, <3>3
  <2> QED
    BY <1>2, <2>2, <2>3, <2>4, <2>5, PipeStep
<1>3. ASSUME wcf'.pc # "idle", wcf'.msg # Hello, Hosted(wcf'.chan)
      PROVE  wcf'.msg \in Sent'
  <2>1. CASE wcf.pc # "idle" /\ wcf'.chan = wcf.chan /\ wcf'.msg = wcf.msg
    BY <1>1, <1>3, <2>1 DEF Whole, Joint, EventsAreSent
  <2>2. ASSUME NEW c \in Channels, pipe[c] # <<>>, wcf'.chan = c, wcf'.msg = Head(pipe[c])
        PROVE  wcf'.msg \in Sent'
    <3>1. 1 \in 1 .. Len(pipe[c]) /\ wcf'.msg = pipe[c][1]
      BY <2>2, TakeFromPipe DEF Whole, Inductive
    <3> QED
      BY <1>1, <1>3, <2>2, <3>1 DEF Whole, Joint, EventsAreSent
  <2> QED
    BY <1>3, <2>1, <2>2, WcfStep
<1>4. ASSUME NEW e \in printed', Hosted(e.chan)
      PROVE  e.token \in Sent'
  <2>1. CASE UNCHANGED printed
    BY <1>1, <1>4, <2>1 DEF Whole, Joint, EventsAreSent
  <2>2. CASE PrintEvent
    BY <1>1, <1>4, <2>2 DEF PrintEvent, Whole, Joint, EventsAreSent
  <2> QED
    BY <2>1, <2>2, PrintedStep
<1> QED
  BY <1>2, <1>3, <1>4 DEF EventsAreSent

\* A pid goes on to its next incarnation, never back.
LEMMA PidsMoveOn ==
  ASSUME Whole, SystemNext
  PROVE  \A p \in Pids : inc[p] \in Nat /\ inc'[p] \in Nat /\ inc[p] <= inc'[p]
<1> USE DEF clientVars, registryVars
<1>0. [Next]_vars
  BY ServerHalf DEF Whole
<1>1. \A p \in Pids : inc[p] \in Nat
  BY BoundAssumption DEF Whole, Inductive, TypeOK
<1>2. ASSUME NEW q \in Pids, StartProcess(q)
      PROVE  \A p \in Pids : inc'[p] = inc[p] \/ inc'[p] = inc[p] + 1
  BY <1>2 DEF StartProcess, Whole, Inductive, TypeOK
<1>3. UNCHANGED inc \/ \E q \in Pids : StartProcess(q)
  BY <1>0
     DEF Next, vars, Manager, Start, Stop, StopReturns, Process, Crash, Call, SendCall,
         ReceiveReply, CallFails, Unavailable, AcceptCall, CreateSession, Serve, Pipe,
         OpenPipe, PipeBreaks, SendEvent, Dispatch, DispatchHello, DispatchEvent,
         Dispatcher, DispatcherLookup, DispatcherCreates, SetCallback, PrintEvent
<1> QED
  BY <1>1, <1>2, <1>3

\* A call begins in the latest process of its pid.
LEMMA BegunStep ==
  ASSUME Whole, SystemNext
  PROVE  CallersBegun'
<1> USE DEF clientVars, registryVars
<1>0. [Next]_vars
  BY ServerHalf DEF Whole
<1>1. \A p \in Pids : inc[p] \in Nat /\ inc'[p] \in Nat /\ inc[p] <= inc'[p]
  BY PidsMoveOn
<1>2. ASSUME NEW r \in Calls, stage'[r] # "none"
      PROVE  r.inc <= inc'[r.pid]
  <2>1. r.pid \in Pids /\ r.inc \in Nat
    BY BoundAssumption DEF Calls, Incarnations
  <2>2. CASE stage[r] # "none"
    BY <1>1, <2>1, <2>2 DEF Whole, Joint, CallersBegun
  <2>3. CASE stage[r] = "none"
    <3>1. SendCall(r)
      BY <1>0, <1>2, <2>3
         DEF Next, vars, Manager, Start, Stop, StopReturns, Process, StartProcess, Crash,
             Call, SendCall, ReceiveReply, CallFails, Unavailable, AcceptCall,
             CreateSession, Serve, Pipe, OpenPipe, PipeBreaks, SendEvent, Dispatch,
             DispatchHello, DispatchEvent, Dispatcher, DispatcherLookup,
             DispatcherCreates, SetCallback, PrintEvent, Whole, Inductive, TypeOK
    <3> QED
      BY <1>1, <2>1, <3>1 DEF SendCall, Alive
  <2> QED
    BY <2>2, <2>3
<1>3. ASSUME NEW s \in Sessions, NEW t \in Tokens, meta'[s][t] # None
      PROVE  meta'[s][t].inc <= inc'[meta'[s][t].pid]
  <2>1. meta[s][t] # None => meta[s][t].pid \in Pids /\ meta[s][t].inc \in Nat
    BY BoundAssumption DEF Whole, Inductive, TypeOK, Calls, Incarnations
  <2>2. CASE meta'[s][t] = meta[s][t]
    BY <1>1, <1>3, <2>1, <2>2 DEF Whole, Joint, CallersBegun
  <2>3. ASSUME NEW r \in Calls, Serve(r)
        PROVE  meta'[s][t] = meta[s][t] \/ (meta'[s][t] = r /\ stage'[r] # "none")
    BY <2>3 DEF Serve, Whole, Inductive, TypeOK
  <2> QED
    BY <1>2, <2>2, <2>3, MetaStep
<1> QED
  BY <1>2, <1>3 DEF CallersBegun

\* Joint is inductive, with the invariants of the halves.
LEMMA WholeStep ==
  ASSUME Whole, [SystemNext]_systemVars
  PROVE  Whole'
<1>1. CASE SystemNext
  <2>1. Joint'
    BY <1>1, CounterStep, RanStep, StoredStep, AckedStep, EventsStep, BegunStep
       DEF Joint
  <2> QED
    BY <1>1, <2>1, HalvesStep DEF Whole
<1>2. CASE UNCHANGED systemVars
  <2>1. UNCHANGED hostVars /\ UNCHANGED vars /\ UNCHANGED ran
    BY <1>2 DEF systemVars
  <2>2. HostInductive' /\ OneTokenPerMethod' /\ Inductive' /\ Traced'
    BY <2>1, NextInductive, OneTokenStep, StepKeeps, TracedStep DEF Whole
  <2>3. Joint'
    BY <2>1 DEF hostVars, vars, Whole, Joint, StoredIsTold, AckedIsOk, EventsAreSent,
         CallersBegun, Told, Sent
  <2> QED
    BY <2>2, <2>3 DEF Whole
<1> QED
  BY <1>1, <1>2

LEMMA WholeInit == SystemInit => Whole
<1> SUFFICES ASSUME SystemInit PROVE Whole
  OBVIOUS
<1>1. HostInit /\ Init /\ ran = {}
  BY DEF SystemInit
<1>2. HostInductive /\ OneTokenPerMethod /\ Inductive /\ Traced
  BY <1>1, InitInductive, OneTokenInit, InitHolds, TracedInit
<1>3. Joint
  BY <1>1 DEF HostInit, Init, Joint, StoredIsTold, AckedIsOk, EventsAreSent,
       CallersBegun, Idle
<1> QED
  BY <1>2, <1>3 DEF Whole

-----------------------------------------------------------------------------
(* The contract.                                                           *)

\* A set of registrations that gives a token to one method describes the token
\* by that method.
LEMMA DescriptionUnique ==
  ASSUME NEW R \in SUBSET Registrations, \A g, h \in R : g.token = h.token => g = h,
         NEW t, NEW g \in R, g.token = t
  PROVE  MethodOf(R, t) = g.method
<1>1. g = [token |-> t, method |-> g.method] /\ g.method \in Methods
  BY DEF Registrations
<1>2. ASSUME NEW x \in Methods, [token |-> t, method |-> x] \in R
      PROVE  x = g.method
  <2>1. [token |-> t, method |-> x] = g
    BY <1>2
  <2> QED
    BY <2>1
<1> QED
  BY <1>1, <1>2 DEF MethodOf

\* The server's registrations, one method to a token and one token to a method.
LEMMA ServedUnique ==
  ASSUME Whole
  PROVE  /\ served \in SUBSET Registrations
         /\ \A g, h \in served : g.token = h.token => g = h
         /\ \A g \in served, x \in Methods :
                hooked[x] # 0 => (g.method = x <=> g.token = hooked[x])
<1>1. served \subseteq Claims /\ \A x \in Methods : hooked[x] # 0 => Hook(x) \in Claims
  BY DEF Claims
<1>2. \A x \in Methods : Hook(x).method = x /\ Hook(x).token = hooked[x]
  BY DEF Hook
<1>3. \A g, h \in Claims : (g.token = h.token => g = h) /\ (g.method = h.method => g = h)
  BY DEF Whole, HostInductive, ClaimsAgree, OneTokenPerMethod
<1>4. served \in SUBSET Registrations
  BY DEF Whole, HostInductive, HostTypeOK
<1>5. ASSUME NEW g \in served, NEW x \in Methods, hooked[x] # 0
      PROVE  g.method = x <=> g.token = hooked[x]
  BY <1>1, <1>2, <1>3, <1>5
<1> QED
  BY <1>1, <1>3, <1>4, <1>5

\* A line that is printed names the same method for ever.
LEMMA LinesStay ==
  ASSUME Whole, SystemNext, NEW e \in printed
  PROVE  Named(e)' = Named(e)
<1>1. CASE e.by = None \/ ~Hosted(e.by)
  BY <1>1 DEF Named, Hosted
<1>2. CASE e.by # None /\ Hosted(e.by)
  <2>1. PICK g \in served : g.token = e.by.token
    BY <1>2 DEF Whole, Joint, StoredIsTold, Told
  <2>2. Whole'
    BY WholeStep
  <2>3. g \in served'
    BY HalvesStep DEF Kept
  <2>4. /\ served \in SUBSET Registrations /\ served' \in SUBSET Registrations
        /\ \A f, h \in served : f.token = h.token => f = h
        /\ \A f, h \in served' : f.token = h.token => f = h
    <3>1. \A f, h \in served' : f.token = h.token => f = h
      BY <2>2 DEF Whole, HostInductive, ClaimsAgree, Claims
    <3>2. served' \in SUBSET Registrations
      BY <2>2 DEF Whole, HostInductive, HostTypeOK, Registrations
    <3> QED
      BY <3>1, <3>2, ServedUnique
  <2>5. MethodOf(served, e.by.token) = g.method
    BY <2>1, <2>4, DescriptionUnique
  <2>6. MethodOf(served', e.by.token) = g.method
    BY <2>1, <2>3, <2>4, DescriptionUnique
  <2> QED
    BY <1>2, <2>5, <2>6 DEF Named, Described, Hosted
<1> QED
  BY <1>1, <1>2

\* Where nothing is printed, the lines stay as they are.
LEMMA LinesSame ==
  ASSUME Whole, SystemNext, UNCHANGED printed
  PROVE  UNCHANGED Lines
<1>1. \A e \in printed : Named(e)' = Named(e)
  BY LinesStay
<1> QED
  BY <1>1 DEF Lines, Hosted

\* Who is mixed up with this process stays so.
LEMMA MixedStays ==
  ASSUME Whole, SystemNext, Mixed
  PROVE  Mixed'
<1>1. InductiveAmong(Calls) /\ [Next]_vars
  BY ServerHalf, AmongAll DEF Whole
<1>2. CASE \E c \in Channels : Hosted(c) /\ Mingled(c)
  BY <1>1, <1>2, SinceGrows DEF Mixed, Hosted
<1>3. CASE inc[Target] > 1
  <2>1. inc[Target] \in Nat /\ inc'[Target] \in Nat /\ inc[Target] <= inc'[Target]
    BY PidsMoveOn, TargetAssumption
  <2> QED
    BY <1>3, <2>1 DEF Mixed
<1> QED
  BY <1>2, <1>3 DEF Mixed

\* Only the server and the other processes can mix processes up.
LEMMA MixedSame ==
  ASSUME Host \/ (\E x \in Methods : FirstHook(x) \/ HookReports(x))
              \/ (\E r \in Calls : Stores(r))
  PROVE  UNCHANGED Mixed
<1> USE DEF clientVars, registryVars
<1>1. CASE Host
  BY <1>1 DEF Host, AskConfig, GetsConfig, HostAlone, Registers, Fails, SendCall,
       ReceiveReply, CallFails, Unavailable, vars, Mixed, Mingled, Hosted
<1>2. CASE \E x \in Methods : FirstHook(x) \/ HookReports(x)
  BY <1>2 DEF FirstHook, HookReports, OpenPipe, SendEvent, Mixed, Mingled, Hosted
<1>3. CASE \E r \in Calls : Stores(r)
  BY <1>3 DEF Stores, Serve, Mixed, Mingled, Hosted
<1> QED
  BY <1>1, <1>2, <1>3

\* The native profiler's own steps: the contract sees the registration that
\* returns, which is of a method without hooks.
LEMMA HostImplements ==
  ASSUME Whole, Host
  PROVE  [Contract!Next]_(Contract!contractVars)
<1>1. SystemNext /\ UNCHANGED ran
  BY DEF SystemNext, Host
<1>2. UNCHANGED printed
  BY DEF Host, AskConfig, GetsConfig, HostAlone, Registers, Fails, SendCall, ReceiveReply,
       CallFails, Unavailable, vars
<1>3. UNCHANGED Lines
  BY <1>1, <1>2, LinesSame
<1>4. UNCHANGED served
  BY DEF Host, AskConfig, GetsConfig, HostAlone, Registers, CallbackAlone, hostVars,
       GetProfilingConfig, Initialize, ModuleLoadFinished, AddProfilerCoreReferences,
       AddHookBridgeType, InstrumentMethods, IssueToken, BuyNode, LinkHead, LinkPrev,
       InjectEnterExitHooks, ComError, OnMethodRegistered, RegisterMethodReturns,
       RegisterMethodFails, serverVars
<1>5. \/ UNCHANGED acked
      \/ \E th \in Threads : RegisterMethodReturns(th)
  BY DEF Host, AskConfig, GetsConfig, HostAlone, Registers, CallbackAlone, hostVars,
       GetProfilingConfig, Initialize, ModuleLoadFinished, AddProfilerCoreReferences,
       AddHookBridgeType, InstrumentMethods, IssueToken, BuyNode, LinkHead, LinkPrev,
       InjectEnterExitHooks, ComError, OnMethodRegistered, RegisterMethodFails, serverVars
<1>6. CASE UNCHANGED acked
  BY <1>1, <1>3, <1>4, <1>6, MixedSame DEF Known, Confirmed, Contract!contractVars
<1>7. ASSUME NEW th \in Threads, RegisterMethodReturns(th)
      PROVE  Contract!Next
  <2>1. /\ Registration(th) \in served
        /\ acked' = acked \cup {token[th]}
        /\ pc[th] = "await"
    BY <1>7 DEF RegisterMethodReturns, At
  <2>2. method[th] \in Methods /\ hooked[method[th]] = 0
    BY <2>1 DEF Whole, HostInductive, HostTypeOK, TodoIsLeft, LeftTo, Looping, Registering
  <2>3. method[th] \in Known \ ran
    BY <2>1, <2>2 DEF Known, Registration, Whole, Joint
  <2>4. \A g \in served : g.token = token[th] => g.method = method[th]
    BY <2>1, ServedUnique DEF Registration
  <2>5. Confirmed' = Confirmed \cup {method[th]}
    BY <1>4, <2>1, <2>2, <2>4 DEF Confirmed, Registration
  <2>6. UNCHANGED Known
    BY <1>4 DEF Known
  <2> QED
    BY <1>1, <1>3, <2>2, <2>3, <2>5, <2>6, MixedSame DEF Contract!Next, Contract!Confirm
<1> QED
  BY <1>5, <1>6, <1>7

\* The server's end of a registration tells it of a method; it confirms none
\* yet, since no earlier call has used the token.
LEMMA StoresImplements ==
  ASSUME Whole, NEW r \in Calls, Stores(r)
  PROVE  [Contract!Next]_(Contract!contractVars)
<1>1. SystemNext /\ UNCHANGED <<ran, printed>>
  BY DEF SystemNext, Stores, Serve
<1>2. PICK g \in wire : ServerHandles(g)
  BY DEF Stores
<1>3. served' = served \cup {g} /\ UNCHANGED acked
  BY <1>2 DEF ServerHandles
<1>4. UNCHANGED Lines
  BY <1>1, LinesSame
<1>5. g.method \in Methods
  BY DEF Whole, HostInductive, HostTypeOK, Registrations
<1>6. Known' = Known \cup {g.method}
  BY <1>3, <1>5 DEF Known
<1>7. g.token \in acked => g \in served
  <2>1. \A h \in served : h.token = g.token => h = g
    BY DEF Whole, HostInductive, ClaimsAgree, Claims
  <2> QED
    BY <2>1 DEF Whole, Joint, AckedIsOk, Told
<1>8. UNCHANGED Confirmed
  BY <1>3, <1>7 DEF Confirmed
<1> QED
  BY <1>1, <1>4, <1>5, <1>6, <1>8, MixedSame DEF Contract!Next, Contract!Tell

\* A hook that reports.
LEMMA HookImplements ==
  ASSUME Whole, NEW x \in Methods, FirstHook(x) \/ HookReports(x)
  PROVE  [Contract!Next]_(Contract!contractVars)
<1>1. SystemNext /\ UNCHANGED <<hostVars, printed>>
  BY DEF SystemNext, FirstHook, HookReports, OpenPipe, SendEvent
<1>2. UNCHANGED <<Known, Confirmed, Lines>>
  BY <1>1, LinesSame DEF Known, Confirmed, hostVars
<1>3. UNCHANGED ran \/ ran' = ran \cup {x}
  BY DEF FirstHook, HookReports
<1> QED
  BY <1>2, <1>3, MixedSame DEF Contract!Next, Contract!Run, Contract!contractVars

\* A description that is not of this process is of one it is mixed up with.
LEMMA ForeignMixed ==
  ASSUME Whole, PrintEvent, Hosted(wcf.chan),
         Resolve(wcf.sess, wcf.msg) # None, ~Hosted(Resolve(wcf.sess, wcf.msg))
  PROVE  Mixed
<1> DEFINE r == Resolve(wcf.sess, wcf.msg)
<1>1. wcf.sess \in Sessions /\ wcf.msg \in Tokens /\ wcf.chan \in Channels
  BY BusyDispatcher
     DEF PrintEvent, Whole, Inductive, BusyStates, NoSplitSession, NoSplitAmong
<1>2. r \in Calls /\ r.inc <= inc[r.pid]
  BY <1>1 DEF Resolve, Whole, Inductive, TypeOK, Joint, CallersBegun
<1>3. r.pid \in since[wcf.chan]
  BY PrintedRight, AmongAll DEF Whole
<1>4. CASE r.pid # Target
  BY <1>1, <1>3, <1>4 DEF Mixed, Mingled, Hosted
<1>5. CASE r.pid = Target
  <2>1. r.inc \in Nat /\ r.inc >= 1 /\ r.inc # 1 /\ inc[Target] \in Nat
    BY <1>2, <1>5, BoundAssumption, TargetAssumption
       DEF Hosted, Calls, Incarnations, Whole, Inductive, TypeOK
  <2>2. inc[Target] > 1
    BY <1>2, <1>5, <2>1
  <2> QED
    BY <2>2 DEF Mixed
<1> QED
  BY <1>4, <1>5

\* An acknowledged method without a description is one of a mixed-up process.
LEMMA UnknownMixed ==
  ASSUME Whole, PrintEvent, Hosted(wcf.chan), Resolve(wcf.sess, wcf.msg) = None
  PROVE  wcf.msg \notin acked \/ Mixed
<1>1. wcf.chan \in Channels /\ MethodCall(wcf.chan, wcf.msg) \in Calls
  BY BusyDispatcher DEF PrintEvent, Whole, Inductive, BusyStates, MethodCall, Calls, Channels
<1>2. status[MethodCall(wcf.chan, wcf.msg)] # "ok" \/ Mingled(wcf.chan)
  BY <1>1, PrintedRight, AmongAll DEF Whole
<1>3. MethodCall(wcf.chan, wcf.msg) = MethodCall(ThisProcess, wcf.msg)
  BY DEF Hosted, MethodCall, ThisProcess
<1>4. CASE Mingled(wcf.chan)
  BY <1>1, <1>4 DEF Mixed
<1>5. CASE status[MethodCall(wcf.chan, wcf.msg)] # "ok"
  BY <1>3, <1>5 DEF Whole, Joint, AckedIsOk
<1> QED
  BY <1>2, <1>4, <1>5

\* A line names the method whose hook ran, or nothing if the server had never
\* acknowledged it; unless the process is mixed up with another.
LEMMA PrintImplements ==
  ASSUME TokensFit, Whole, SystemNext, PrintEvent, UNCHANGED <<hostVars, ran>>
  PROVE  [Contract!Next]_(Contract!contractVars)
<1> DEFINE e == [chan |-> wcf.chan, token |-> wcf.msg, by |-> Resolve(wcf.sess, wcf.msg)]
<1>1. printed' = printed \cup {e}
  BY DEF PrintEvent
<1>2. UNCHANGED <<Known, Confirmed>> /\ UNCHANGED ran
  BY DEF Known, Confirmed, hostVars
<1>0. UNCHANGED Mixed
  BY DEF PrintEvent, clientVars, registryVars, Mixed, Mingled, Hosted
<1>3. \A f : Named(f)' = Named(f)
  BY DEF Named, Described, hostVars, Hosted
<1>4. CASE ~Hosted(wcf.chan)
  <2>1. UNCHANGED Lines
    BY <1>1, <1>3, <1>4 DEF Lines
  <2> QED
    BY <1>0, <1>2, <2>1 DEF Contract!contractVars
<1>5. CASE Hosted(wcf.chan)
  <2>1. Lines' = Lines \cup {Named(e)}
    BY <1>1, <1>3, <1>5 DEF Lines
  <2>2. PICK x \in ran : Operand(hooked[x]) = wcf.msg
    BY <1>5 DEF PrintEvent, Whole, Joint, EventsAreSent, Sent
  <2>3. x \in Methods /\ hooked[x] # 0 /\ hooked[x] = wcf.msg
    <3>1. x \in Methods /\ hooked[x] # 0 /\ hooked[x] \in Tokens
      BY OwnCalls DEF Whole, Joint
    <3>2. hooked[x] \in Nat /\ hooked[x] < OperandValues /\ OperandValues \in Nat \ {0}
      BY <3>1, TargetAssumption DEF TokensFit
    <3>3. hooked[x] % OperandValues = hooked[x]
      BY <3>2
    <3> QED
      BY <2>2, <3>1, <3>3 DEF Operand
  <2>4. CASE e.by = None
    <3>1. wcf.msg \notin acked \/ Mixed
      BY <1>5, <2>4, UnknownMixed
    <3>2. \A g \in served : g.method = x => g.token = wcf.msg
      BY <2>3, ServedUnique
    <3>3. Mixed \/ x \notin Confirmed
      BY <3>1, <3>2 DEF Confirmed
    <3>4. Named(e) = None
      BY <2>4 DEF Named
    <3> QED
      BY <1>0, <1>2, <2>1, <2>2, <3>3, <3>4 DEF Contract!Next, Contract!NameUnknown
  <2>5. CASE e.by # None /\ ~Hosted(e.by)
    <3>1. Mixed
      BY <1>5, <2>5, ForeignMixed
    <3>2. Named(e) = "foreign"
      BY <2>5 DEF Named
    <3> QED
      BY <1>0, <1>2, <2>1, <3>1, <3>2 DEF Contract!Next, Contract!NameForeign
  <2>6. CASE e.by # None /\ Hosted(e.by)
    <3>1. e.by.token = wcf.msg
      BY <2>6, PrintedRight, AmongAll DEF Whole
    <3>2. wcf.sess \in Sessions /\ wcf.msg \in Tokens
      BY BusyDispatcher
         DEF PrintEvent, Whole, Inductive, BusyStates, NoSplitSession, NoSplitAmong
    <3>3. PICK g \in served : g.token = wcf.msg
      BY <2>6, <3>1, <3>2 DEF Whole, Joint, StoredIsTold, Told, Resolve
    <3>4. g.method = x
      BY <2>3, <3>3, ServedUnique
    <3>5. Named(e) = x
      BY <2>6, <3>1, <3>3, <3>4, ServedUnique, DescriptionUnique DEF Named, Described
    <3>6. x \in Known
      BY <2>3, <3>3, <3>4 DEF Known
    <3> QED
      BY <1>0, <1>2, <2>1, <2>2, <2>3, <3>5, <3>6 DEF Contract!Next, Contract!Name
  <2> QED
    BY <2>4, <2>5, <2>6
<1> QED
  BY <1>4, <1>5

\* Every step of the system is a step of the contract, or none.
LEMMA StepImplements ==
  ASSUME TokensFit, Whole, [SystemNext]_systemVars
  PROVE  [Contract!Next]_(Contract!contractVars)
<1>1. CASE Host \/ (\E x \in Methods : FirstHook(x) \/ HookReports(x))
               \/ (\E r \in Calls : Stores(r))
  BY <1>1, HostImplements, HookImplements, StoresImplements
<1>2. CASE SystemNext /\ UNCHANGED <<hostVars, ran>>
  <2>1. CASE UNCHANGED printed
    <3>1. UNCHANGED <<Known, Confirmed, Lines, ran>>
      BY <1>2, <2>1, LinesSame DEF Known, Confirmed, hostVars
    <3>2. CASE UNCHANGED Mixed
      BY <3>1, <3>2 DEF Contract!contractVars
    <3>3. CASE Mixed' = TRUE
      BY <3>1, <3>3 DEF Contract!Next, Contract!Mix
    <3>4. UNCHANGED Mixed \/ Mixed' = TRUE
      BY <1>2, MixedStays DEF Mixed
    <3> QED
      BY <3>2, <3>3, <3>4
  <2>2. CASE PrintEvent
    BY <1>2, <2>2, PrintImplements
  <2> QED
    BY <1>2, <2>1, <2>2, PrintedStep
<1>3. CASE UNCHANGED systemVars
  BY <1>3 DEF systemVars, hostVars, vars, Known, Confirmed, Lines, Named, Described, Hosted,
       Mixed, Mingled, Contract!contractVars
<1> QED
  BY <1>1, <1>2, <1>3 DEF SystemNext

\* At first nothing is known, run or printed.
LEMMA InitImplements == SystemInit => Contract!Init
<1> SUFFICES ASSUME SystemInit PROVE Contract!Init
  OBVIOUS
<1>1. Known = {} /\ Confirmed = {} /\ ran = {} /\ Lines = {}
  BY DEF SystemInit, HostInit, Init, Known, Confirmed, Lines
<1>2. inc[Target] = 0 /\ \A c \in Channels : ~Mingled(c)
  BY TargetAssumption DEF SystemInit, Init, Mingled
<1>3. ~Mixed
  BY <1>2 DEF Mixed
<1>4. Mixed = FALSE
  BY <1>3 DEF Mixed
<1> QED
  BY <1>1, <1>4 DEF Contract!Init

\* Each half does what its own specification says, among whatever partners:
\* what is proved of the halves holds of the system.
THEOREM HalvesKept == SystemSpec => HostSpec /\ Spec
<1>1. Whole /\ [SystemNext]_systemVars => Whole' /\ [HostNext]_hostVars /\ [Next]_vars
  <2> SUFFICES ASSUME Whole, [SystemNext]_systemVars
               PROVE  Whole' /\ [HostNext]_hostVars /\ [Next]_vars
    OBVIOUS
  <2>1. CASE SystemNext
    BY <2>1, WholeStep, HostHalf, ServerHalf DEF Whole
  <2>2. CASE UNCHANGED systemVars
    BY <2>2, WholeStep DEF systemVars
  <2> QED
    BY <2>1, <2>2
<1>2. SystemInit => HostInit /\ Init
  BY DEF SystemInit
<1> QED
  BY <1>1, <1>2, WholeInit, PTL DEF SystemSpec, HostSpec, Spec

\* What ties the halves together, invariantly.
THEOREM SystemJoint == SystemSpec => []Joint
<1>1. Whole /\ [SystemNext]_systemVars => Whole'
  BY WholeStep
<1>2. Whole => Joint
  BY DEF Whole
<1> QED
  BY <1>1, <1>2, WholeInit, PTL DEF SystemSpec

\* The contract of profiling, from a method's hook to the line that names it:
\* kept by the profiler, the two wires and the server together, beside whatever
\* other processes, as long as tokens fit the operand of an ldc.i4.
THEOREM ContractKept ==
  ASSUME TokensFit
  PROVE  SystemSpec => KeepsContract
<1>1. Whole /\ [SystemNext]_systemVars =>
          Whole' /\ [Contract!Next]_(Contract!contractVars)
  BY WholeStep, StepImplements
<1> QED
  BY <1>1, WholeInit, InitImplements, PTL DEF SystemSpec, KeepsContract, Contract!Spec

=============================================================================
