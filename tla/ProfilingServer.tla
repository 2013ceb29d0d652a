------------------------------ MODULE ProfilingServer ------------------------------
(***************************************************************************)
(* The profiling server (ProfilerCore) and the two wires that feed it.     *)
(*                                                                         *)
(* A profiled process talks to the server over a gRPC channel, on which    *)
(* HostIpcService serves GetProfilingConfig and RegisterMethod on pool     *)
(* threads, and over one WCF named pipe per AppDomain, on which the single *)
(* ProfilerService instance dispatches one message at a time.  Both find   *)
(* their ProfilingSession through SessionRegistry, whose GetOrAdd is not   *)
(* atomic: two callers that miss both build a session and one of them is   *)
(* thrown away.                                                            *)
(*                                                                         *)
(* A process is a pid and an incarnation of it: the operating system       *)
(* reuses pids and the server never removes a session.                     *)
(*                                                                         *)
(* ProfilerService keys its table of senders by the RemoteAddress of a     *)
(* duplex net.pipe channel.  Such a client listens nowhere, and the server *)
(* sees one anonymous address for all of them: the table has one entry,    *)
(* and it names whichever process has announced itself last.               *)
(***************************************************************************)
EXTENDS Naturals, Sequences

CONSTANTS
    Pids,             \* process identifiers
    Tokens,           \* method tokens a process registers
    Domains,          \* AppDomains of a process, each with a pipe of its own
    MaxIncarnations,  \* bound: how often a pid is reused
    MaxQueue,         \* bound: messages waiting in a pipe
    MayFail,          \* bound: the calls that may fail in the client
    Config,           \* the GetProfilingConfig call, as opposed to a token
    Hello,            \* the RegisterClient message, as opposed to a token
    None

Incarnations == 1 .. MaxIncarnations
Calls        == [pid : Pids, inc : Incarnations, token : Tokens \cup {Config}]
Channels     == [pid : Pids, inc : Incarnations, dom : Domains]

\* A session object is named after the call or the pipe on whose behalf it
\* was constructed; each of them constructs at most one.
Sessions == Calls \cup Channels

\* Operators named Wrong... are plausible mistakes in the code: each replaces
\* the definition it precedes to show that a property notices.

ASSUME NullAssumption ==
    /\ None \notin Sessions \cup Pids
    /\ Config \notin Tokens
    /\ Hello \notin Tokens

ASSUME BoundAssumption == MaxIncarnations \in Nat /\ MaxQueue \in Nat

VARIABLES
    inc,       \* pid -> its latest incarnation (0: none yet)
    up,        \* the pids whose process is running
    status,    \* call -> what the client knows of it
    stage,     \* call -> how far the server has got with it
    held,      \* call -> the session GetOrAdd has returned to its handler
    sessions,  \* SessionRegistry.sessions
    meta,      \* session -> its MetadataRegistry: token -> the registering call
    callback,  \* session -> ProfilerServiceCallback
    endpoint,  \* ProfilerService.clientEndpointToPid, under its one key
    since,     \* history: pipe -> the pids that have announced themselves since
               \* this pipe has, its own among them (none: it has not yet)
    chan,      \* pipe -> closed, open or gone
    pipe,      \* pipe -> messages written and not yet dispatched
    wcf,       \* the one ProfilerService dispatcher
    server,    \* ProfilingManager
    printed    \* what ProfilingSession has written to the console

clientVars   == <<inc, up>>
registryVars == <<sessions, meta, callback, endpoint, since>>
vars == <<inc, up, status, stage, held, sessions, meta, callback, endpoint, since,
          chan, pipe, wcf, server, printed>>

Idle == [pc |-> "idle"]

Init ==
    /\ inc = [p \in Pids |-> 0]
    /\ up = {}
    /\ status = [r \in Calls |-> "unsent"]
    /\ stage = [r \in Calls |-> "none"]
    /\ held = [r \in Calls |-> None]
    /\ sessions = [p \in Pids |-> None]
    /\ meta = [s \in Sessions |-> [t \in Tokens |-> None]]
    /\ callback = [s \in Sessions |-> None]
    /\ endpoint = None
    /\ since = [c \in Channels |-> {}]
    /\ chan = [c \in Channels |-> "closed"]
    /\ pipe = [c \in Channels |-> <<>>]
    /\ wcf = Idle
    /\ server = "constructed"
    /\ printed = {}

-----------------------------------------------------------------------------
(* ProfilingManager: the pipe listens from construction on, gRPC only      *)
(* between Start and Stop.                                                 *)

Start ==
    /\ server = "constructed"
    /\ server' = "serving"
    /\ UNCHANGED <<clientVars, status, stage, held, registryVars, chan, pipe, wcf, printed>>

Stop ==
    /\ server = "serving"
    /\ server' = "stopping"
    /\ UNCHANGED <<clientVars, status, stage, held, registryVars, chan, pipe, wcf, printed>>

\* ShutdownAsync().Wait() returns when no handler is running any more; Main
\* then returns, and the pipe goes with the process.
Running(r) == stage[r] \in {"miss", "have"}

WrongStopReturns ==
    /\ server = "stopping"
    /\ \A r \in Calls : ~Running(r)
    /\ \A c \in Channels : chan[c] # "open"
    /\ server' = "stopped"
    /\ UNCHANGED <<clientVars, status, stage, held, registryVars, chan, pipe, wcf, printed>>

StopReturns ==
    /\ server = "stopping"
    /\ \A r \in Calls : ~Running(r)
    /\ server' = "stopped"
    /\ UNCHANGED <<clientVars, status, stage, held, registryVars, chan, pipe, wcf, printed>>

-----------------------------------------------------------------------------
(* SessionRegistry.Get, as ConcurrentDictionary.GetOrAdd executes it: a    *)
(* lock-free lookup, the value factory outside any lock, and an insertion  *)
(* that keeps what another thread has stored in the meantime.              *)

Found(p) == sessions[p] # None

WrongAdded(k, p) == k

\* What GetOrAdd returns to k when it inserts the session k has built.
Added(k, p) == IF Found(p) THEN sessions[p] ELSE k

AddIfAbsent(k, p) == sessions' = [sessions EXCEPT ![p] = Added(k, p)]

-----------------------------------------------------------------------------
(* The profiled process: a fresh one asks for its configuration from the   *)
(* profiler's constructor, then registers methods from its loader threads, *)
(* and goes on whatever the outcome of the call.                           *)

Alive(x) == x.pid \in up /\ inc[x.pid] = x.inc

Returned(r) == status[r] \in {"ok", "failed"}

ConfigCall(x) == [pid |-> x.pid, inc |-> x.inc, token |-> Config]
MethodCall(x, t) == [pid |-> x.pid, inc |-> x.inc, token |-> t]

StartProcess(p) ==
    /\ p \notin up
    /\ inc[p] < MaxIncarnations
    /\ inc' = [inc EXCEPT ![p] = @ + 1]
    /\ up' = up \cup {p}
    /\ UNCHANGED <<status, stage, held, registryVars, chan, pipe, wcf, server, printed>>

Crash(p) ==
    /\ p \in up
    /\ up' = up \ {p}
    /\ UNCHANGED <<inc, status, stage, held, registryVars, chan, pipe, wcf, server, printed>>

SendCall(r) ==
    /\ Alive(r)
    /\ status[r] = "unsent"
    /\ r.token # Config => Returned(ConfigCall(r))
    /\ status' = [status EXCEPT ![r] = "pending"]
    /\ stage' = [stage EXCEPT ![r] = "sent"]
    /\ UNCHANGED <<clientVars, held, registryVars, chan, pipe, wcf, server, printed>>

WrongReceiveReply(r) ==
    /\ Alive(r)
    /\ status[r] = "pending"
    /\ stage[r] \in {"have", "done"}
    /\ status' = [status EXCEPT ![r] = "ok"]
    /\ UNCHANGED <<clientVars, stage, held, registryVars, chan, pipe, wcf, server, printed>>

ReceiveReply(r) ==
    /\ Alive(r)
    /\ status[r] = "pending"
    /\ stage[r] = "done"
    /\ status' = [status EXCEPT ![r] = "ok"]
    /\ UNCHANGED <<clientVars, stage, held, registryVars, chan, pipe, wcf, server, printed>>

\* The connection breaks under the call.  The request may be on the wire, in
\* a handler or answered already; the handler is not stopped.
CallFails(r) ==
    /\ r.token \in MayFail
    /\ Alive(r)
    /\ status[r] = "pending"
    /\ status' = [status EXCEPT ![r] = "failed"]
    /\ UNCHANGED <<clientVars, stage, held, registryVars, chan, pipe, wcf, server, printed>>

WrongUnavailable(r) ==
    /\ server = "constructed"
    /\ stage[r] = "sent"
    /\ stage' = [stage EXCEPT ![r] = "refused"]
    /\ status' = [status EXCEPT ![r] = IF Alive(r) THEN "failed" ELSE @]
    /\ UNCHANGED <<clientVars, held, registryVars, chan, pipe, wcf, server, printed>>

\* Nobody accepts calls before Start or after Stop: UNAVAILABLE.
Unavailable(r) ==
    /\ server # "serving"
    /\ stage[r] = "sent"
    /\ stage' = [stage EXCEPT ![r] = "refused"]
    /\ status' = [status EXCEPT ![r] = IF Alive(r) THEN "failed" ELSE @]
    /\ UNCHANGED <<clientVars, held, registryVars, chan, pipe, wcf, server, printed>>

-----------------------------------------------------------------------------
(* HostIpcService: each call on a pool thread of its own.                  *)

AcceptCall(r) ==
    /\ server = "serving"
    /\ stage[r] = "sent"
    /\ held' = [held EXCEPT ![r] = sessions[r.pid]]
    /\ stage' = [stage EXCEPT ![r] = IF Found(r.pid) THEN "have" ELSE "miss"]
    /\ UNCHANGED <<clientVars, status, registryVars, chan, pipe, wcf, server, printed>>

CreateSession(r) ==
    /\ stage[r] = "miss"
    /\ AddIfAbsent(r, r.pid)
    /\ held' = [held EXCEPT ![r] = Added(r, r.pid)]
    /\ stage' = [stage EXCEPT ![r] = "have"]
    /\ UNCHANGED <<clientVars, status, meta, callback, endpoint, since, chan, pipe, wcf, server, printed>>

\* GetProfilingConfig has no effect beyond the session; RegisterMethod
\* stores the metadata in the session the handler holds.
Serve(r) ==
    /\ stage[r] = "have"
    /\ meta' = IF r.token = Config THEN meta
               ELSE [meta EXCEPT ![held[r]][r.token] = r]
    /\ stage' = [stage EXCEPT ![r] = "done"]
    /\ UNCHANGED <<clientVars, status, held, sessions, callback, endpoint, since, chan, pipe, wcf, server, printed>>

-----------------------------------------------------------------------------
(* The pipes.  ProfilingHook's static constructor opens its AppDomain's    *)
(* pipe and announces the pid on it; it runs because a hook runs, and a    *)
(* method is hooked only once its RegisterMethod call has returned.        *)

WrongOpenPipe(c) ==
    /\ Alive(c)
    /\ server # "stopped"
    /\ chan[c] = "closed"
    /\ \E t \in Tokens : Returned(MethodCall(c, t))
    /\ chan' = [chan EXCEPT ![c] = "open"]
    /\ UNCHANGED <<clientVars, status, stage, held, registryVars, pipe, wcf, server, printed>>

OpenPipe(c) ==
    /\ Alive(c)
    /\ server # "stopped"
    /\ chan[c] = "closed"
    /\ \E t \in Tokens : Returned(MethodCall(c, t))
    /\ chan' = [chan EXCEPT ![c] = "open"]
    /\ pipe' = [pipe EXCEPT ![c] = <<Hello>>]
    /\ UNCHANGED <<clientVars, status, stage, held, registryVars, wcf, server, printed>>

\* OnMethodEnter and OnMethodExit are both one-way calls carrying the token.
SendEvent(c, t) ==
    /\ Alive(c)
    /\ server # "stopped"
    /\ chan[c] = "open"
    /\ Returned(MethodCall(c, t))
    /\ Len(pipe[c]) < MaxQueue
    /\ pipe' = [pipe EXCEPT ![c] = Append(@, t)]
    /\ UNCHANGED <<clientVars, status, stage, held, registryVars, chan, wcf, server, printed>>

\* The pipe of a dead process breaks, with or without what is left in it.
PipeBreaks(c) ==
    /\ ~Alive(c)
    /\ chan[c] = "open"
    /\ chan' = [chan EXCEPT ![c] = "gone"]
    /\ pipe' = [pipe EXCEPT ![c] = <<>>]
    /\ UNCHANGED <<clientVars, status, stage, held, registryVars, wcf, server, printed>>

-----------------------------------------------------------------------------
(* ProfilerService: one instance, one message at a time.                   *)

Busy(c, p, m) == [pc |-> "lookup", chan |-> c, pid |-> p, msg |-> m, sess |-> None]

Take(c) == pipe' = [pipe EXCEPT ![c] = Tail(@)]

CanDispatch(c) == server # "stopped" /\ wcf.pc = "idle" /\ pipe[c] # <<>>

\* The pids that have announced themselves since each pipe has, when pipe c
\* brings its announcement.
Announced(c) ==
    [d \in Channels |-> IF d = c \/ since[d] # {} THEN since[d] \cup {c.pid} ELSE {}]

\* TryAdd instead of the indexer.
WrongDispatchHello(c) ==
    /\ CanDispatch(c)
    /\ Head(pipe[c]) = Hello
    /\ endpoint' = IF endpoint = None THEN c.pid ELSE endpoint
    /\ since' = Announced(c)
    /\ wcf' = Busy(c, c.pid, Hello)
    /\ Take(c)
    /\ UNCHANGED <<clientVars, status, stage, held, sessions, meta, callback, chan, server, printed>>

\* RegisterClient, first statement: remember whose endpoint this is, in place
\* of whoever has announced himself from the same address.
DispatchHello(c) ==
    /\ CanDispatch(c)
    /\ Head(pipe[c]) = Hello
    /\ endpoint' = c.pid
    /\ since' = Announced(c)
    /\ wcf' = Busy(c, c.pid, Hello)
    /\ Take(c)
    /\ UNCHANGED <<clientVars, status, stage, held, sessions, meta, callback, chan, server, printed>>

\* GetSession looks the endpoint up; an unknown one is a KeyNotFoundException,
\* which faults the pipe.
DispatchEvent(c) ==
    /\ CanDispatch(c)
    /\ Head(pipe[c]) # Hello
    /\ IF endpoint = None
       THEN /\ chan' = [chan EXCEPT ![c] = "gone"]
            /\ pipe' = [pipe EXCEPT ![c] = <<>>]
            /\ UNCHANGED wcf
       ELSE /\ wcf' = Busy(c, endpoint, Head(pipe[c]))
            /\ Take(c)
            /\ UNCHANGED chan
    /\ UNCHANGED <<clientVars, status, stage, held, registryVars, server, printed>>

Dispatch(c) == DispatchHello(c) \/ DispatchEvent(c)

DispatcherLookup ==
    /\ server # "stopped"
    /\ wcf.pc = "lookup"
    /\ wcf' = [wcf EXCEPT !.pc = IF Found(wcf.pid) THEN "have" ELSE "miss",
                          !.sess = sessions[wcf.pid]]
    /\ UNCHANGED <<clientVars, status, stage, held, registryVars, chan, pipe, server, printed>>

DispatcherCreates ==
    /\ server # "stopped"
    /\ wcf.pc = "miss"
    /\ AddIfAbsent(wcf.chan, wcf.pid)
    /\ wcf' = [wcf EXCEPT !.pc = "have", !.sess = Added(wcf.chan, wcf.pid)]
    /\ UNCHANGED <<clientVars, status, stage, held, meta, callback, endpoint, since, chan, pipe, server, printed>>

WrongSetCallback ==
    /\ server # "stopped"
    /\ wcf.pc = "have" /\ wcf.msg = Hello
    /\ callback' = [s \in Sessions |-> wcf.chan]
    /\ wcf' = Idle
    /\ UNCHANGED <<clientVars, status, stage, held, sessions, meta, endpoint, since, chan, pipe, server, printed>>

WrongSetCallbackBusy ==
    /\ server # "stopped"
    /\ wcf.pc = "have" /\ wcf.msg = Hello
    /\ callback' = [callback EXCEPT ![wcf.sess] = wcf.chan]
    /\ UNCHANGED <<clientVars, status, stage, held, sessions, meta, endpoint, since, chan, pipe, wcf, server, printed>>

\* RegisterClient, second statement.
SetCallback ==
    /\ server # "stopped"
    /\ wcf.pc = "have" /\ wcf.msg = Hello
    /\ callback' = [callback EXCEPT ![wcf.sess] = wcf.chan]
    /\ wcf' = Idle
    /\ UNCHANGED <<clientVars, status, stage, held, sessions, meta, endpoint, since, chan, pipe, server, printed>>

\* ProfilingSession.OnMethodEnter/OnMethodExit: a line with the description
\* of the token, or "<Unknown token>" (by = None).
Resolve(s, t) == meta[s][t]

PrintEvent ==
    /\ server # "stopped"
    /\ wcf.pc = "have" /\ wcf.msg # Hello
    /\ printed' = printed \cup
         {[chan |-> wcf.chan, token |-> wcf.msg, by |-> Resolve(wcf.sess, wcf.msg)]}
    /\ wcf' = Idle
    /\ UNCHANGED <<clientVars, status, stage, held, registryVars, chan, pipe, server>>

-----------------------------------------------------------------------------
Manager == Start \/ Stop \/ StopReturns

Process(p) == StartProcess(p) \/ Crash(p)

Call(r) ==
    \/ SendCall(r) \/ ReceiveReply(r) \/ CallFails(r) \/ Unavailable(r)
    \/ AcceptCall(r) \/ CreateSession(r) \/ Serve(r)

Pipe(c) ==
    \/ OpenPipe(c) \/ PipeBreaks(c) \/ Dispatch(c)
    \/ \E t \in Tokens : SendEvent(c, t)

Dispatcher == DispatcherLookup \/ DispatcherCreates \/ SetCallback \/ PrintEvent

Next ==
    \/ Manager
    \/ \E p \in Pids : Process(p)
    \/ \E r \in Calls : Call(r)
    \/ \E c \in Channels : Pipe(c)
    \/ Dispatcher

Spec == Init /\ [][Next]_vars

\* Pool threads are scheduled, replies and refusals arrive, and the
\* dispatcher serves waiting pipes in turn (its lock queues them), so a pipe
\* that waits again and again between other pipes' messages is served.
\* Nothing makes a process start, call, send or crash, or an operator stop.
Fairness ==
    /\ \A r \in Calls :
         /\ WF_vars(AcceptCall(r)) /\ WF_vars(CreateSession(r)) /\ WF_vars(Serve(r))
         /\ WF_vars(ReceiveReply(r)) /\ WF_vars(Unavailable(r))
    /\ \A c \in Channels : SF_vars(Dispatch(c))
    /\ WF_vars(Dispatcher)
    /\ WF_vars(Start)
    /\ WF_vars(StopReturns)

FairSpec == Spec /\ Fairness

-----------------------------------------------------------------------------
(* Properties.                                                             *)

CallStatus == {"unsent", "pending", "ok", "failed"}
CallStage  == {"none", "sent", "miss", "have", "done", "refused"}

BusyStates ==
    [pc : {"lookup", "miss", "have"}, chan : Channels, pid : Pids,
     msg : Tokens \cup {Hello}, sess : Sessions \cup {None}]

\* Every variable keeps to its type.
TypeOK ==
    /\ inc \in [Pids -> 0 .. MaxIncarnations]
    /\ up \subseteq Pids
    /\ status \in [Calls -> CallStatus]
    /\ stage \in [Calls -> CallStage]
    /\ held \in [Calls -> Sessions \cup {None}]
    /\ sessions \in [Pids -> Sessions \cup {None}]
    /\ meta \in [Sessions -> [Tokens -> Calls \cup {None}]]
    /\ callback \in [Sessions -> Channels \cup {None}]
    /\ endpoint \in Pids \cup {None}
    /\ since \in [Channels -> SUBSET Pids]
    /\ chan \in [Channels -> {"closed", "open", "gone"}]
    /\ pipe \in [Channels -> Seq(Tokens \cup {Hello})]
    /\ wcf \in {Idle} \cup BusyStates
    /\ server \in {"constructed", "serving", "stopping", "stopped"}
    /\ printed \subseteq [chan : Channels, token : Tokens, by : Calls \cup {None}]

\* What the handlers of the calls in R, and the dispatcher, hold is stored.
NoSplitAmong(R) ==
    /\ \A r \in R : stage[r] \in {"have", "done"} =>
         held[r] # None /\ held[r] = sessions[r.pid]
    /\ wcf.pc = "have" => wcf.sess # None /\ wcf.sess = sessions[wcf.pid]

\* SessionRegistry: although two racing calls may both construct a session,
\* whoever goes on to use one uses the one that is stored for its pid; no
\* handler ever writes into a session that nobody can find again.
NoSplitSession == NoSplitAmong(Calls)

\* HostIpcService.RegisterMethod acknowledges a method only when its token
\* can be resolved in the session of the pid, and it stays resolvable.
AckedResolves ==
    \A r \in Calls : status[r] = "ok" /\ r.token # Config =>
        /\ sessions[r.pid] # None
        /\ Resolve(sessions[r.pid], r.token) # None

\* Pipe c and another process share the sender's table: the other process has
\* announced itself after the pipe did.
Mingled(c) == \E p \in since[c] : p # c.pid

\* ProfilingSession.GetMethodDescription prints "<Unknown token>" only for a
\* method whose registration failed in the client, never for one that the
\* server acknowledged, over whichever wire the two pieces came, as long as no
\* other process announces itself after the sender's pipe.
UnknownOnlyIfUnacked ==
    \A e \in printed : e.by = None =>
        status[MethodCall(e.chan, e.token)] # "ok" \/ Mingled(e.chan)

\* ProfilerService.GetSession always finds a sender for an event, and it is the
\* process of the pipe or one that announced itself later, never an earlier one.
SenderKnown ==
    \A c \in Channels : pipe[c] # <<>> =>
        Head(pipe[c]) = Hello \/ endpoint \in since[c]

\* An event is described with a method registered under that very token, by the
\* sender's own pid or by one that has announced itself after the event's pipe:
\* no process is credited with events of a pipe that was announced after its own.
Attribution ==
    \A e \in printed : e.by # None =>
        e.by.token = e.token /\ e.by.pid \in since[e.chan]

\* A session callback belongs to a pipe of the session's own process.
CallbackOfProcess ==
    \A p \in Pids : sessions[p] # None /\ callback[sessions[p]] # None =>
        callback[sessions[p]].pid = p

\* What makes the invariants above inductive: a session belongs to the pid it
\* is stored under, its registrations to that pid and to their token; a call
\* the client counts as ok has been served; RegisterClient is the first thing
\* on a pipe; whoever is taken for the sender has announced himself since then;
\* and an event is on its way only after its registration returned.
SessionOfPid ==
    /\ \A p \in Pids : sessions[p] # None => sessions[p].pid = p
    /\ \A s \in Sessions : callback[s] # None => callback[s].pid = s.pid
    /\ \A s \in Sessions, t \in Tokens : Resolve(s, t) # None =>
         Resolve(s, t).pid = s.pid /\ Resolve(s, t).token = t

ServedAmong(R) ==
    /\ \A r \in Calls :
        /\ status[r] = "unsent" => stage[r] = "none"
        /\ status[r] = "ok" => stage[r] = "done"
    /\ \A r \in R : stage[r] = "done" /\ r.token # Config =>
         Resolve(sessions[r.pid], r.token) # None

ServedIsStored == ServedAmong(Calls)

HelloFirst ==
    \A c \in Channels :
        /\ chan[c] # "open" => pipe[c] = <<>>
        /\ chan[c] = "open" /\ since[c] = {} => pipe[c] # <<>> /\ Head(pipe[c]) = Hello

SendersSince ==
    /\ \A c \in Channels : since[c] # {} => c.pid \in since[c] /\ endpoint \in since[c]
    /\ wcf.pc # "idle" => wcf.pid \in since[wcf.chan]

DispatcherKnows ==
    /\ wcf.pc # "idle" =>
         IF wcf.msg = Hello THEN wcf.pid = wcf.chan.pid ELSE Found(wcf.pid)
    /\ endpoint # None =>
         \/ Found(endpoint)
         \/ wcf.pc # "idle" /\ wcf.msg = Hello /\ wcf.pid = endpoint

EventsReturned ==
    /\ \A c \in Channels : \A i \in 1 .. Len(pipe[c]) : pipe[c][i] # Hello =>
         Returned(MethodCall(c, pipe[c][i]))
    /\ wcf.pc # "idle" /\ wcf.msg # Hello =>
         Returned(MethodCall(wcf.chan, wcf.msg))
    /\ \A e \in printed : Returned(MethodCall(e.chan, e.token))

\* The inductive invariant for a server process that has handled the calls in
\* R, or is still to handle them, and whose predecessors are done with the rest.
InductiveAmong(R) ==
    /\ TypeOK
    /\ \A r \in Calls \ R : stage[r] = "done"
    /\ NoSplitAmong(R)
    /\ SessionOfPid
    /\ ServedAmong(R)
    /\ HelloFirst
    /\ SendersSince
    /\ DispatcherKnows
    /\ EventsReturned

\* The same for the one server process of Spec: nothing is lost.
Inductive ==
    /\ TypeOK
    /\ NoSplitSession
    /\ SessionOfPid
    /\ ServedIsStored
    /\ HelloFirst
    /\ SendersSince
    /\ DispatcherKnows
    /\ EventsReturned

\* A session, once stored, is never replaced, and a registration in it may be
\* overwritten but is never forgotten.
SessionStable ==
    [][\A p \in Pids : sessions[p] # None =>
         /\ sessions'[p] = sessions[p]
         /\ \A t \in Tokens : Resolve(sessions[p], t) # None =>
              Resolve(sessions[p], t)' # None]_vars

\* Every call of a process that lives on returns, whatever the race for the
\* session and whenever the server is started or stopped.
CallsReturn ==
    \A r \in Calls : (status[r] = "pending") ~> (Returned(r) \/ ~Alive(r))

\* A token that waits in a pipe, behind whatever other messages, is printed
\* for that pipe, unless the pipe breaks or the server is stopped first.
EventsPrinted ==
    \A c \in Channels : \A t \in Tokens :
        (\E i \in DOMAIN pipe[c] : pipe[c][i] = t) ~>
            \/ \E e \in printed : e.chan = c /\ e.token = t
            \/ chan[c] = "gone"
            \/ server = "stopped"

\* ProfilingManager.Stop returns: ShutdownAsync does not wait forever.
StopTerminates == (server = "stopping") ~> (server = "stopped")

=============================================================================
