-------------------------- MODULE ProfilingServerRestart --------------------------
(***************************************************************************)
(* The server process dies and is started again while profiled processes   *)
(* live on.  Everything it keeps is in memory: sessions, metadata and the  *)
(* endpoint table start empty.  Clients notice only that calls fail and    *)
(* pipes break: a client that has registered a method does not register it *)
(* again, and an AppDomain that has lost its pipe never opens another,     *)
(* since ProfilingHook keeps its one client in a readonly field.           *)
(***************************************************************************)
EXTENDS ProfilingServer

VARIABLE lost  \* calls whose effect an earlier server process has taken with it

restartVars == <<vars, lost>>

RestartInit == Init /\ lost = {}

\* Handlers die with the process.  A reply that was sent may still arrive.
Dies(r) == stage[r] \in {"miss", "have"}

Restart ==
    /\ server # "constructed"
    /\ server' = "constructed"
    /\ lost' = lost \cup {r \in Calls : stage[r] = "done"}
    /\ stage' = [r \in Calls |-> IF Dies(r) THEN "refused" ELSE stage[r]]
    /\ status' = [r \in Calls |->
         IF Dies(r) /\ Alive(r) /\ status[r] = "pending" THEN "failed" ELSE status[r]]
    /\ held' = [r \in Calls |-> None]
    /\ sessions' = [p \in Pids |-> None]
    /\ meta' = [s \in Sessions |-> [t \in Tokens |-> None]]
    /\ callback' = [s \in Sessions |-> None]
    /\ endpoint' = None
    /\ since' = [c \in Channels |-> {}]
    /\ chan' = [c \in Channels |-> IF chan[c] = "open" THEN "gone" ELSE chan[c]]
    /\ pipe' = [c \in Channels |-> <<>>]
    /\ wcf' = Idle
    /\ printed' = {}
    /\ UNCHANGED clientVars

RestartNext == (Next /\ UNCHANGED lost) \/ Restart

RestartSpec == RestartInit /\ [][RestartNext]_restartVars

-----------------------------------------------------------------------------
(* Properties: what is left of those of ProfilingServer.                   *)

\* A call the client knows to have succeeded was handled by a server process
\* that may be gone; if it is not, the method's token resolves.
AckedHereResolves ==
    \A r \in Calls \ lost : status[r] = "ok" /\ r.token # Config =>
        /\ Found(r.pid)
        /\ Resolve(sessions[r.pid], r.token) # None

\* "<Unknown token>" is printed only for a method whose registration failed or
\* went to an earlier server process: an AppDomain that runs its first hook
\* after the restart opens a pipe to a server that knows none of its methods.
\* Again, as long as no other process announces itself after the pipe.
UnknownOnlyIfLost ==
    \A e \in printed : e.by = None =>
        LET r == MethodCall(e.chan, e.token)
        IN  status[r] = "ok" => r \in lost \/ Mingled(e.chan)

\* The inductive invariant: that of ProfilingServer, for the calls that no
\* earlier server process has finished.
RestartInductive == lost \subseteq Calls /\ InductiveAmong(Calls \ lost)

=============================================================================
