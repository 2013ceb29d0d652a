----------------------- MODULE ProfilingServerRestart_proofs -----------------------
(***************************************************************************)
(* Proofs about a profiling server that may be ended and started again,    *)
(* any number of times, under profiled processes that live on.             *)
(*                                                                         *)
(* A step of the server is one that ProfilingServer_proofs has dealt with, *)
(* for the calls no earlier server process has finished; what is left is   *)
(* the restart itself.                                                     *)
(***************************************************************************)
EXTENDS ProfilingServerRestart, ProfilingServer_proofs

\* A server process that starts knows nothing and is told nothing: the calls
\* its predecessor finished are lost, those it was serving have failed.
LEMMA RestartKeeps ==
    ASSUME RestartInductive, Restart
    PROVE  RestartInductive'
<1> DEFINE R == Calls \ lost
<1>1. lost' \subseteq Calls
  BY DEF RestartInductive, Restart
<1>2. \A r \in R' : r \in R /\ stage[r] # "done"
  BY DEF RestartInductive, Restart
<1>3. TypeOK'
  BY BoundAssumption DEF RestartInductive, InductiveAmong, TypeOK, Restart, Dies, Idle,
       CallStatus, CallStage, clientVars
<1>4. \A r \in Calls \ R' : stage'[r] = "done"
  BY <1>1 DEF RestartInductive, InductiveAmong, TypeOK, Restart, Dies
<1>5. (\A r \in R' : stage'[r] \notin {"have", "done"}) /\ wcf' = Idle
  BY <1>2 DEF RestartInductive, InductiveAmong, TypeOK, Restart, Dies
<1>6. NoSplitAmong(R)' /\ SessionOfPid' /\ HelloFirst' /\ SendersSince' /\ DispatcherKnows'
  <2>1. NoSplitAmong(R)'
    BY <1>5 DEF NoSplitAmong, Idle
  <2>2. SessionOfPid'
    BY DEF Restart, Sessions, SessionOfPid, Resolve
  <2>3. HelloFirst'
    BY DEF Restart, HelloFirst
  <2>4. DispatcherKnows'
    BY DEF Restart, DispatcherKnows, Idle
  <2>5. SendersSince'
    BY DEF Restart, SendersSince, Idle
  <2>. QED
    BY <2>1, <2>2, <2>3, <2>4, <2>5
<1>7. ServedAmong(R)'
  <2>1. ASSUME NEW r \in Calls
        PROVE  /\ status'[r] = "unsent" => stage'[r] = "none"
               /\ status'[r] = "ok" => stage'[r] = "done"
    BY DEF RestartInductive, InductiveAmong, ServedAmong, Restart, Dies
  <2>. QED
    BY <1>5, <2>1 DEF ServedAmong
<1>8. EventsReturned'
  BY DEF Restart, EventsReturned, Idle
<1>. QED
  BY <1>1, <1>3, <1>4, <1>6, <1>7, <1>8 DEF RestartInductive, InductiveAmong

\* A step of the server loses no call.
LEMMA ServerKeeps ==
    ASSUME RestartInductive, [Next]_vars, UNCHANGED lost
    PROVE  RestartInductive'
<1>1. PICK R \in SUBSET Calls : R = Calls \ lost
  OBVIOUS
<1>2. InductiveAmong(R)
  BY <1>1 DEF RestartInductive
<1>3. InductiveAmong(R)'
  BY <1>2, StepKeepsAmong
<1>. QED
  BY <1>1, <1>3 DEF RestartInductive

\* The inductive invariant, over any number of server processes.
THEOREM RestartInvariant == RestartSpec => []RestartInductive
<1>1. RestartInit => RestartInductive
  BY InitHolds, AmongAll DEF RestartInit, RestartInductive
<1>2. RestartInductive /\ [RestartNext]_restartVars => RestartInductive'
  BY RestartKeeps, ServerKeeps DEF RestartNext, restartVars
<1>. QED
  BY <1>1, <1>2, PTL DEF RestartSpec

\* What the present server process has acknowledged can always be resolved,
\* whatever became of its predecessors.
THEOREM AckedHereAlwaysResolve == RestartSpec => []AckedHereResolves
<1>1. RestartInductive => AckedHereResolves
  BY DEF RestartInductive, InductiveAmong, NoSplitAmong, ServedAmong, AckedHereResolves, Found
<1>. QED
  BY <1>1, RestartInvariant, PTL

\* A restart forgets the endpoint and breaks the pipes, so that the new process
\* never meets an event before an announcement, nor credits it to an older one.
THEOREM SenderKnownAfterRestart == RestartSpec => []SenderKnown
<1>1. RestartInductive => SenderKnown
  BY DEF RestartInductive, InductiveAmong, HelloFirst, SendersSince, SenderKnown
<1>. QED
  BY <1>1, RestartInvariant, PTL

-----------------------------------------------------------------------------
(* What has been printed.                                                  *)

\* A line printed as unknown is about a call that failed, and keeps having
\* failed, or about one that an earlier server process finished, or about a
\* pipe that another process has announced itself after.
LEMMA UnknownStep ==
    ASSUME RestartInductive, UnknownOnlyIfLost, [Next]_vars, UNCHANGED lost
    PROVE  UnknownOnlyIfLost'
<1>1. PICK R \in SUBSET Calls : R = Calls \ lost
  OBVIOUS
<1>2. InductiveAmong(R)
  BY <1>1 DEF RestartInductive
<1>3. ASSUME NEW e \in printed, e.by = None, status'[MethodCall(e.chan, e.token)] = "ok"
      PROVE  MethodCall(e.chan, e.token) \in lost \/ Mingled(e.chan)'
  <2>1. e.chan \in Channels /\ MethodCall(e.chan, e.token) \in Calls
    BY <1>2 DEF InductiveAmong, TypeOK, MethodCall, Calls, Channels
  <2>2. Returned(MethodCall(e.chan, e.token))
    BY <1>2 DEF InductiveAmong, EventsReturned
  <2>3. status[MethodCall(e.chan, e.token)] = "ok"
    BY <1>2, <1>3, <2>1, <2>2, OutcomeKept
  <2>4. Mingled(e.chan) => Mingled(e.chan)'
    BY <1>2, <2>1, SinceGrows
  <2>. QED
    BY <1>3, <2>3, <2>4 DEF UnknownOnlyIfLost
<1>4. CASE PrintEvent
  <2>1. printed' = printed \cup {[chan |-> wcf.chan, token |-> wcf.msg,
                                  by |-> Resolve(wcf.sess, wcf.msg)]}
        /\ status' = status /\ since' = since
    BY <1>4 DEF PrintEvent, registryVars
  <2>2. MethodCall(wcf.chan, wcf.msg) \in Calls
    BY <1>2, <1>4, BusyDispatcher
       DEF PrintEvent, InductiveAmong, BusyStates, MethodCall, Calls, Channels
  <2>3. Resolve(wcf.sess, wcf.msg) = None /\ status[MethodCall(wcf.chan, wcf.msg)] = "ok" =>
          MethodCall(wcf.chan, wcf.msg) \in lost \/ Mingled(wcf.chan)
    BY <1>1, <1>2, <1>4, <2>2, PrintedRight
  <2>. QED
    BY <1>3, <2>1, <2>3 DEF UnknownOnlyIfLost, MethodCall, Mingled
<1>5. CASE printed' = printed
  BY <1>3, <1>5 DEF UnknownOnlyIfLost, MethodCall, Mingled
<1>. QED
  BY <1>4, <1>5, PrintsOnly

\* A method is printed as unknown only when its registration failed, or went to a
\* server process that has ended since, or another process has announced itself
\* after the event's pipe; however often the server is restarted.
THEOREM UnknownMeansLost == RestartSpec => []UnknownOnlyIfLost
<1>1. RestartInit => UnknownOnlyIfLost
  BY DEF RestartInit, Init, UnknownOnlyIfLost
<1>2. Restart => UnknownOnlyIfLost'
  BY DEF Restart, UnknownOnlyIfLost
<1>3. RestartInductive /\ UnknownOnlyIfLost /\ [RestartNext]_restartVars => UnknownOnlyIfLost'
  BY <1>2, UnknownStep DEF RestartNext, restartVars
<1>. QED
  BY <1>1, <1>3, RestartInvariant, PTL DEF RestartSpec

=============================================================================
