--------------------------- MODULE ProfilingServer_proofs ---------------------------
(***************************************************************************)
(* Proofs about ProfilingServer, for any pids, tokens, AppDomains and      *)
(* bounds.                                                                 *)
(*                                                                         *)
(* The first part shows that every action keeps InductiveAmong(R), one    *)
(* lemma per action, each with one step for the conjuncts it can disturb.  *)
(* The theorems about the state follow.  The second part is about what has *)
(* been printed, the third about steps.                                    *)
(***************************************************************************)
EXTENDS ProfilingServer, TLAPS

\* A dispatcher that is not idle holds a message of some pipe.
LEMMA BusyDispatcher ==
    ASSUME TypeOK, wcf.pc # "idle"
    PROVE  wcf \in BusyStates
BY DEF TypeOK, Idle, BusyStates

\* What taking the first message off a pipe leaves.
LEMMA TakeFromPipe ==
    ASSUME TypeOK, NEW c \in Channels, pipe[c] # <<>>
    PROVE  /\ Len(pipe[c]) \in Nat \ {0}
           /\ Head(pipe[c]) = pipe[c][1]
           /\ Head(pipe[c]) \in Tokens \cup {Hello}
           /\ Tail(pipe[c]) \in Seq(Tokens \cup {Hello})
           /\ Len(Tail(pipe[c])) = Len(pipe[c]) - 1
           /\ \A i \in 1 .. Len(Tail(pipe[c])) :
                i + 1 \in 1 .. Len(pipe[c]) /\ Tail(pipe[c])[i] = pipe[c][i + 1]
BY DEF TypeOK

\* The manager's actions touch nothing that the invariant speaks of.
LEMMA StartKeeps ==
    ASSUME NEW R \in SUBSET Calls, InductiveAmong(R), Start
    PROVE  InductiveAmong(R)'
<1>. USE DEF InductiveAmong, Start, clientVars, registryVars
<1>1. TypeOK' /\ NoSplitAmong(R)' /\ SessionOfPid' /\ ServedAmong(R)' /\ HelloFirst'
      /\ DispatcherKnows' /\ EventsReturned'
  BY DEF TypeOK, NoSplitAmong, SessionOfPid, ServedAmong, HelloFirst, DispatcherKnows,
       EventsReturned, Found, MethodCall, Resolve, Returned
<1>9. SendersSince'
  BY DEF SendersSince
<1>. QED
  BY <1>1, <1>9

\* Stop only closes the door to new calls.
LEMMA StopKeeps ==
    ASSUME NEW R \in SUBSET Calls, InductiveAmong(R), Stop
    PROVE  InductiveAmong(R)'
<1>. USE DEF InductiveAmong, Stop, clientVars, registryVars
<1>1. TypeOK' /\ NoSplitAmong(R)' /\ SessionOfPid' /\ ServedAmong(R)' /\ HelloFirst'
      /\ DispatcherKnows' /\ EventsReturned'
  BY DEF TypeOK, NoSplitAmong, SessionOfPid, ServedAmong, HelloFirst, DispatcherKnows,
       EventsReturned, Found, MethodCall, Resolve, Returned
<1>9. SendersSince'
  BY DEF SendersSince
<1>. QED
  BY <1>1, <1>9

\* StopReturns only ends the dispatcher's work.
LEMMA StopReturnsKeeps ==
    ASSUME NEW R \in SUBSET Calls, InductiveAmong(R), StopReturns
    PROVE  InductiveAmong(R)'
<1>. USE DEF InductiveAmong, StopReturns, clientVars, registryVars
<1>1. TypeOK' /\ NoSplitAmong(R)' /\ SessionOfPid' /\ ServedAmong(R)' /\ HelloFirst'
      /\ DispatcherKnows' /\ EventsReturned'
  BY DEF TypeOK, NoSplitAmong, SessionOfPid, ServedAmong, HelloFirst, DispatcherKnows,
       EventsReturned, Found, MethodCall, Resolve, Returned
<1>9. SendersSince'
  BY DEF SendersSince
<1>. QED
  BY <1>1, <1>9

\* A new incarnation starts without calls, pipes or events of its own.
LEMMA StartProcessKeeps ==
    ASSUME NEW R \in SUBSET Calls, NEW p \in Pids, InductiveAmong(R), StartProcess(p)
    PROVE  InductiveAmong(R)'
<1>. USE DEF InductiveAmong, StartProcess, clientVars, registryVars
<1>1. TypeOK'
  BY BoundAssumption DEF TypeOK
<1>2. NoSplitAmong(R)' /\ SessionOfPid' /\ ServedAmong(R)' /\ HelloFirst'
      /\ DispatcherKnows' /\ EventsReturned'
  BY DEF NoSplitAmong, SessionOfPid, ServedAmong, HelloFirst, DispatcherKnows,
       EventsReturned, Found, MethodCall, Resolve, Returned
<1>9. SendersSince'
  BY DEF SendersSince
<1>. QED
  BY <1>1, <1>2, <1>9

\* A crash leaves the server's state, and what is on the wires, as it is.
LEMMA CrashKeeps ==
    ASSUME NEW R \in SUBSET Calls, NEW p \in Pids, InductiveAmong(R), Crash(p)
    PROVE  InductiveAmong(R)'
<1>. USE DEF InductiveAmong, Crash, clientVars, registryVars
<1>1. TypeOK'
  BY DEF TypeOK
<1>2. NoSplitAmong(R)' /\ SessionOfPid' /\ ServedAmong(R)' /\ HelloFirst'
      /\ DispatcherKnows' /\ EventsReturned'
  BY DEF NoSplitAmong, SessionOfPid, ServedAmong, HelloFirst, DispatcherKnows,
       EventsReturned, Found, MethodCall, Resolve, Returned
<1>9. SendersSince'
  BY DEF SendersSince
<1>. QED
  BY <1>1, <1>2, <1>9

\* A call that is sent has not returned before, so no event relies on it.
LEMMA SendCallKeeps ==
    ASSUME NEW R \in SUBSET Calls, NEW r \in Calls, InductiveAmong(R), SendCall(r)
    PROVE  InductiveAmong(R)'
<1>. USE DEF InductiveAmong, SendCall, clientVars, registryVars
<1>1. TypeOK'
  BY DEF TypeOK, CallStatus, CallStage
<1>2. NoSplitAmong(R)'
  BY DEF NoSplitAmong, TypeOK
<1>3. ServedAmong(R)'
  BY DEF ServedAmong, TypeOK, Resolve
<1>4. EventsReturned'
  BY DEF EventsReturned, TypeOK, Returned, MethodCall
<1>5. SessionOfPid' /\ HelloFirst' /\ DispatcherKnows'
  BY DEF SessionOfPid, HelloFirst, DispatcherKnows, Found, Resolve
<1>6. ASSUME NEW q \in Calls \ R PROVE stage'[q] = "done"
  BY DEF TypeOK, ServedAmong
<1>9. SendersSince'
  BY DEF SendersSince
<1>. QED
  BY <1>1, <1>2, <1>3, <1>4, <1>5, <1>6, <1>9

\* A reply makes a call ok only when it is done.
LEMMA ReceiveReplyKeeps ==
    ASSUME NEW R \in SUBSET Calls, NEW r \in Calls, InductiveAmong(R), ReceiveReply(r)
    PROVE  InductiveAmong(R)'
<1>. USE DEF InductiveAmong, ReceiveReply, clientVars, registryVars
<1>1. TypeOK'
  BY DEF TypeOK, CallStatus
<1>2. ServedAmong(R)'
  BY DEF ServedAmong, TypeOK, Resolve
<1>3. EventsReturned'
  BY DEF EventsReturned, TypeOK, Returned, MethodCall
<1>4. NoSplitAmong(R)' /\ SessionOfPid' /\ HelloFirst' /\ DispatcherKnows'
  BY DEF NoSplitAmong, SessionOfPid, HelloFirst, DispatcherKnows, Found, Resolve
<1>9. SendersSince'
  BY DEF SendersSince
<1>. QED
  BY <1>1, <1>2, <1>3, <1>4, <1>9

\* A failure in the client returns the call and leaves the server's stage.
LEMMA CallFailsKeeps ==
    ASSUME NEW R \in SUBSET Calls, NEW r \in Calls, InductiveAmong(R), CallFails(r)
    PROVE  InductiveAmong(R)'
<1>. USE DEF InductiveAmong, CallFails, clientVars, registryVars
<1>1. TypeOK'
  BY DEF TypeOK, CallStatus
<1>2. ServedAmong(R)'
  BY DEF ServedAmong, TypeOK, Resolve
<1>3. EventsReturned'
  BY DEF EventsReturned, TypeOK, Returned, MethodCall
<1>4. NoSplitAmong(R)' /\ SessionOfPid' /\ HelloFirst' /\ DispatcherKnows'
  BY DEF NoSplitAmong, SessionOfPid, HelloFirst, DispatcherKnows, Found, Resolve
<1>9. SendersSince'
  BY DEF SendersSince
<1>. QED
  BY <1>1, <1>2, <1>3, <1>4, <1>9

\* A refused call is not done, and fails only in a client that lives.
LEMMA UnavailableKeeps ==
    ASSUME NEW R \in SUBSET Calls, NEW r \in Calls, InductiveAmong(R), Unavailable(r)
    PROVE  InductiveAmong(R)'
<1>. USE DEF InductiveAmong, Unavailable, clientVars, registryVars
<1>1. TypeOK'
  BY DEF TypeOK, CallStatus, CallStage
<1>2. NoSplitAmong(R)'
  BY DEF NoSplitAmong, TypeOK
<1>3. ServedAmong(R)'
  BY DEF ServedAmong, TypeOK, Resolve
<1>4. EventsReturned'
  BY DEF EventsReturned, TypeOK, Returned, MethodCall
<1>5. SessionOfPid' /\ HelloFirst' /\ DispatcherKnows'
  BY DEF SessionOfPid, HelloFirst, DispatcherKnows, Found, Resolve
<1>9. SendersSince'
  BY DEF SendersSince
<1>. QED
  BY <1>1, <1>2, <1>3, <1>4, <1>5, <1>9

\* The lookup hands out what is stored, or nothing.
LEMMA AcceptCallKeeps ==
    ASSUME NEW R \in SUBSET Calls, NEW r \in Calls, InductiveAmong(R), AcceptCall(r)
    PROVE  InductiveAmong(R)'
<1>. USE DEF InductiveAmong, AcceptCall, clientVars, registryVars
<1>1. TypeOK'
  BY NullAssumption DEF TypeOK, CallStage, Calls
<1>2. NoSplitAmong(R)'
  BY NullAssumption DEF NoSplitAmong, TypeOK, Found
<1>3. ServedAmong(R)'
  BY NullAssumption DEF ServedAmong, TypeOK, Resolve
<1>4. SessionOfPid' /\ HelloFirst' /\ DispatcherKnows' /\ EventsReturned'
  <2>1. UNCHANGED <<status, registryVars, chan, pipe, wcf, printed>>
    OBVIOUS
  <2>2. SessionOfPid /\ HelloFirst /\ DispatcherKnows /\ EventsReturned
    OBVIOUS
  <2> HIDE DEF InductiveAmong, AcceptCall
  <2>. QED
    BY <2>1, <2>2 DEF SessionOfPid, HelloFirst, DispatcherKnows, EventsReturned, Found,
         MethodCall, Resolve, Returned
<1>5. ASSUME NEW q \in Calls \ R PROVE stage'[q] = "done"
  BY DEF TypeOK
<1>9. SendersSince'
  BY DEF SendersSince
<1>. QED
  BY <1>1, <1>2, <1>3, <1>4, <1>5, <1>9

\* The insertion keeps a stored session and hands it out: the heart of
\* NoSplitSession. A session that is stored now was built for its pid.
LEMMA CreateSessionKeeps ==
    ASSUME NEW R \in SUBSET Calls, NEW r \in Calls, InductiveAmong(R), CreateSession(r)
    PROVE  InductiveAmong(R)'
<1>. USE DEF InductiveAmong, CreateSession, clientVars, registryVars
<1>1. TypeOK'
  BY NullAssumption DEF TypeOK, CallStage, Calls, Sessions, Added, AddIfAbsent
<1>2. NoSplitAmong(R)'
  <2>1. ASSUME NEW q \in R, stage'[q] \in {"have", "done"}
        PROVE  held'[q] # None /\ held'[q] = sessions'[q.pid]
    <3>1. r.pid \in Pids /\ q.pid \in Pids
      BY DEF Calls
    <3>2. CASE q = r
      BY <3>1, <3>2, NullAssumption DEF TypeOK, Found, Added, AddIfAbsent, Sessions
    <3>3. CASE q # r
      BY <2>1, <3>1, <3>3 DEF TypeOK, NoSplitAmong, Found, Added, AddIfAbsent
    <3>. QED
      BY <3>2, <3>3
  <2>2. wcf'.pc = "have" => wcf'.sess # None /\ wcf'.sess = sessions'[wcf'.pid]
    BY DEF TypeOK, NoSplitAmong, Found, Added, AddIfAbsent
  <2>. QED
    BY <2>1, <2>2 DEF NoSplitAmong
<1>3. SessionOfPid'
  BY NullAssumption DEF SessionOfPid, TypeOK, Added, AddIfAbsent, Found, Resolve
<1>4. ServedAmong(R)'
  BY NullAssumption DEF ServedAmong, TypeOK, Resolve, Added, AddIfAbsent, Found,
       NoSplitAmong
<1>5. DispatcherKnows'
  BY NullAssumption DEF DispatcherKnows, TypeOK, Added, AddIfAbsent, Found
<1>6. HelloFirst' /\ EventsReturned'
  BY DEF HelloFirst, EventsReturned, MethodCall, Returned
<1>7. \A q \in Calls \ R : stage'[q] = "done"
  BY DEF TypeOK
<1>9. SendersSince'
  BY DEF SendersSince
<1>. QED
  BY <1>1, <1>2, <1>3, <1>4, <1>5, <1>6, <1>7, <1>9

\* A handler stores metadata in the session it holds, which is the stored one.
LEMMA ServeKeeps ==
    ASSUME NEW R \in SUBSET Calls, NEW r \in Calls, InductiveAmong(R), Serve(r)
    PROVE  InductiveAmong(R)'
<1>. USE DEF InductiveAmong, Serve, clientVars, registryVars
<1>0. r \in R
  OBVIOUS
<1>1. TypeOK'
  BY <1>0, NullAssumption DEF TypeOK, CallStage, Calls, NoSplitAmong
<1>2. NoSplitAmong(R)'
  BY NullAssumption DEF NoSplitAmong, TypeOK
<1>3. SessionOfPid'
  BY <1>0, NullAssumption DEF SessionOfPid, TypeOK, Resolve, NoSplitAmong, Calls
<1>4. ServedAmong(R)'
  <2>1. ASSUME NEW q \in Calls
        PROVE  /\ status'[q] = "unsent" => stage'[q] = "none"
               /\ status'[q] = "ok" => stage'[q] = "done"
    BY DEF ServedAmong, TypeOK
  <2> SUFFICES ASSUME NEW q \in R, stage'[q] = "done", q.token # Config
               PROVE  meta'[sessions'[q.pid]][q.token] # None
    BY <2>1 DEF ServedAmong, Resolve
  <2>2. /\ held[r] \in Sessions /\ held[r] = sessions[r.pid]
        /\ r.token # Config => r.token \in Tokens
        /\ q.token # Config => q.token \in Tokens
        /\ r # None
    BY <1>0, NullAssumption DEF NoSplitAmong, TypeOK, Calls, Sessions
  <2>3. CASE q = r
    BY <2>2, <2>3 DEF TypeOK
  <2>4. CASE q # r
    <3>1. stage'[q] = "done" => stage[q] = "done"
      BY <2>4 DEF TypeOK
    <3>2. stage[q] = "done" => sessions[q.pid] \in Sessions
      BY DEF NoSplitAmong, TypeOK
    <3>. QED
      BY <2>2, <3>1, <3>2 DEF ServedAmong, Resolve, TypeOK
  <2>. QED
    BY <2>3, <2>4
<1>5. HelloFirst' /\ DispatcherKnows' /\ EventsReturned'
  BY DEF HelloFirst, DispatcherKnows, EventsReturned, Found, MethodCall, Returned
<1>6. \A q \in Calls \ R : stage'[q] = "done"
  BY DEF TypeOK
<1>9. SendersSince'
  BY DEF SendersSince
<1>. QED
  BY <1>1, <1>2, <1>3, <1>4, <1>5, <1>6, <1>9

\* A pipe starts with its announcement.
LEMMA OpenPipeKeeps ==
    ASSUME NEW R \in SUBSET Calls, NEW c \in Channels, InductiveAmong(R), OpenPipe(c)
    PROVE  InductiveAmong(R)'
<1>. USE DEF InductiveAmong, OpenPipe, clientVars, registryVars
<1>1. TypeOK'
  BY NullAssumption DEF TypeOK
<1>2. HelloFirst'
  BY NullAssumption DEF HelloFirst, TypeOK, Returned
<1>3. EventsReturned'
  BY NullAssumption DEF EventsReturned, TypeOK, Returned, MethodCall
<1>4. NoSplitAmong(R)' /\ SessionOfPid' /\ ServedAmong(R)' /\ DispatcherKnows'
  BY DEF NoSplitAmong, SessionOfPid, ServedAmong, DispatcherKnows, Found, Resolve
<1>9. SendersSince'
  BY DEF SendersSince
<1>. QED
  BY <1>1, <1>2, <1>3, <1>4, <1>9

\* An event is sent after its registration has returned.
LEMMA SendEventKeeps ==
    ASSUME NEW R \in SUBSET Calls, NEW c \in Channels, NEW t \in Tokens,
           InductiveAmong(R), SendEvent(c, t)
    PROVE  InductiveAmong(R)'
<1>. USE DEF InductiveAmong, SendEvent, clientVars, registryVars
<1>1. TypeOK'
  <2>1. Append(pipe[c], t) \in Seq(Tokens \cup {Hello})
    BY DEF TypeOK
  <2>. QED
    BY <2>1 DEF TypeOK
<1>2. HelloFirst'
  <2>1. /\ Len(pipe[c]) \in Nat /\ Append(pipe[c], t) # <<>>
        /\ pipe[c] # <<>> => Head(Append(pipe[c], t)) = Head(pipe[c])
    <3>1. pipe[c] \in Seq(Tokens \cup {Hello})
      BY DEF TypeOK
    <3> HIDE DEF InductiveAmong, SendEvent
    <3>. QED
      BY <3>1
  <2>2. /\ UNCHANGED <<since, chan>> /\ chan[c] = "open"
        /\ \A d \in Channels :
             /\ chan[d] # "open" => pipe[d] = <<>>
             /\ chan[d] = "open" /\ since[d] = {} =>
                  pipe[d] # <<>> /\ Head(pipe[d]) = Hello
    BY DEF HelloFirst
  <2>3. \A d \in Channels : pipe'[d] = IF d = c THEN Append(pipe[c], t) ELSE pipe[d]
    BY DEF TypeOK
  <2> HIDE DEF InductiveAmong, SendEvent
  <2>. QED
    BY <2>1, <2>2, <2>3 DEF HelloFirst
<1>3. EventsReturned'
  BY DEF EventsReturned, TypeOK, Returned, MethodCall
<1>4. NoSplitAmong(R)' /\ SessionOfPid' /\ ServedAmong(R)' /\ DispatcherKnows'
  BY DEF NoSplitAmong, SessionOfPid, ServedAmong, DispatcherKnows, Found, Resolve
<1>9. SendersSince'
  BY DEF SendersSince
<1>. QED
  BY <1>1, <1>2, <1>3, <1>4, <1>9

\* A broken pipe is empty.
LEMMA PipeBreaksKeeps ==
    ASSUME NEW R \in SUBSET Calls, NEW c \in Channels, InductiveAmong(R), PipeBreaks(c)
    PROVE  InductiveAmong(R)'
<1>. USE DEF InductiveAmong, PipeBreaks, clientVars, registryVars
<1>1. TypeOK'
  BY DEF TypeOK
<1>2. HelloFirst'
  BY DEF HelloFirst, TypeOK
<1>3. EventsReturned'
  BY DEF EventsReturned, TypeOK, Returned, MethodCall
<1>4. NoSplitAmong(R)' /\ SessionOfPid' /\ ServedAmong(R)' /\ DispatcherKnows'
  BY DEF NoSplitAmong, SessionOfPid, ServedAmong, DispatcherKnows, Found, Resolve
<1>9. SendersSince'
  BY DEF SendersSince
<1>. QED
  BY <1>1, <1>2, <1>3, <1>4, <1>9

\* The announcement makes its pid the sender, whatever pipe events come from.
LEMMA DispatchHelloKeeps ==
    ASSUME NEW R \in SUBSET Calls, NEW c \in Channels, InductiveAmong(R), DispatchHello(c)
    PROVE  InductiveAmong(R)'
<1>. USE DEF InductiveAmong, DispatchHello, clientVars, registryVars
<1>0. pipe[c] # <<>>
  BY DEF CanDispatch
<1>1. TypeOK'
  BY NullAssumption, <1>0, TakeFromPipe DEF TypeOK, Idle, BusyStates, Channels, Busy, Take,
       Announced, CanDispatch
<1>2. NoSplitAmong(R)'
  BY NullAssumption DEF NoSplitAmong, Busy, CanDispatch
<1>3. HelloFirst'
  <2> SUFFICES ASSUME NEW d \in Channels
               PROVE  /\ chan'[d] # "open" => pipe'[d] = <<>>
                      /\ chan'[d] = "open" /\ since'[d] = {} =>
                           pipe'[d] # <<>> /\ Head(pipe'[d]) = Hello
    BY DEF HelloFirst
  <2>1. /\ since'[c] # {} /\ chan[c] = "open"
        /\ since'[d] = {} => since[d] = {}
    BY <1>0 DEF HelloFirst, Announced
  <2>2. d # c => pipe'[d] = pipe[d]
    BY DEF TypeOK, Take
  <2>. QED
    BY <2>1, <2>2 DEF HelloFirst
<1>4. DispatcherKnows'
  <2>1. wcf'.pc = "lookup" /\ wcf'.msg = Hello /\ wcf'.pid = c.pid /\ wcf'.chan = c
    BY DEF Busy
  <2>2. endpoint' = c.pid
    OBVIOUS
  <2>. QED
    BY <2>1, <2>2 DEF DispatcherKnows
<1>5. EventsReturned'
  <2>1. ASSUME NEW d \in Channels, NEW i \in 1 .. Len(pipe'[d]), pipe'[d][i] # Hello
        PROVE  Returned(MethodCall(d, pipe'[d][i]))
    <3>1. CASE d = c
      <4>1. pipe'[c] = Tail(pipe[c])
        BY DEF TypeOK, Take
      <4>2. i + 1 \in 1 .. Len(pipe[c]) /\ pipe'[d][i] = pipe[c][i + 1]
        BY <1>0, <3>1, <4>1, TakeFromPipe
      <4>. QED
        BY <2>1, <3>1, <4>2 DEF EventsReturned
    <3>2. CASE d # c
      BY <2>1, <3>2 DEF EventsReturned, TypeOK, Take
    <3>. QED
      BY <3>1, <3>2
  <2>2. wcf'.msg = Hello /\ UNCHANGED <<status, printed>>
    BY DEF Busy
  <2>. QED
    BY <2>1, <2>2 DEF EventsReturned, Returned, MethodCall
<1>6. SessionOfPid' /\ ServedAmong(R)'
  BY DEF SessionOfPid, ServedAmong, Resolve
<1>9. SendersSince'
  BY NullAssumption DEF SendersSince, Announced, TypeOK, Busy, Channels
<1>. QED
  BY <1>1, <1>2, <1>3, <1>4, <1>5, <1>6, <1>9

\* An event's sender is known, since the announcement went first.
LEMMA DispatchEventKeeps ==
    ASSUME NEW R \in SUBSET Calls, NEW c \in Channels, InductiveAmong(R), DispatchEvent(c)
    PROVE  InductiveAmong(R)'
<1>. USE DEF InductiveAmong, DispatchEvent, clientVars, registryVars
<1>0. pipe[c] # <<>>
  BY DEF CanDispatch
<1>1. TypeOK'
  <2>1. CASE endpoint = None
    <3>1. /\ chan' = [chan EXCEPT ![c] = "gone"]
          /\ pipe' = [pipe EXCEPT ![c] = <<>>]
          /\ UNCHANGED wcf
      BY <2>1
    <3>. QED
      BY <3>1 DEF TypeOK
  <2>2. CASE endpoint # None
    <3>1. /\ Head(pipe[c]) \in Tokens \cup {Hello}
          /\ Tail(pipe[c]) \in Seq(Tokens \cup {Hello})
      BY <1>0, TakeFromPipe
    <3>2. wcf' \in BusyStates
      BY <2>2, <3>1 DEF TypeOK, BusyStates, Busy
    <3>3. pipe' \in [Channels -> Seq(Tokens \cup {Hello})]
      BY <2>2, <3>1 DEF TypeOK, Take
    <3>. QED
      BY <2>2, <3>2, <3>3 DEF TypeOK
  <2>. QED
    BY <2>1, <2>2
<1>2. NoSplitAmong(R)'
  BY DEF NoSplitAmong, Busy, CanDispatch
<1>3. HelloFirst'
  BY <1>0, TakeFromPipe DEF HelloFirst, TypeOK, Take
<1>4. DispatcherKnows'
  BY DEF DispatcherKnows, TypeOK, Found, Busy, CanDispatch
<1>5. EventsReturned'
  <2>1. CASE endpoint = None
    <3>1. pipe' = [pipe EXCEPT ![c] = <<>>] /\ UNCHANGED <<wcf, status, printed>>
      BY <2>1
    <3>2. \A d \in Channels : pipe'[d] = IF d = c THEN <<>> ELSE pipe[d]
      BY <3>1 DEF TypeOK
    <3>. QED
      BY <3>1, <3>2 DEF EventsReturned, Returned, MethodCall
  <2>2. CASE endpoint # None
    <3>1. Head(pipe[c]) # Hello => Returned(MethodCall(c, Head(pipe[c])))
      BY <1>0, TakeFromPipe DEF EventsReturned
    <3>2. ASSUME NEW d \in Channels, NEW i \in 1 .. Len(pipe'[d]), pipe'[d][i] # Hello
          PROVE  Returned(MethodCall(d, pipe'[d][i]))
      <4>1. CASE d = c
        <5>1. pipe'[c] = Tail(pipe[c])
          BY <2>2 DEF TypeOK, Take
        <5>2. i + 1 \in 1 .. Len(pipe[c]) /\ pipe'[d][i] = pipe[c][i + 1]
          BY <1>0, <3>2, <4>1, <5>1, TakeFromPipe
        <5>. QED
          BY <3>2, <4>1, <5>2 DEF EventsReturned
      <4>2. CASE d # c
        BY <2>2, <3>2, <4>2 DEF EventsReturned, TypeOK, Take
      <4>. QED
        BY <4>1, <4>2
    <3>3. wcf' = Busy(c, endpoint, Head(pipe[c]))
          /\ UNCHANGED <<status, printed>>
      BY <2>2
    <3>. QED
      BY <3>1, <3>2, <3>3 DEF EventsReturned, Returned, MethodCall, Busy
  <2>. QED
    BY <2>1, <2>2
<1>6. SessionOfPid' /\ ServedAmong(R)'
  BY DEF SessionOfPid, ServedAmong, Resolve
<1>9. SendersSince'
  <2>1. since[c] # {} /\ endpoint \in since[c]
    BY <1>0 DEF HelloFirst, SendersSince
  <2>2. endpoint # None
    BY <2>1, NullAssumption DEF TypeOK
  <2>3. wcf'.pid = endpoint /\ wcf'.chan = c
    BY <2>2 DEF Busy
  <2>. QED
    BY <2>1, <2>3 DEF SendersSince
<1>. QED
  BY <1>1, <1>2, <1>3, <1>4, <1>5, <1>6, <1>9

\* The dispatcher's lookup, as AcceptCall.
LEMMA DispatcherLookupKeeps ==
    ASSUME NEW R \in SUBSET Calls, InductiveAmong(R), DispatcherLookup
    PROVE  InductiveAmong(R)'
<1>. USE DEF InductiveAmong, DispatcherLookup, clientVars, registryVars
<1>0. wcf \in BusyStates
  BY BusyDispatcher
<1>1. TypeOK'
  BY NullAssumption, <1>0 DEF TypeOK, Idle, BusyStates
<1>2. NoSplitAmong(R)'
  BY NullAssumption, <1>0 DEF NoSplitAmong, TypeOK, Idle, BusyStates, Found
<1>3. DispatcherKnows'
  BY NullAssumption, <1>0 DEF DispatcherKnows, TypeOK, Idle, BusyStates, Found
<1>4. EventsReturned'
  BY NullAssumption, <1>0 DEF EventsReturned, TypeOK, Idle, BusyStates, Returned, MethodCall
<1>5. SessionOfPid' /\ ServedAmong(R)' /\ HelloFirst'
  BY <1>0 DEF SessionOfPid, ServedAmong, HelloFirst, Resolve
<1>9. SendersSince'
  BY <1>0 DEF SendersSince, Idle, BusyStates
<1>. QED
  BY <1>1, <1>2, <1>3, <1>4, <1>5, <1>9

\* The dispatcher's insertion, as CreateSession.
LEMMA DispatcherCreatesKeeps ==
    ASSUME NEW R \in SUBSET Calls, InductiveAmong(R), DispatcherCreates
    PROVE  InductiveAmong(R)'
<1>. USE DEF InductiveAmong, DispatcherCreates, clientVars, registryVars
<1>0. wcf \in BusyStates
  BY BusyDispatcher
<1>1. TypeOK'
  BY NullAssumption, <1>0 DEF TypeOK, Idle, BusyStates, Added, AddIfAbsent, Sessions
<1>2. NoSplitAmong(R)'
  <2>1. wcf.pid \in Pids /\ wcf.chan # None
    BY <1>0, NullAssumption DEF BusyStates, Sessions
  <2>2. \A q \in R : stage[q] \in {"have", "done"} =>
            sessions[q.pid] # None /\ sessions'[q.pid] = sessions[q.pid]
    BY <2>1 DEF NoSplitAmong, TypeOK, Found, Added, AddIfAbsent, Calls
  <2>3. wcf'.sess = sessions'[wcf.pid] /\ wcf'.sess # None /\ wcf'.pid = wcf.pid
    BY <1>0, <2>1 DEF TypeOK, BusyStates, Found, Added, AddIfAbsent
  <2>. QED
    BY <2>2, <2>3 DEF NoSplitAmong
<1>3. SessionOfPid'
  BY NullAssumption, <1>0 DEF SessionOfPid, TypeOK, Idle, BusyStates, Added, AddIfAbsent,
       Found, Resolve, DispatcherKnows
<1>4. ServedAmong(R)'
  BY NullAssumption, <1>0 DEF ServedAmong, TypeOK, Idle, BusyStates, Resolve, Added,
       AddIfAbsent, Found, NoSplitAmong, DispatcherKnows
<1>5. DispatcherKnows'
  BY NullAssumption, <1>0 DEF DispatcherKnows, TypeOK, Idle, BusyStates, Added,
       AddIfAbsent, Found
<1>6. EventsReturned'
  BY NullAssumption, <1>0 DEF EventsReturned, TypeOK, Idle, BusyStates, Returned, MethodCall
<1>7. HelloFirst'
  BY DEF HelloFirst
<1>9. SendersSince'
  BY <1>0 DEF SendersSince, Idle, BusyStates
<1>. QED
  BY <1>1, <1>2, <1>3, <1>4, <1>5, <1>6, <1>7, <1>9

\* The callback goes to a session of the announced pid.
LEMMA SetCallbackKeeps ==
    ASSUME NEW R \in SUBSET Calls, InductiveAmong(R), SetCallback
    PROVE  InductiveAmong(R)'
<1>. USE DEF InductiveAmong, SetCallback, clientVars, registryVars
<1>0. wcf \in BusyStates
  BY BusyDispatcher
<1>1. TypeOK'
  BY <1>0 DEF TypeOK, Idle, BusyStates
<1>2. NoSplitAmong(R)'
  BY <1>0 DEF NoSplitAmong, Idle
<1>3. SessionOfPid'
  BY <1>0 DEF SessionOfPid, TypeOK, Idle, BusyStates, Resolve, NoSplitAmong,
       DispatcherKnows
<1>4. DispatcherKnows'
  BY <1>0 DEF DispatcherKnows, TypeOK, Idle, BusyStates, Found, NoSplitAmong
<1>5. EventsReturned'
  BY <1>0 DEF EventsReturned, Idle, Returned, MethodCall
<1>6. ServedAmong(R)' /\ HelloFirst'
  BY <1>0 DEF ServedAmong, HelloFirst, Resolve
<1>9. SendersSince'
  BY <1>0 DEF SendersSince, Idle, BusyStates
<1>. QED
  BY <1>1, <1>2, <1>3, <1>4, <1>5, <1>6, <1>9

\* Printing frees the dispatcher and records an event that had returned.
LEMMA PrintEventKeeps ==
    ASSUME NEW R \in SUBSET Calls, InductiveAmong(R), PrintEvent
    PROVE  InductiveAmong(R)'
<1>. USE DEF InductiveAmong, PrintEvent, clientVars, registryVars
<1>0. wcf \in BusyStates
  BY BusyDispatcher
<1>1. TypeOK'
  BY <1>0 DEF TypeOK, Idle, BusyStates, NoSplitAmong, Resolve
<1>2. NoSplitAmong(R)'
  BY <1>0 DEF NoSplitAmong, Idle
<1>3. DispatcherKnows'
  BY <1>0 DEF DispatcherKnows, Idle, Found
<1>4. EventsReturned'
  BY <1>0 DEF EventsReturned, TypeOK, Idle, BusyStates, Returned, MethodCall
<1>5. SessionOfPid' /\ ServedAmong(R)' /\ HelloFirst'
  BY <1>0 DEF SessionOfPid, ServedAmong, HelloFirst, Resolve
<1>9. SendersSince'
  BY <1>0 DEF SendersSince, Idle, BusyStates
<1>. QED
  BY <1>1, <1>2, <1>3, <1>4, <1>5, <1>9

\* Every step keeps the inductive invariant.
LEMMA StepKeepsAmong ==
    ASSUME NEW R \in SUBSET Calls, InductiveAmong(R), [Next]_vars
    PROVE  InductiveAmong(R)'
<1>1. CASE Manager
  BY <1>1, StartKeeps, StopKeeps, StopReturnsKeeps DEF Manager
<1>2. ASSUME NEW p \in Pids, Process(p) PROVE InductiveAmong(R)'
  BY <1>2, StartProcessKeeps, CrashKeeps DEF Process
<1>3. ASSUME NEW r \in Calls, Call(r) PROVE InductiveAmong(R)'
  BY <1>3, SendCallKeeps, ReceiveReplyKeeps, CallFailsKeeps, UnavailableKeeps,
     AcceptCallKeeps, CreateSessionKeeps, ServeKeeps DEF Call
<1>4. ASSUME NEW c \in Channels, Pipe(c) PROVE InductiveAmong(R)'
  BY <1>4, OpenPipeKeeps, PipeBreaksKeeps, SendEventKeeps, DispatchHelloKeeps,
     DispatchEventKeeps DEF Pipe, Dispatch
<1>5. CASE Dispatcher
  BY <1>5, DispatcherLookupKeeps, DispatcherCreatesKeeps, SetCallbackKeeps, PrintEventKeeps
     DEF Dispatcher
<1>6. CASE UNCHANGED vars
  BY <1>6 DEF vars, InductiveAmong, TypeOK, NoSplitAmong, SessionOfPid, ServedAmong,
       HelloFirst, SendersSince,
     DispatcherKnows, EventsReturned, Found, Resolve, Returned, MethodCall
<1>. QED
  BY <1>1, <1>2, <1>3, <1>4, <1>5, <1>6 DEF Next

\* With no call lost, the invariant is the one of Spec.
LEMMA AmongAll == Inductive <=> InductiveAmong(Calls)
BY DEF Inductive, InductiveAmong, NoSplitSession, ServedIsStored

\* The server process of Spec keeps its invariant.
LEMMA StepKeeps == Inductive /\ [Next]_vars => Inductive'
<1> SUFFICES ASSUME InductiveAmong(Calls), [Next]_vars PROVE InductiveAmong(Calls)'
  BY AmongAll DEF Inductive, InductiveAmong, NoSplitSession, ServedIsStored
<1>. QED
  BY StepKeepsAmong

\* Initially nothing is stored, sent or held.
LEMMA InitHolds == Init => Inductive
<1> SUFFICES ASSUME Init PROVE Inductive
  OBVIOUS
<1> USE DEF Init, Idle
<1>1. TypeOK
  BY BoundAssumption DEF TypeOK, CallStatus, CallStage
<1>2. NoSplitSession /\ HelloFirst /\ SendersSince
  BY DEF NoSplitSession, NoSplitAmong, HelloFirst, SendersSince
<1>3. SessionOfPid /\ ServedIsStored /\ DispatcherKnows
  BY DEF SessionOfPid, ServedIsStored, ServedAmong, DispatcherKnows, Resolve
<1>4. EventsReturned
  BY DEF EventsReturned
<1>. QED
  BY <1>1, <1>2, <1>3, <1>4 DEF Inductive

\* The inductive invariant holds of every behaviour of the server.
THEOREM InductiveInvariant == Spec => []Inductive
BY InitHolds, StepKeeps, PTL DEF Spec

\* Type correctness, for any number of processes, tokens, pipes and reuses.
THEOREM TypeCorrect == Spec => []TypeOK
<1>1. Inductive => TypeOK
  BY DEF Inductive
<1>. QED
  BY <1>1, InductiveInvariant, PTL

\* GetOrAdd's race never splits a session.
THEOREM SessionsNeverSplit == Spec => []NoSplitSession
<1>1. Inductive => NoSplitSession
  BY DEF Inductive
<1>. QED
  BY <1>1, InductiveInvariant, PTL

\* An acknowledged registration can always be resolved.
THEOREM AckedAlwaysResolve == Spec => []AckedResolves
<1>1. Inductive => AckedResolves
  BY DEF Inductive, AckedResolves, ServedIsStored, ServedAmong, NoSplitSession, NoSplitAmong
<1>. QED
  BY <1>1, InductiveInvariant, PTL

\* The endpoint map never misses, so that GetSession throws no
\* KeyNotFoundException, and never names a sender from before the announcement.
THEOREM SenderAlwaysKnown == Spec => []SenderKnown
<1>1. Inductive => SenderKnown
  BY DEF Inductive, SenderKnown, HelloFirst, SendersSince, TypeOK
<1>. QED
  BY <1>1, InductiveInvariant, PTL

\* A session's callback leads to a pipe of the session's own process.
THEOREM CallbackAlwaysOfProcess == Spec => []CallbackOfProcess
<1>1. ASSUME Inductive, NEW p \in Pids, sessions[p] # None, callback[sessions[p]] # None
      PROVE  callback[sessions[p]].pid = p
  <2>1. sessions[p] \in Sessions
    BY <1>1 DEF Inductive, TypeOK
  <2>. QED
    BY <1>1, <2>1 DEF Inductive, SessionOfPid
<1>2. Inductive => CallbackOfProcess
  BY <1>1 DEF CallbackOfProcess
<1>. QED
  BY <1>2, InductiveInvariant, PTL

-----------------------------------------------------------------------------
(* What has been printed.                                                  *)

Traced == Attribution /\ UnknownOnlyIfUnacked

\* Nothing has been printed yet.
LEMMA TracedInit == Init => Traced
BY DEF Init, Traced, Attribution, UnknownOnlyIfUnacked

\* Who has announced himself since a pipe did is never taken back.
LEMMA SinceGrows ==
    ASSUME NEW R \in SUBSET Calls, InductiveAmong(R), [Next]_vars, NEW c \in Channels
    PROVE  since[c] \subseteq since'[c] /\ (Mingled(c) => Mingled(c)')
<1> USE DEF clientVars, registryVars
<1>1. ASSUME NEW d \in Channels, DispatchHello(d) PROVE since[c] \subseteq since'[c]
  <2>1. since'[c] = IF c = d \/ since[c] # {} THEN since[c] \cup {d.pid} ELSE {}
    BY <1>1 DEF DispatchHello, Announced
  <2>. QED
    BY <2>1
<1>2. CASE since' = since
  BY <1>2 DEF Mingled
<1>3. since[c] \subseteq since'[c]
  BY <1>1, <1>2
     DEF Next, vars, Manager, Start, Stop, StopReturns, Process, StartProcess, Crash, Call,
         SendCall, ReceiveReply, CallFails, Unavailable, AcceptCall, CreateSession, Serve,
         Pipe, OpenPipe, PipeBreaks, SendEvent, Dispatch, DispatchEvent, Dispatcher,
         DispatcherLookup, DispatcherCreates, SetCallback, PrintEvent
<1>. QED
  BY <1>3 DEF Mingled

\* What is printed is right when it is printed.
LEMMA PrintedRight ==
    ASSUME NEW R \in SUBSET Calls, InductiveAmong(R), PrintEvent
    PROVE  LET c == wcf.chan
               t == wcf.msg
               m == Resolve(wcf.sess, t)
           IN  /\ m # None => m.token = t /\ m.pid \in since[c]
               /\ m = None /\ MethodCall(c, t) \in R =>
                    status[MethodCall(c, t)] # "ok" \/ Mingled(c)
<1>1. /\ wcf.chan \in Channels /\ wcf.chan.pid \in Pids /\ wcf.chan.inc \in Incarnations
      /\ wcf.msg \in Tokens
      /\ wcf.pid \in since[wcf.chan]
  BY BusyDispatcher DEF PrintEvent, InductiveAmong, BusyStates, Channels, SendersSince
<1>2. wcf.sess \in Sessions /\ wcf.sess = sessions[wcf.pid] /\ wcf.sess.pid = wcf.pid
  BY <1>1 DEF PrintEvent, InductiveAmong, NoSplitAmong, TypeOK, SessionOfPid
<1>3. Resolve(wcf.sess, wcf.msg) # None =>
        Resolve(wcf.sess, wcf.msg).pid = wcf.pid
             /\ Resolve(wcf.sess, wcf.msg).token = wcf.msg
  BY <1>1, <1>2 DEF InductiveAmong, SessionOfPid
<1>4. Resolve(wcf.sess, wcf.msg) = None /\ MethodCall(wcf.chan, wcf.msg) \in R =>
        status[MethodCall(wcf.chan, wcf.msg)] # "ok" \/ Mingled(wcf.chan)
  <2>1. /\ MethodCall(wcf.chan, wcf.msg) \in Calls
        /\ MethodCall(wcf.chan, wcf.msg).token = wcf.msg
        /\ MethodCall(wcf.chan, wcf.msg).pid = wcf.chan.pid
        /\ wcf.msg # Config
    BY <1>1, NullAssumption DEF MethodCall, Calls
  <2>2. CASE wcf.pid = wcf.chan.pid
    BY <1>2, <2>1, <2>2 DEF InductiveAmong, ServedAmong
  <2>3. CASE wcf.pid # wcf.chan.pid
    BY <1>1, <2>3 DEF Mingled
  <2>. QED
    BY <2>2, <2>3
<1>. QED
  BY <1>1, <1>3, <1>4

\* A call that has returned in the client keeps its outcome.
LEMMA OutcomeKept ==
    ASSUME NEW R \in SUBSET Calls, InductiveAmong(R), [Next]_vars, NEW r \in Calls, Returned(r)
    PROVE  status'[r] = status[r]
<1> USE DEF clientVars, registryVars, Returned
<1>1. ASSUME NEW q \in Calls, Call(q) PROVE status'[r] = status[r]
  <2>1. CASE SendCall(q) \/ ReceiveReply(q) \/ CallFails(q)
    BY <1>1, <2>1 DEF SendCall, ReceiveReply, CallFails, InductiveAmong, TypeOK
  <2>2. CASE Unavailable(q)
    BY <1>1, <2>2 DEF Unavailable, InductiveAmong, TypeOK, ServedAmong
  <2>3. CASE AcceptCall(q) \/ CreateSession(q) \/ Serve(q)
    BY <2>3 DEF AcceptCall, CreateSession, Serve
  <2>. QED
    BY <1>1, <2>1, <2>2, <2>3 DEF Call
<1>2. CASE UNCHANGED status
  BY <1>2
<1>. QED
  BY <1>1, <1>2
     DEF Next, vars, Manager, Start, Stop, StopReturns, Process, StartProcess, Crash, Pipe,
         OpenPipe, PipeBreaks, SendEvent, Dispatch, DispatchHello, DispatchEvent, Dispatcher,
         DispatcherLookup, DispatcherCreates, SetCallback, PrintEvent

\* Only the dispatcher prints.
LEMMA PrintsOnly ==
    ASSUME [Next]_vars
    PROVE  PrintEvent \/ printed' = printed
BY DEF Next, vars, Manager, Start, Stop, StopReturns, Process, StartProcess, Crash, Call,
       SendCall, ReceiveReply, CallFails, Unavailable, AcceptCall, CreateSession, Serve,
       Pipe, OpenPipe, PipeBreaks, SendEvent, Dispatch, DispatchHello, DispatchEvent,
       Dispatcher, DispatcherLookup, DispatcherCreates, SetCallback, clientVars, registryVars

\* A printed line was right when it was printed and stays right, since calls
\* keep their outcome and announcements are not taken back.
LEMMA TracedStep ==
    ASSUME Inductive, Traced, [Next]_vars
    PROVE  Traced'
<1>0. InductiveAmong(Calls)
  BY AmongAll
<1>1. ASSUME NEW e \in printed
      PROVE  /\ e.by # None => e.by.token = e.token /\ e.by.pid \in since'[e.chan]
             /\ e.by = None => status'[MethodCall(e.chan, e.token)] # "ok" \/ Mingled(e.chan)'
  <2>1. e.chan \in Channels /\ MethodCall(e.chan, e.token) \in Calls
    BY DEF Inductive, TypeOK, MethodCall, Calls, Channels
  <2>2. Returned(MethodCall(e.chan, e.token))
    BY DEF Inductive, EventsReturned
  <2>3. status'[MethodCall(e.chan, e.token)] = status[MethodCall(e.chan, e.token)]
    BY <1>0, <2>1, <2>2, OutcomeKept
  <2>4. since[e.chan] \subseteq since'[e.chan] /\ (Mingled(e.chan) => Mingled(e.chan)')
    BY <1>0, <2>1, SinceGrows
  <2>. QED
    BY <2>3, <2>4 DEF Traced, Attribution, UnknownOnlyIfUnacked
<1>2. CASE PrintEvent
  <2>1. printed' = printed \cup {[chan |-> wcf.chan, token |-> wcf.msg,
                                  by |-> Resolve(wcf.sess, wcf.msg)]}
        /\ status' = status /\ since' = since
    BY <1>2 DEF PrintEvent, registryVars
  <2>2. MethodCall(wcf.chan, wcf.msg) \in Calls
    BY <1>2, BusyDispatcher DEF PrintEvent, Inductive, BusyStates, MethodCall, Calls, Channels
  <2>3. LET c == wcf.chan
            t == wcf.msg
            m == Resolve(wcf.sess, t)
        IN  /\ m # None => m.token = t /\ m.pid \in since[c]
            /\ m = None => status[MethodCall(c, t)] # "ok" \/ Mingled(c)
    BY <1>0, <1>2, <2>2, PrintedRight
  <2>4. Attribution'
    BY <1>1, <2>1, <2>3 DEF Attribution
  <2>5. UnknownOnlyIfUnacked'
    BY <1>1, <2>1, <2>3 DEF UnknownOnlyIfUnacked, MethodCall, Mingled
  <2>. QED
    BY <2>4, <2>5 DEF Traced
<1>3. CASE printed' = printed
  <2>1. Attribution'
    BY <1>1, <1>3 DEF Attribution
  <2>2. UnknownOnlyIfUnacked'
    BY <1>1, <1>3 DEF UnknownOnlyIfUnacked, MethodCall, Mingled
  <2>. QED
    BY <2>1, <2>2 DEF Traced
<1>. QED
  BY <1>2, <1>3, PrintsOnly

\* Although all pipes share one entry of the endpoint table, an event is never
\* credited to a process that announced itself before the event's pipe did, and
\* whoever is credited has registered a method under the event's token; for any
\* number of processes, pipes, tokens and reuses of a pid.
THEOREM EventsTraced == Spec => []Attribution
<1>1. Inductive /\ Traced /\ [Next]_vars => Traced'
  BY TracedStep
<1>2. Traced => Attribution
  BY DEF Traced
<1>. QED
  BY <1>1, <1>2, TracedInit, InductiveInvariant, PTL DEF Spec

\* A method the server has acknowledged is printed as an unknown token, whichever
\* of the two wires is the faster, only if another process has announced itself
\* after the event's pipe; for a process alone, never.
THEOREM UnknownMeansUnacked == Spec => []UnknownOnlyIfUnacked
<1>1. Inductive /\ Traced /\ [Next]_vars => Traced'
  BY TracedStep
<1>2. Traced => UnknownOnlyIfUnacked
  BY DEF Traced
<1>. QED
  BY <1>1, <1>2, TracedInit, InductiveInvariant, PTL DEF Spec

\* Sessions and registrations are never forgotten.
LEMMA RegistryStep ==
    ASSUME Inductive, Next, NEW p \in Pids, sessions[p] # None
    PROVE  /\ sessions'[p] = sessions[p]
           /\ \A t \in Tokens : Resolve(sessions[p], t) # None =>
                Resolve(sessions[p], t)' # None
<1> USE DEF clientVars, registryVars
<1>1. ASSUME NEW r \in Calls, CreateSession(r)
      PROVE  sessions'[p] = sessions[p] /\ meta' = meta
  BY <1>1 DEF CreateSession, AddIfAbsent, Added, Found, Inductive, TypeOK
<1>2. ASSUME DispatcherCreates
      PROVE  sessions'[p] = sessions[p] /\ meta' = meta
  BY <1>2 DEF DispatcherCreates, AddIfAbsent, Added, Found, Inductive, TypeOK
<1>3. ASSUME NEW r \in Calls, Serve(r)
      PROVE  /\ sessions' = sessions
             /\ \A t \in Tokens : meta[sessions[p]][t] # None => meta'[sessions[p]][t] # None
  BY <1>3, NullAssumption DEF Serve, Inductive, TypeOK, Sessions, Calls
<1>4. CASE UNCHANGED <<sessions, meta>>
  BY <1>4 DEF Resolve
<1>5. CASE \E r \in Calls : CreateSession(r) \/ Serve(r)
  BY <1>1, <1>3, <1>5 DEF Resolve
<1>6. CASE DispatcherCreates
  BY <1>2, <1>6 DEF Resolve
<1>. QED
  BY <1>4, <1>5, <1>6
     DEF Next, Manager, Start, Stop, StopReturns, Process, StartProcess, Crash, Call,
         SendCall, ReceiveReply, CallFails, Unavailable, AcceptCall,
         Pipe, OpenPipe, PipeBreaks, SendEvent, Dispatch, DispatchHello, DispatchEvent,
         Dispatcher, DispatcherLookup, SetCallback, PrintEvent

\* No step replaces a session or loses a registration.
THEOREM RegistryStable == Spec => SessionStable
<1>1. Inductive /\ [Next]_vars =>
        [\A p \in Pids : sessions[p] # None =>
           /\ sessions'[p] = sessions[p]
           /\ \A t \in Tokens : Resolve(sessions[p], t) # None =>
                Resolve(sessions[p], t)' # None]_vars
  BY RegistryStep
<1>. QED
  BY <1>1, InductiveInvariant, PTL DEF Spec, SessionStable

=============================================================================
