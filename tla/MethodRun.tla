--------------------------------- MODULE MethodRun ---------------------------------
(***************************************************************************)
(* What profiling promises about one call of a method: a hooked method     *)
(* reports that it is entered, once and first of all; it reports that it   *)
(* is left, once and only if it goes on to return; it says nothing when an *)
(* exception leaves it.  A method without hooks reports nothing.           *)
(***************************************************************************)
EXTENDS Sequences

CONSTANT HooksMayThrow  \* a hook may fail and throw into the method

VARIABLES
    hooked,  \* has the method got its hooks?
    state,   \* of the call: waiting, running, returned or thrown
    reports  \* the hooks that have run to their end, in order

vars == <<hooked, state, reports>>

Nothing == <<>>
Entered == <<"enter">>
Left    == <<"enter", "exit">>

Init ==
    /\ hooked = FALSE
    /\ state = "waiting"
    /\ reports = Nothing

Instrument ==
    /\ state = "waiting"
    /\ hooked' = TRUE
    /\ UNCHANGED <<state, reports>>

Call ==
    /\ state = "waiting"
    /\ state' = "running"
    /\ UNCHANGED <<hooked, reports>>

ReportEnter ==
    /\ state = "running" /\ hooked /\ reports = Nothing
    /\ reports' = Entered
    /\ UNCHANGED <<hooked, state>>

ReportExit ==
    /\ state = "running" /\ hooked /\ reports = Entered
    /\ reports' = Left
    /\ UNCHANGED <<hooked, state>>

Return ==
    /\ state = "running"
    /\ reports = IF hooked THEN Left ELSE Nothing
    /\ state' = "returned"
    /\ UNCHANGED <<hooked, reports>>

\* Once the method has reported that it is left it returns; before it has
\* reported that it is entered, only the hook itself can fail.
Throw ==
    /\ state = "running"
    /\ reports # Left
    /\ hooked /\ reports = Nothing => HooksMayThrow
    /\ state' = "thrown"
    /\ UNCHANGED <<hooked, reports>>

Next == Instrument \/ Call \/ ReportEnter \/ ReportExit \/ Return \/ Throw

Spec == Init /\ [][Next]_vars

\* A method that has reported its exit does return.
FairSpec == Spec /\ WF_vars(hooked /\ Return)
=============================================================================
