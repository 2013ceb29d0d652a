-------------------------------- MODULE ILExecution --------------------------------
(***************************************************************************)
(* A method is rewritten and then called.  The CLR compiles a method when  *)
(* it is first called, after ModuleLoadFinished has returned: the call     *)
(* executes the installed body, or the method's own if there is none.      *)
(***************************************************************************)
EXTENDS ILRewriter

CONSTANT HooksMayThrow

VARIABLES ip, state, reports  \* of the call, see ILMachine

callVars == <<ip, state, reports>>
allVars  == <<vars, callVars>>

Rewritten == stage \in {"installed", "failed"}

Compiled == IF Installed THEN body ELSE input

Machine == INSTANCE ILMachine WITH code <- Compiled.code, eh <- Compiled.eh

RunInit == Init /\ Machine!InitCall

Rewrite == Next /\ UNCHANGED callVars

CallMethod == Rewritten /\ Machine!Call /\ UNCHANGED vars

Execute == Machine!Step /\ UNCHANGED vars

RunNext == Rewrite \/ CallMethod \/ Execute

RunSpec == RunInit /\ [][RunNext]_allVars

\* Threads run: the one that rewrites, and the one that calls the method.
FairRunSpec ==
    /\ RunSpec
    /\ WF_allVars(Step /\ UNCHANGED callVars)
    /\ WF_allVars(Execute)

-----------------------------------------------------------------------------
(* Properties.                                                             *)

\* The call keeps the promise of MethodRun: it reports one enter, then one exit
\* if it returns, and nothing twice, whatever loops, handlers and failing hooks
\* do in between.
Promise == INSTANCE MethodRun WITH hooked <- Installed

KeepsPromise == Promise!FairSpec

\* Where control is, given what the call has reported: in the enter probe, in
\* the method, or at the RET behind an exit probe.
WhereReported ==
    /\ reports \in {Promise!Nothing, Promise!Entered, Promise!Left}
    /\ state = "waiting" => ip = 1 /\ reports = Promise!Nothing
    /\ ~Rewritten => state = "waiting"
    /\ ~Installed => reports = Promise!Nothing
    /\ Installed /\ state = "running" =>
         /\ reports = Promise!Nothing => ip \in {1, 2}
         /\ reports = Promise!Entered =>
              ip \notin {1, 2} /\ (ip \in DOMAIN body.code => body.code[ip].op # "ret")
         /\ reports = Promise!Left =>
              ip \in DOMAIN body.code /\ body.code[ip].op = "ret"

\* The instruction of the method that the call has come to: the enter probe
\* belongs to the first, an exit probe to the RET it stands for, and the end
\* to the end.
OriginalIp ==
    CASE ~Installed -> ip
      [] Installed /\ ip \notin DOMAIN il -> Len(input.code) + 1
      [] Installed /\ ip \in DOMAIN il -> IF il[ip][1] = 0 THEN 1 ELSE il[ip][1]

Original ==
    INSTANCE ILMachine WITH code <- input.code, eh <- input.eh, ip <- OriginalIp,
                            reports <- <<>>, HooksMayThrow <- FALSE

HookFails ==
    /\ Installed /\ ip \in DOMAIN body.code /\ body.code[ip].op \in Hooks
    /\ Machine!Unwind
    /\ UNCHANGED input

\* The rewritten method does what the method did: erase the probes, and a call
\* of the one is a call of the other, branches, handlers and exceptions
\* included, up to a hook that fails, which leaves the method for good.
SameRun ==
    /\ Original!InitCall
    /\ [][HookFails \/ Original!NextCall]_<<input, OriginalIp, state>>

=============================================================================
