------------------------------ MODULE ProfileContract ------------------------------
(***************************************************************************)
(* What profiling a process promises from end to end: a line on the        *)
(* server's console names a method of the process whose hook has run and   *)
(* which the server has been told of; a line names no method ("<Unknown    *)
(* token>") only if a hook ran whose method the server never acknowledged. *)
(* By the time a method's hook runs it is settled whether it is            *)
(* acknowledged.  Once the process is mixed up with another one a line may *)
(* name no method, or one of the other, whatever hook it is about.         *)
(***************************************************************************)
CONSTANTS Methods, Unknown, Foreign

VARIABLES
    known,      \* methods the server has been told of
    confirmed,  \* methods for which the process knows that it has
    ran,        \* methods whose hook has run
    mixed,      \* another process may be taken for this one
    lines       \* what the lines on the console name

contractVars == <<known, confirmed, ran, mixed, lines>>

Init ==
    /\ known = {}
    /\ confirmed = {}
    /\ ran = {}
    /\ mixed = FALSE
    /\ lines = {}

Tell(x) ==
    /\ known' = known \cup {x}
    /\ UNCHANGED <<confirmed, ran, mixed, lines>>

Confirm(x) ==
    /\ x \in known \ ran
    /\ confirmed' = confirmed \cup {x}
    /\ UNCHANGED <<known, ran, mixed, lines>>

Run(x) ==
    /\ ran' = ran \cup {x}
    /\ UNCHANGED <<known, confirmed, mixed, lines>>

Mix ==
    /\ mixed' = TRUE
    /\ UNCHANGED <<known, confirmed, ran, lines>>

Name(x) ==
    /\ x \in ran \cap known
    /\ lines' = lines \cup {x}
    /\ UNCHANGED <<known, confirmed, ran, mixed>>

NameUnknown ==
    /\ mixed \/ ~(ran \subseteq confirmed)
    /\ lines' = lines \cup {Unknown}
    /\ UNCHANGED <<known, confirmed, ran, mixed>>

NameForeign ==
    /\ mixed
    /\ lines' = lines \cup {Foreign}
    /\ UNCHANGED <<known, confirmed, ran, mixed>>

Next ==
    \/ \E x \in Methods : Tell(x) \/ Confirm(x) \/ Run(x) \/ Name(x)
    \/ Mix \/ NameUnknown \/ NameForeign

Spec == Init /\ [][Next]_contractVars
=============================================================================
