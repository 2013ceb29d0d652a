-------------------------------- MODULE TypeFilter --------------------------------
(***************************************************************************)
(* Which types of a module get instrumented: the loop of                   *)
(* GetModuleTypesToInstrument over the module's types, and for each nested *)
(* type the walk of IsNestedTypeInNamespace through the types around it.   *)
(*                                                                         *)
(* Metadata keep the full name of a top-level type, and of a nested type   *)
(* its own name alone; a type comes after the type that encloses it.       *)
(***************************************************************************)
EXTENDS Naturals, SequencesExt

CONSTANTS
    Size,      \* types of the module
    TopNames,  \* full names of top-level types, as sequences of parts
    OwnNames,  \* names of nested types
    Filters    \* namespace filters

ASSUME SizeAssumption == Size \in Nat

Types == 1 .. Size
Module == 0       \* encloses the top-level types

\* The visibility bits of typeDefFlags.
TopVisibility == {0, 1}
tdNestedPublic == 2
tdNestedPrivate == 3
tdNestedFamily == 4
tdNestedAssembly == 5
tdNestedFamANDAssem == 6
tdNestedFamORAssem == 7
NestedVisibility ==
    {tdNestedPublic, tdNestedPrivate, tdNestedFamily, tdNestedAssembly, tdNestedFamANDAssem,
     tdNestedFamORAssem}

VARIABLES
    filter,     \* the namespace filter
    enclosing,  \* type -> the type around it, or Module
    name,       \* type -> its name
    flags,      \* type -> its visibility
    truncated,  \* types whose names do not fit the buffer for them
    type,       \* the type under examination
    around,     \* how far the walk around it has got
    selected    \* types found in the namespace

input == <<filter, enclosing, name, flags, truncated>>
vars == <<input, type, around, selected>>

Init ==
    /\ filter \in Filters
    /\ enclosing \in {e \in [Types -> 0 .. Size] : \A t \in Types : e[t] < t}
    /\ name \in {n \in [Types -> TopNames \cup OwnNames] :
                   \A t \in Types : n[t] \in IF enclosing[t] = Module THEN TopNames ELSE OwnNames}
    /\ flags \in {f \in [Types -> 0 .. 7] :
                    \A t \in Types : f[t] \in IF enclosing[t] = Module THEN TopVisibility
                                              ELSE NestedVisibility}
    /\ truncated \in SUBSET Types
    /\ type = 1
    /\ around = 1
    /\ selected = {}

\* Operators named Wrong... are plausible mistakes in the code: each replaces
\* the definition it precedes to show that a property notices.

\* wcsncmp over the length of the filter, which is shorter than the buffer:
\* what has been truncated from a name does not matter.
NameMatches(t) == IsPrefix(filter, name[t])

\* The bits of a visibility: tdVisibilityMask has three.
Bits(v) == {b \in {1, 2, 4} : (v \div b) % 2 = 1}

\* A test that takes the visibility for a bit.
WrongIsNestedType(t) == Bits(flags[t]) \cap Bits(tdNestedPublic) # {}

\* The bits of all the nested visibilities, one after the other.
IsNestedType(t) == \E v \in NestedVisibility : Bits(flags[t]) \cap Bits(v) # {}

\* The answer for the type is known: on to the next one.
Decided(found) ==
    /\ selected' = IF found THEN selected \cup {type} ELSE selected
    /\ type' = type + 1
    /\ around' = type + 1
    /\ UNCHANGED input

\* GetTypeDefProps fills the buffer and returns CLDB_S_TRUNCATION, not S_OK: the
\* loop leaves the type out.  The walk around a nested type takes any success.
Skip ==
    /\ type \in Types \cap truncated
    /\ Decided(FALSE)

\* The name of the type, or of one around it, starts with the filter.
Match ==
    /\ type \in Types \ truncated
    /\ NameMatches(around)
    /\ Decided(TRUE)

\* The walk ends at a type that is not nested.  A public top-level type passes
\* for a nested one, and GetNestedClassProps then finds nothing around it.
NoMatch ==
    /\ type \in Types \ truncated
    /\ ~NameMatches(around)
    /\ ~IsNestedType(around) \/ enclosing[around] = Module
    /\ Decided(FALSE)

\* The type the walk goes on with.
Outer(t) == enclosing[t]

GoOut ==
    /\ type \in Types \ truncated
    /\ ~NameMatches(around)
    /\ IsNestedType(around) /\ enclosing[around] # Module
    /\ around' = Outer(around)
    /\ UNCHANGED <<input, type, selected>>

Next == Skip \/ Match \/ NoMatch \/ GoOut

Spec == Init /\ [][Next]_vars

-----------------------------------------------------------------------------
(* Properties.                                                             *)

\* With every type, S has the type around it.
Outwards(S) == \A u \in S : enclosing[u] # Module => enclosing[u] \in S

\* The type itself and the types around it: what every such set with t has.
Chain(t) == {o \in Types : \A S \in SUBSET Types : t \in S /\ Outwards(S) => o \in S}

\* Whatever their visibility and however deep they are nested, a type whose name
\* fits the buffer is selected exactly if the filter is a prefix of its own name or
\* of the name of a type around it, a name that does not fit among them: no such
\* type of the namespace is left out, and the walk never leaves the types around
\* the one it decides about.
SelectedByChain ==
    /\ \A t \in 1 .. type - 1 :
         t \in selected <=> t \notin truncated /\ \E o \in Chain(t) : NameMatches(o)
    /\ type \in Types => around \in Chain(type)

\* Metadata as they are, and a walk within them.
TypeOK ==
    /\ enclosing \in [Types -> 0 .. Size]
    /\ \A t \in Types : enclosing[t] < t
    /\ flags \in [Types -> 0 .. 7]
    /\ truncated \subseteq Types
    /\ \A t \in Types : enclosing[t] # Module => flags[t] \in NestedVisibility
    /\ type \in 1 .. Size + 1
    /\ selected \subseteq 1 .. type - 1

\* What makes SelectedByChain inductive: no type the walk has passed by matches.
WalkInductive ==
    /\ TypeOK
    /\ SelectedByChain
    /\ type \in Types => \A o \in Chain(type) : NameMatches(o) => o \in Chain(around)

=============================================================================
