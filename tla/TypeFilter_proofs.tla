----------------------------- MODULE TypeFilter_proofs -----------------------------
(***************************************************************************)
(* Proofs about TypeFilter, for modules of any size, any nesting, names    *)
(* and filter.                                                             *)
(***************************************************************************)
EXTENDS TypeFilter, TLAPS

USE SizeAssumption DEF Types, Module

\* The test of the bits, flag by flag, accepts every nested visibility.
LEMMA NestedIsNested ==
    ASSUME NEW t, flags[t] \in NestedVisibility
    PROVE  IsNestedType(t)
<1>1. flags[t] \in {2, 3, 4, 5, 6, 7}
  BY DEF NestedVisibility, tdNestedPublic, tdNestedPrivate, tdNestedFamily, tdNestedAssembly,
         tdNestedFamANDAssem, tdNestedFamORAssem
<1>2. CASE flags[t] \in {2, 3, 6, 7}
  <2>1. 2 \in Bits(flags[t]) /\ 2 \in Bits(tdNestedPublic)
    BY <1>2 DEF Bits, tdNestedPublic
  <2>. QED
    BY <2>1 DEF IsNestedType, NestedVisibility
<1>3. CASE flags[t] \in {4, 5}
  <2>1. 4 \in Bits(flags[t]) /\ 4 \in Bits(tdNestedFamily)
    BY <1>3 DEF Bits, tdNestedFamily
  <2>. QED
    BY <2>1 DEF IsNestedType, NestedVisibility
<1>. QED
  BY <1>1, <1>2, <1>3

\* The chain of a type has the type, and leads outwards.
LEMMA ChainLeadsOut ==
    ASSUME TypeOK, NEW t \in Types
    PROVE  t \in Chain(t) /\ Outwards(Chain(t))
BY DEF Chain, Outwards, TypeOK

\* It is the least such set.
LEMMA ChainIsLeast ==
    ASSUME NEW t, NEW S \in SUBSET Types, t \in S, Outwards(S)
    PROVE  Chain(t) \subseteq S
BY DEF Chain

\* The chain of a top-level type is the type.
LEMMA ChainEnds ==
    ASSUME NEW t \in Types, enclosing[t] = Module
    PROVE  Chain(t) \subseteq {t}
<1>1. {t} \in SUBSET Types /\ t \in {t} /\ Outwards({t})
  BY DEF Outwards
<1>. QED
  BY <1>1, ChainIsLeast

\* The chain of a nested type is the type and the chain of the type around it.
LEMMA ChainGoesOn ==
    ASSUME TypeOK, NEW t \in Types, enclosing[t] # Module
    PROVE  Chain(t) \subseteq {t} \cup Chain(enclosing[t])
<1> DEFINE S == {t} \cup Chain(enclosing[t])
<1>1. enclosing[t] \in Types
  BY DEF TypeOK
<1>2. Outwards(S) /\ S \in SUBSET Types
  BY <1>1, ChainLeadsOut DEF Outwards, Chain
<1>. QED
  BY <1>2, ChainIsLeast

\* A decision for the present type leaves those before as they were.
LEMMA DecidedKeeps ==
    ASSUME WalkInductive, type \in Types, NEW found \in BOOLEAN, Decided(found),
           found <=> type \notin truncated /\ \E o \in Chain(type) : NameMatches(o)
    PROVE  WalkInductive'
<1> USE DEF WalkInductive
<1>1. /\ type' = type + 1 /\ around' = type + 1
      /\ UNCHANGED <<filter, enclosing, name, flags, truncated>>
      /\ selected' = IF found THEN selected \cup {type} ELSE selected
  BY DEF Decided, input
<1>2. \A t : Chain(t)' = Chain(t) /\ NameMatches(t)' = NameMatches(t)
  BY <1>1 DEF Chain, Outwards, NameMatches
<1>3. TypeOK'
  BY <1>1 DEF TypeOK
<1>4. \A t \in 1 .. type' - 1 :
         t \in selected' <=> t \notin truncated' /\ \E o \in Chain(t)' : NameMatches(o)'
  BY <1>1, <1>2 DEF TypeOK, SelectedByChain
<1>5. type' \in Types => around' \in Chain(type')
  BY <1>1, ChainLeadsOut DEF TypeOK
<1>. QED
  BY <1>1, <1>2, <1>3, <1>4, <1>5 DEF SelectedByChain

\* The walk keeps to its chain, and misses no match.
LEMMA WalkStep == WalkInductive /\ [Next]_vars => WalkInductive'
<1> SUFFICES ASSUME WalkInductive, [Next]_vars PROVE WalkInductive'
  OBVIOUS
<1> USE DEF WalkInductive
<1>1. CASE Match
  <2>1. \E o \in Chain(type) : NameMatches(o)
    BY <1>1 DEF Match, SelectedByChain
  <2>. QED
    BY <1>1, <2>1, DecidedKeeps DEF Match
<1>2. CASE NoMatch
  <2>1. around \in Types
    BY <1>2 DEF NoMatch, SelectedByChain, Chain
  <2>2. enclosing[around] = Module
    BY <1>2, <2>1, NestedIsNested DEF NoMatch, TypeOK
  <2>3. ~\E o \in Chain(type) : NameMatches(o)
    BY <1>2, <2>1, <2>2, ChainEnds DEF NoMatch
  <2>. QED
    BY <1>2, <2>3, DecidedKeeps DEF NoMatch
<1>3. CASE GoOut
  <2>1. /\ around' = enclosing[around]
        /\ UNCHANGED <<filter, enclosing, name, flags, truncated, type, selected>>
        /\ enclosing[around] # Module /\ ~NameMatches(around) /\ around \in Chain(type)
        /\ type \in Types /\ around \in Types
    BY <1>3 DEF GoOut, Outer, input, SelectedByChain, Chain
  <2>2. \A t : Chain(t)' = Chain(t) /\ NameMatches(t)' = NameMatches(t)
    BY <2>1 DEF Chain, Outwards, NameMatches
  <2>3. around' \in Chain(type)
    BY <2>1, ChainLeadsOut DEF Outwards
  <2>4. \A o \in Chain(type) : NameMatches(o) => o \in Chain(around')
    BY <2>1, ChainGoesOn
  <2>5. TypeOK'
    BY <2>1 DEF TypeOK
  <2>. QED
    BY <2>1, <2>2, <2>3, <2>4, <2>5 DEF SelectedByChain
<1>4. CASE Skip
  <2>1. type \in Types /\ type \in truncated
    BY <1>4 DEF Skip, TypeOK
  <2>. QED
    BY <1>4, <2>1, DecidedKeeps DEF Skip
<1>5. CASE UNCHANGED vars
  BY <1>5 DEF vars, input, TypeOK, SelectedByChain, Chain, Outwards, NameMatches
<1>. QED
  BY <1>1, <1>2, <1>3, <1>4, <1>5 DEF Next

\* The walk starts at the first type, if there is one.
LEMMA WalkInit == Init => WalkInductive
<1> SUFFICES ASSUME Init PROVE WalkInductive
  OBVIOUS
<1>1. TypeOK
  BY DEF Init, TypeOK, NestedVisibility
<1>2. type \in Types => around \in Chain(type)
  BY <1>1, ChainLeadsOut DEF Init
<1>. QED
  BY <1>1, <1>2 DEF Init, WalkInductive, SelectedByChain

\* In every module, whatever its nesting and visibilities, exactly the types of
\* the namespace and those nested in one are selected, of those whose names fit.
THEOREM ChainSelects == Spec => []SelectedByChain
<1>1. WalkInductive => SelectedByChain
  BY DEF WalkInductive
<1>. QED
  BY <1>1, WalkInit, WalkStep, PTL DEF Spec

=============================================================================
