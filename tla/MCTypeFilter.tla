------------------------------- MODULE MCTypeFilter -------------------------------
(* Instances of TypeFilter for TLC: a namespace A, another whose name goes on *)
(* after A, and types called A.                                               *)
EXTENDS TypeFilter

MCTopNames == {<<"A", ".", "T">>, <<"A", "B", ".", "T">>, <<"B", ".", "A">>}
MCOwnNames == {<<"T">>, <<"A">>}
MCFilters == {<<>>, <<"A">>, <<"A", ".">>, <<"A", ".", "T", "T">>}
=============================================================================
