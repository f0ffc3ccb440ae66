---------------------------- MODULE MC_AppSchema ----------------------------
(***************************************************************************)
(* A small instance of AppSchema: three branches, one of them the default, *)
(* lists that grow, shrink, and swap one branch for another of the same    *)
(* length.                                                                 *)
(***************************************************************************)
EXTENDS AppSchema

MCBranches == {"main", "b1", "b2"}
MCLists == {<<"main">>, <<"main", "b1">>, <<"main", "b2">>}
=============================================================================
