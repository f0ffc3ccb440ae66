---------------------------- MODULE MC_FilesDiff ----------------------------
(***************************************************************************)
(* FilesDiff for TLC: two fetch inputs (a branch with and without a time  *)
(* filter, say) and a route without a branch; two mounts, two changes.   *)
(***************************************************************************)
EXTENDS FilesDiff

MCParams == {"main_all", "main_since"}
=============================================================================
