--------------------------- MODULE MC_CommentThread ---------------------------
(***************************************************************************)
(* CommentThread for TLC: three submissions, enough for a second comment  *)
(* submitted while the first is awaited and a third after both settled.   *)
(***************************************************************************)
EXTENDS CommentThread
=============================================================================
