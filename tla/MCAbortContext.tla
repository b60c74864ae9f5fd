--------------------------- MODULE MCAbortContext ---------------------------
(* AbortContext for TLC: the instances are given in the .cfg files. *)
EXTENDS AbortContext
=============================================================================
