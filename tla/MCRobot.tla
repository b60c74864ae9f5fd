------------------------------ MODULE MCRobot ------------------------------
(* Two callers, or one and the hook.                                       *)
EXTENDS Robot

Pairs == {crowd \in SUBSET Procs : Cardinality(crowd) = 2}
=============================================================================
