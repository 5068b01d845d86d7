------------------------------- MODULE Inputs -------------------------------
(***************************************************************************)
(* One input of one of the functions of the engine that have no state of   *)
(* their own; input.of says which.                                         *)
(***************************************************************************)
VARIABLE input
=============================================================================
