------------------------------ MODULE MCPipes ------------------------------
(***************************************************************************)
(* Instances of Pipes: two tasks and two pipes, so that a slot of either   *)
(* kind is freed and handed out again.                                     *)
(***************************************************************************)
EXTENDS Pipes
=============================================================================
