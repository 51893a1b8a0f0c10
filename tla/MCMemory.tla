------------------------------ MODULE MCMemory ------------------------------
(***************************************************************************)
(* Instances of Memory: an image of one page, two heap areas, and enough   *)
(* frames for two forks and the exhaustion after them.                     *)
(***************************************************************************)
EXTENDS Memory
=============================================================================
