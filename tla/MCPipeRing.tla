----------------------------- MODULE MCPipeRing -----------------------------
(***************************************************************************)
(* An instance of PipeRing: a ring smaller than a write, so that writes    *)
(* are split and indices wrap.                                             *)
(***************************************************************************)
EXTENDS PipeRing
=============================================================================
