------------------------------- MODULE MCHeap -------------------------------
(***************************************************************************)
(* An instance of Heap: a page holds a few blocks, requests cover exact    *)
(* fits, remainders too small to split and more than a minimal expansion,  *)
(* and the heap may grow past its limit.                                   *)
(***************************************************************************)
EXTENDS Heap
=============================================================================
