------------------------------ MODULE MCTasks ------------------------------
(***************************************************************************)
(* Instances of Tasks: a few slots, fewer pids than would exhaust the      *)
(* search, and a slot that is reaped and reused within the bound.          *)
(***************************************************************************)
EXTENDS Tasks

AllPids    == 1 .. MaxPid
NoPids     == {}
AnyChild   == {AnyPid}
AnyOrThird == {AnyPid, 3}
=============================================================================
