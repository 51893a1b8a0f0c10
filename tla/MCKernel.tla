------------------------------ MODULE MCKernel ------------------------------
(***************************************************************************)
(* An instance of Kernel: a shell that forks children, and a pipe of one   *)
(* byte on which a write of two has to wait.                               *)
(***************************************************************************)
EXTENDS Kernel

AllPids  == 1 .. MaxPid

\* any child, or the third task, which may be no child of the caller
AnyOrThird == {AnyPid, 3}
=============================================================================
