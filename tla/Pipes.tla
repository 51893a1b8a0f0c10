------------------------------- MODULE Pipes -------------------------------
(***************************************************************************)
(* File descriptor tables and pipe reference counts (the descriptor calls  *)
(* of core/syscall.c, pipe and descriptor code of core/proc.c).            *)
(*                                                                         *)
(* Every task has a table of PROC_MAX_FD descriptors.  Each descriptor is  *)
(* an object of its own: dup and fork copy it.  A pipe counts the          *)
(* descriptors open on either end; end of file on a read and EPIPE on a    *)
(* write, and the reuse of the pipe's slot, are decided by these counts    *)
(* alone.  close is the only call that lowers them.                        *)
(*                                                                         *)
(* The calls are atomic (the kernel does not preempt) and any live task    *)
(* may make the next one.  What flows through a pipe is the business of    *)
(* PipeRing.                                                               *)
(***************************************************************************)
EXTENDS Integers, FiniteSets

CONSTANTS
  NTasks,    \* PROC_MAX_TASKS
  NFds,      \* PROC_MAX_FD
  StdFds,    \* exec keeps descriptors below this one (3)
  NPipes,    \* PROC_MAX_PIPE
  MaxRefs    \* bound: no call raises a count above it

ASSUME SizesAssumption ==
  /\ NTasks \in Nat \ {0} /\ NPipes \in Nat \ {0}
  /\ NFds \in Nat /\ StdFds \in 0 .. NFds
  /\ MaxRefs \in Nat \ {0}

Tasks   == 0 .. NTasks - 1
Fds     == 0 .. NFds - 1
PipeIds == 0 .. NPipes - 1
NoPipe  == -1

(***************************************************************************)
(* A descriptor: NULL, the console (or /dev/null), an open file, an object *)
(* whose inode vfs_close has cleared or whose path the heap has spoilt, or *)
(* an end of a pipe.                                                       *)
(***************************************************************************)
Ends == {"read", "write"}
NULL    == [kind |-> "null", pipe |-> NoPipe]
Console == [kind |-> "console", pipe |-> NoPipe]
File    == [kind |-> "file", pipe |-> NoPipe]
Closed  == [kind |-> "closed", pipe |-> NoPipe]
End(p, e) == [kind |-> e, pipe |-> p]
Descriptors == {NULL, Console, File, Closed} \cup {End(p, e) : p \in PipeIds, e \in Ends}

VARIABLES
  alive,     \* slots of tasks that have not exited
  fds,       \* tasks[t].fds
  in_use,    \* pipes[p].in_use
  refs       \* pipes[p].readers ("read") and pipes[p].writers ("write")

vars == <<alive, fds, in_use, refs>>

TypeOK ==
  /\ alive \subseteq Tasks
  /\ fds \in [Tasks -> [Fds -> Descriptors]]
  /\ in_use \in [PipeIds -> BOOLEAN]
  /\ refs \in [PipeIds -> [Ends -> Nat]]

\* proc_init opens the console on the standard descriptors.
Init ==
  /\ alive = {0}
  /\ fds = [t \in Tasks |-> [f \in Fds |->
              IF t = 0 /\ f < StdFds THEN Console ELSE NULL]]
  /\ in_use = [p \in PipeIds |-> FALSE]
  /\ refs = [p \in PipeIds |-> [e \in Ends |-> 0]]

-----------------------------------------------------------------------------
(***************************************************************************)
(* Helpers.                                                                *)
(***************************************************************************)

\* fd_alloc and fd_dup_from take the lowest free descriptor from min on.
FirstFree(t, f, min) ==
  /\ f >= min
  /\ fds[t][f] = NULL
  /\ \A g \in Fds : min <= g /\ g < f => fds[t][g] # NULL

\* The counts after the descriptors in tab[F] have been copied once more.
Copied(p, e, tab, F) == Cardinality({f \in F : tab[f] = End(p, e)})

\* Faulty variant, for mutation testing.
CountsAfterCopy_forgotten(tab, F) == refs

\* Faulty variant, for mutation testing.
CountsAfterCopy_both_ends(tab, F) ==
  [p \in PipeIds |-> [e \in Ends |->
     refs[p][e] + Copied(p, "read", tab, F) + Copied(p, "write", tab, F)]]

CountsAfterCopy(tab, F) ==
  [p \in PipeIds |-> [e \in Ends |-> refs[p][e] + Copied(p, e, tab, F)]]

WithinBound(c) == \A p \in PipeIds, e \in Ends : c[p][e] <= MaxRefs

\* memcpy of a descriptor plus readers++ or writers++
CopyDescriptor(t, old, new, src) ==
  /\ fds' = [fds EXCEPT ![t][new] = src]
  /\ refs' = CountsAfterCopy(fds[t], {old})
  /\ WithinBound(refs')
  /\ UNCHANGED <<alive, in_use>>

-----------------------------------------------------------------------------
(***************************************************************************)
(* The calls.                                                              *)
(***************************************************************************)

\* open of a file or a device
sys_open_path(t) ==
  \E f \in Fds, d \in {File, Console} :
    /\ FirstFree(t, f, 0)
    /\ fds' = [fds EXCEPT ![t][f] = d]
    /\ UNCHANGED <<alive, in_use, refs>>

\* proc_pipe_alloc
FirstFreePipe(p) == ~in_use[p] /\ \A q \in PipeIds : q < p => in_use[q]

sys_pipe_impl(t) ==
  \E p \in PipeIds, r, w \in Fds :
    /\ FirstFreePipe(p)
    /\ FirstFree(t, r, 0)
    /\ FirstFree(t, w, r + 1)
    /\ fds' = [fds EXCEPT ![t][r] = End(p, "read"), ![t][w] = End(p, "write")]
    /\ in_use' = [in_use EXCEPT ![p] = TRUE]
    /\ refs' = [refs EXCEPT ![p] = [e \in Ends |-> 1]]
    /\ UNCHANGED alive

\* The pipe is given back when a descriptor cannot be had (before the counts
\* are set) or the numbers cannot be copied to the caller (after).
sys_pipe_fails(t) ==
  \E p \in PipeIds, n \in {0, 1} :
    /\ FirstFreePipe(p)
    /\ n = 1 => Cardinality({f \in Fds : fds[t][f] = NULL}) >= 2
    /\ refs' = [refs EXCEPT ![p] = [e \in Ends |-> n]]
    /\ UNCHANGED <<alive, fds, in_use>>

\* dup
sys_dup(t) ==
  \E old, new \in Fds :
    /\ fds[t][old] # NULL
    /\ FirstFree(t, new, 0)
    /\ CopyDescriptor(t, old, new, fds[t][old])

\* Faulty variant, for mutation testing.
VfsClosed_pipe_too(d) == {[d EXCEPT !.pipe = NoPipe]}

\* What is left of an object that vfs_close and kfree were called on.  The
\* heap may write a header over its inode and path, not over its last 16
\* bytes, which hold the pipe.
VfsClosed(d) ==
  CASE d = File -> {Closed} [] d = Console -> {Console, Closed} [] OTHER -> {d}

\* dup2 and dup3: the descriptor at new is dropped without telling its pipe;
\* when new is old, the object is copied after it was freed.
sys_dup2(t) ==
  \E old, new \in Fds :
    /\ fds[t][old] # NULL
    /\ \E src \in IF new = old THEN VfsClosed(fds[t][old]) ELSE {fds[t][old]} :
         CopyDescriptor(t, old, new, src)

\* fcntl F_DUPFD: fd_dup_from
fd_dup_from(t) ==
  \E old, new, min \in Fds :
    /\ fds[t][old] # NULL
    /\ FirstFree(t, new, min)
    /\ CopyDescriptor(t, old, new, fds[t][old])

\* close; the last end to go frees the pipe
Lowered(n) == IF n > 0 THEN n - 1 ELSE n

\* Faulty variant, for mutation testing.
sys_close_frees_early(t) ==
  \E f \in Fds :
    LET d == fds[t][f] IN
    /\ d # NULL
    /\ fds' = [fds EXCEPT ![t][f] = NULL]
    /\ IF d.pipe = NoPipe
         THEN UNCHANGED <<in_use, refs>>
         ELSE /\ refs' = [refs EXCEPT ![d.pipe][d.kind] = Lowered(@)]
              /\ in_use' = [in_use EXCEPT ![d.pipe] = @ /\ refs'[d.pipe][d.kind] # 0]
    /\ UNCHANGED alive

sys_close(t) ==
  \E f \in Fds :
    LET d == fds[t][f] IN
    /\ d # NULL
    /\ fds' = [fds EXCEPT ![t][f] = NULL]
    /\ IF d.pipe = NoPipe
         THEN UNCHANGED <<in_use, refs>>
         ELSE /\ refs' = [refs EXCEPT ![d.pipe][d.kind] = Lowered(@)]
              /\ in_use' = [in_use EXCEPT ![d.pipe] =
                              @ /\ \E e \in Ends : refs'[d.pipe][e] # 0]
    /\ UNCHANGED alive

\* execve: proc_fd_close_all drops every descriptor above the standard ones,
\* again without telling the pipes
proc_fd_close_all(t) ==
  /\ fds' = [fds EXCEPT ![t] =
               [f \in Fds |-> IF f >= StdFds THEN NULL ELSE @[f]]]
  /\ UNCHANGED <<alive, in_use, refs>>

\* proc_fork copies the table descriptor by descriptor; the slot is free
\* because its last task, if any, was reaped
proc_fork(t) ==
  \E c \in Tasks \ alive :
    /\ fds' = [fds EXCEPT ![c] = fds[t]]
    /\ refs' = CountsAfterCopy(fds[t], Fds)
    /\ WithinBound(refs')
    /\ alive' = alive \cup {c}
    /\ UNCHANGED in_use

\* Memory runs out at descriptor k: what was copied stays counted.
proc_fork_fails(t) ==
  \E k \in Fds :
    /\ alive # Tasks
    /\ fds[t][k] # NULL
    /\ refs' = CountsAfterCopy(fds[t], {f \in Fds : f < k})
    /\ WithinBound(refs')
    /\ UNCHANGED <<alive, fds, in_use>>

\* exit closes nothing: the descriptors are out of everybody's reach, and
\* wiped when the slot is used again
proc_exit(t) ==
  /\ alive' = alive \ {t}
  /\ fds' = [fds EXCEPT ![t] = [f \in Fds |-> NULL]]
  /\ UNCHANGED <<in_use, refs>>

Next ==
  \E t \in alive :
    \/ sys_open_path(t) \/ sys_pipe_impl(t) \/ sys_pipe_fails(t)
    \/ sys_dup(t) \/ sys_dup2(t) \/ fd_dup_from(t) \/ sys_close(t)
    \/ proc_fd_close_all(t) \/ proc_fork(t) \/ proc_fork_fails(t) \/ proc_exit(t)

Spec == Init /\ [][Next]_vars

-----------------------------------------------------------------------------
(***************************************************************************)
(* Properties.                                                             *)
(***************************************************************************)

\* The descriptors live tasks have open on one end of a pipe.
OpenEnds(p, e) == {x \in alive \X Fds : fds[x[1]][x[2]] = End(p, e)}

\* A pipe never counts fewer readers or writers than there are: a reader is
\* not told end of file while somebody can still write, and a writer does not
\* get EPIPE while somebody can still read (every ++ and -- on the counts,
\* and every descriptor dropped without one).
CountsCoverOpenEnds ==
  \A p \in PipeIds, e \in Ends :
    in_use[p] => refs[p][e] >= Cardinality(OpenEnds(p, e))

\* No descriptor of a live task refers to a pipe slot that has been freed,
\* and that the next pipe call would hand out again (proc_pipe_free).
OpenEndsInUse ==
  \A p \in PipeIds, e \in Ends : OpenEnds(p, e) # {} => in_use[p]

\* End of file and EPIPE are final: the count of an end that has reached zero
\* does not come back while the pipe exists (dup, fork and close together).
ZeroIsFinal ==
  \A p \in PipeIds, e \in Ends :
    in_use[p] /\ in_use'[p] /\ refs[p][e] = 0 => refs'[p][e] = 0

EndOfFileIsFinal == [][ZeroIsFinal]_vars
=============================================================================
