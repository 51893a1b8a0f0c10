----------------------------- MODULE Processes -----------------------------
(***************************************************************************)
(* What fork, exit and wait4 promise their callers, without task slots,    *)
(* kernel stacks or a scheduler: every process is born once, under a pid   *)
(* never used before, dies once, keeps its exit status until it is reaped  *)
(* and is reaped once, by the process that forked it.  An orphan whose     *)
(* parent has already been reaped may be reaped by somebody else.  Nothing *)
(* is promised once the machine has stopped.                               *)
(***************************************************************************)
EXTENDS Integers

CONSTANTS
  MaxPid,    \* the largest pid
  Statuses   \* exit statuses

VARIABLES
  life,      \* what has become of each pid
  dad,       \* the pid that forked it, 0 once it is gone
  code,      \* its exit status, meaningful while it is a zombie
  stopped    \* the machine has stopped

Pids  == 1 .. MaxPid
Lives == {"unborn", "live", "zombie", "gone"}

absvars == <<life, dad, code, stopped>>

Init ==
  /\ life = [p \in Pids |-> IF p = 1 THEN "live" ELSE "unborn"]
  /\ dad = [p \in Pids |-> 0]
  /\ code = [p \in Pids |-> 0]
  /\ stopped = FALSE

\* pids are handed out in order
NextPid(c) == life[c] = "unborn" /\ \A p \in Pids : p < c => life[p] # "unborn"

Fork(p, c) ==
  /\ life[p] = "live"
  /\ NextPid(c)
  /\ life' = [life EXCEPT ![c] = "live"]
  /\ dad' = [dad EXCEPT ![c] = p]
  /\ UNCHANGED code

\* a fork that fails may use up a pid
LosePid(c) ==
  /\ NextPid(c)
  /\ life' = [life EXCEPT ![c] = "gone"]
  /\ UNCHANGED <<dad, code>>

Exit(p, status) ==
  /\ life[p] = "live"
  /\ life' = [life EXCEPT ![p] = "zombie"]
  /\ code' = [code EXCEPT ![p] = status]
  /\ UNCHANGED dad

Reap(p, c) ==
  /\ life[p] = "live"
  /\ life[c] = "zombie"
  /\ dad[c] \in Pids
  /\ dad[c] = p \/ life[dad[c]] = "gone"
  /\ life' = [life EXCEPT ![c] = "gone"]
  /\ dad' = [dad EXCEPT ![c] = 0]
  /\ code' = [code EXCEPT ![c] = 0]

Step ==
  \/ \E p, c \in Pids : Fork(p, c) \/ Reap(p, c)
  \/ \E c \in Pids : LosePid(c)
  \/ \E p \in Pids, status \in Statuses : Exit(p, status)

Next ==
  /\ ~stopped
  /\ \/ Step /\ UNCHANGED stopped
     \/ stopped'

Spec == Init /\ [][Next]_absvars
=============================================================================
