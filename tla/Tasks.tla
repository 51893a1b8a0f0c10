------------------------------- MODULE Tasks -------------------------------
(***************************************************************************)
(* The task table of TypeOS: fork, wait4, exit, blocking and the           *)
(* cooperative scheduler (core/proc.c, core/sched.c, the wait4 and exit    *)
(* cases of core/syscall.c, core/gdtasm.asm and core/setjmp.asm).          *)
(*                                                                         *)
(* The kernel runs one task at a time and never preempts: interrupts are   *)
(* masked during a system call and the timer handler only counts.  The CPU *)
(* moves between tasks in three ways.                                      *)
(*   - proc_run_runnable, called by a task that waits, saves the place it  *)
(*     was called from in the one global fork_jmp_buf and resumes another  *)
(*     task in user mode; the saved place is jumped back to when a task    *)
(*     exits (proc_fork_sync_exit).                                        *)
(*   - sched_block_current marks the caller BLOCKED and, when two or more  *)
(*     other tasks are ready, makes another one current WITHOUT leaving    *)
(*     the kernel stack it runs on.                                        *)
(*   - a system call returns to the user context of whichever task is      *)
(*     current by then.                                                    *)
(*                                                                         *)
(* A task is a slot of tasks[]; each owns a kernel stack.  What programs   *)
(* do (which calls they make, in which order) and whether an I/O call has  *)
(* to wait is nondeterministic.                                            *)
(***************************************************************************)
EXTENDS Integers, FiniteSets

CONSTANTS
  NTasks,     \* PROC_MAX_TASKS
  MaxPid,     \* bound: no pid above it is handed out
  Statuses,   \* the exit statuses programs use
  Forkers,    \* pids whose programs call fork
  Blockers,   \* pids whose programs make I/O calls that may have to wait
  WaitPids    \* the pid arguments programs give wait4

ASSUME NTasksAssumption == NTasks \in Nat \ {0}
ASSUME MaxPidAssumption == MaxPid \in Nat \ {0}
ASSUME StatusesAssumption == Statuses \subseteq Int /\ Statuses # {}
ASSUME ProgramsAssumption == Forkers \subseteq Nat /\ Blockers \subseteq Nat
ASSUME WaitPidsAssumption == WaitPids \subseteq Int

AnyPid == -1                       \* wait4's "any child"
NoTask == -1                       \* the NULL task pointer
Slots  == 0 .. NTasks - 1          \* indices of tasks[]

TaskStates == {"UNUSED", "RUNNABLE", "RUNNING", "BLOCKED", "ZOMBIE"}
Calls      == {"none", "wait4", "io", "exit"}

VARIABLES
  state,        \* tasks[t].state
  pid,          \* tasks[t].pid
  ppid,         \* tasks[t].ppid
  parent,       \* tasks[t].parent
  exit_status,  \* tasks[t].exit_status
  kstack,       \* what the kernel stack of task t holds
  current,      \* current_task
  stk,          \* the task whose kernel stack the CPU is on
  jmp,          \* fork_jmp_buf, fork_jmp_active, fork_jmp_parent
  rr_index,     \* sched.c's round robin cursor
  next_pid,     \* next pid to hand out
  mode          \* what the CPU is doing

table == <<state, pid, ppid, parent, exit_status>>
vars  == <<table, kstack, current, stk, jmp, rr_index, next_pid, mode>>

(***************************************************************************)
(* A kernel stack is unused while its task runs user code ("user"), at the *)
(* head of the loop of a call that may wait ("top"), or suspended inside   *)
(* proc_run_runnable ("run").                                              *)
(***************************************************************************)
Frames    == [call : Calls, arg : Int, at : {"user", "top", "run"}]
UserFrame == [call |-> "none", arg |-> 0, at |-> "user"]
TopFrame(call, arg)       == [call |-> call, arg |-> arg, at |-> "top"]
SuspendedFrame(call, arg) == [call |-> call, arg |-> arg, at |-> "run"]

(***************************************************************************)
(* fork_jmp_buf: the stack it points into, the call suspended there, and   *)
(* whether that stack still holds the suspended call (fresh) or has been   *)
(* overwritten by a later system call.  stk is NoTask when the stack       *)
(* outlived its task: the slot was reaped and got a new stack.             *)
(***************************************************************************)
Jumps  == [active : BOOLEAN, parent : Slots \cup {NoTask},
           stk : Slots \cup {NoTask}, fresh : BOOLEAN, call : Calls, arg : Int]
NoJump == [active |-> FALSE, parent |-> NoTask, stk |-> NoTask,
           fresh |-> FALSE, call |-> "none", arg |-> 0]

(***************************************************************************)
(* "idle" is the hlt loop of sched_block_current, "halt" the one at the    *)
(* end of exit, "wild" a jump through a fork_jmp_buf whose stack has been  *)
(* overwritten.  No interrupt the kernel enables leaves any of them: the   *)
(* timer handler changes no task and the keyboard line is masked.          *)
(***************************************************************************)
Modes == {"user", "kernel", "idle", "halt", "wild"}

TypeOK ==
  /\ state \in [Slots -> TaskStates]
  /\ pid \in [Slots -> Nat]
  /\ ppid \in [Slots -> Nat]
  /\ parent \in [Slots -> Slots \cup {NoTask}]
  /\ exit_status \in [Slots -> Statuses \cup {0}]
  /\ kstack \in [Slots -> Frames]
  /\ current \in Slots
  /\ stk \in Slots
  /\ jmp \in Jumps
  /\ rr_index \in Slots
  /\ next_pid \in Nat
  /\ mode \in Modes

(***************************************************************************)
(* proc_init and sched_init, after /bin/sh was started in task 0.          *)
(***************************************************************************)
Init ==
  /\ state = [t \in Slots |-> IF t = 0 THEN "RUNNING" ELSE "UNUSED"]
  /\ pid = [t \in Slots |-> IF t = 0 THEN 1 ELSE 0]
  /\ ppid = [t \in Slots |-> 0]
  /\ parent = [t \in Slots |-> NoTask]
  /\ exit_status = [t \in Slots |-> 0]
  /\ kstack = [t \in Slots |-> UserFrame]
  /\ current = 0
  /\ stk = 0
  /\ jmp = NoJump
  /\ rr_index = 0
  /\ next_pid = 2
  /\ mode = "user"

-----------------------------------------------------------------------------
(***************************************************************************)
(* Entering and leaving the kernel.                                        *)
(***************************************************************************)

\* Faulty variant, for mutation testing.
Entered_still_fresh(j) == j

\* syscall_entry switches to the top of the current task's kernel stack and
\* overwrites whatever was suspended there.
Entered(j) == [j EXCEPT !.fresh = @ /\ j.stk # current]

\* Faulty variant, for mutation testing.
ReturnToUser_to_saved ==
  /\ kstack' = [kstack EXCEPT ![stk] = UserFrame]
  /\ stk' = jmp.parent
  /\ mode' = "user"

\* The end of syscall_entry: sysret into the user context of current_task,
\* not of the task that made the call.
ReturnToUser ==
  /\ kstack' = [kstack EXCEPT ![stk] = UserFrame]
  /\ stk' = current
  /\ mode' = "user"

\* The system call being executed.
Frame == kstack[stk]

AtTop(call) == mode = "kernel" /\ Frame.call = call /\ Frame.at = "top"

(***************************************************************************)
(* fork: proc_alloc_task takes the lowest UNUSED slot.                     *)
(***************************************************************************)

\* Faulty variant, for mutation testing.
FirstUnused_or_zombie(c) ==
  /\ state[c] \in {"UNUSED", "ZOMBIE"}
  /\ \A t \in Slots : t < c => state[t] \notin {"UNUSED", "ZOMBIE"}

FirstUnused(c) ==
  /\ state[c] = "UNUSED"
  /\ \A t \in Slots : t < c => state[t] # "UNUSED"

\* The slot gets a new kernel stack, so a jump into the old one keeps its
\* target, which belongs to no task any more.
Detached(j, c) == [j EXCEPT !.stk = IF @ = c THEN NoTask ELSE @]

\* Faulty variant, for mutation testing.
proc_alloc_task_same_pid(c) ==
  /\ next_pid <= MaxPid
  /\ FirstUnused(c)
  /\ pid' = [pid EXCEPT ![c] = next_pid]
  /\ exit_status' = [exit_status EXCEPT ![c] = 0]
  /\ kstack' = [kstack EXCEPT ![c] = UserFrame]
  /\ jmp' = Detached(Entered(jmp), c)
  /\ UNCHANGED next_pid

\* memset and the pid.
proc_alloc_task(c) ==
  /\ next_pid <= MaxPid
  /\ FirstUnused(c)
  /\ pid' = [pid EXCEPT ![c] = next_pid]
  /\ next_pid' = next_pid + 1
  /\ exit_status' = [exit_status EXCEPT ![c] = 0]
  /\ kstack' = [kstack EXCEPT ![c] = UserFrame]
  /\ jmp' = Detached(Entered(jmp), c)

MayFork == mode = "user" /\ pid[current] \in Forkers

proc_fork ==
  /\ MayFork
  /\ \E c \in Slots :
       /\ proc_alloc_task(c)
       /\ state' = [state EXCEPT ![c] = "RUNNABLE"]
       /\ ppid' = [ppid EXCEPT ![c] = pid[current]]
       /\ parent' = [parent EXCEPT ![c] = current]
  /\ UNCHANGED <<current, stk, rr_index, mode>>

\* No memory for the stack or the address space (early) or for a
\* descriptor (late, when parent and ppid are already set).
proc_fork_fails ==
  /\ MayFork
  /\ \E c \in Slots, late \in BOOLEAN :
       /\ proc_alloc_task(c)
       /\ ppid' = [ppid EXCEPT ![c] = IF late THEN pid[current] ELSE 0]
       /\ parent' = [parent EXCEPT ![c] = IF late THEN current ELSE NoTask]
  /\ UNCHANGED <<state, current, stk, rr_index, mode>>

proc_fork_full ==
  /\ MayFork
  /\ \A c \in Slots : state[c] # "UNUSED"
  /\ jmp' = Entered(jmp)
  /\ UNCHANGED <<table, kstack, current, stk, rr_index, next_pid, mode>>

-----------------------------------------------------------------------------
(***************************************************************************)
(* proc_run_runnable: the lowest RUNNABLE task other than the caller is    *)
(* resumed in user mode, the caller's place saved in fork_jmp_buf.         *)
(***************************************************************************)
FirstRunnable(t) ==
  /\ t # current
  /\ state[t] = "RUNNABLE"
  /\ \A u \in Slots : (u < t /\ u # current) => state[u] # "RUNNABLE"

NoRunnable == \A u \in Slots \ {current} : state[u] # "RUNNABLE"

SavedPlace(call, arg) ==
  [active |-> TRUE, parent |-> current, stk |-> stk, fresh |-> TRUE,
   call |-> call, arg |-> arg]

\* Faulty variant, for mutation testing.
proc_run_runnable_unmarked ==
  \E t \in Slots :
    /\ FirstRunnable(t)
    /\ jmp' = SavedPlace(Frame.call, Frame.arg)
    /\ kstack' = [kstack EXCEPT ![stk] = SuspendedFrame(Frame.call, Frame.arg),
                                ![t] = UserFrame]
    /\ current' = t
    /\ stk' = t
    /\ mode' = "user"
    /\ UNCHANGED state

proc_run_runnable ==
  \E t \in Slots :
    /\ FirstRunnable(t)
    /\ jmp' = SavedPlace(Frame.call, Frame.arg)
    /\ state' = [state EXCEPT ![t] = "RUNNING"]
    /\ kstack' = [kstack EXCEPT ![stk] = SuspendedFrame(Frame.call, Frame.arg),
                                ![t] = UserFrame]
    /\ current' = t
    /\ stk' = t
    /\ mode' = "user"

(***************************************************************************)
(* sched_block_current, once proc_run_runnable has found nothing.          *)
(***************************************************************************)
Ready(t) == t # current /\ state[t] \in {"RUNNABLE", "RUNNING"}

\* sched_pick_next: round robin from rr_index.
PickNext(t) ==
  \E i \in 0 .. NTasks - 1 :
    /\ t = (rr_index + i + 1) % NTasks
    /\ Ready(t)
    /\ \A j \in 0 .. NTasks - 1 : j < i => ~Ready((rr_index + j + 1) % NTasks)

\* sched_count_runnable () <= 1: nothing to switch to.
NothingToSwitchTo == \A t, u \in Slots : Ready(t) /\ Ready(u) => t = u

\* Faulty variant, for mutation testing.
sched_block_current_unblocked ==
  /\ NoRunnable
  /\ \/ /\ NothingToSwitchTo
        /\ state' = [state EXCEPT ![current] = "BLOCKED"]
        /\ mode' = "idle"
        /\ UNCHANGED <<current, rr_index>>
     \/ /\ ~NothingToSwitchTo
        /\ \E t \in Slots :
             /\ PickNext(t)
             /\ state' = [state EXCEPT ![t] = "RUNNING"]
             /\ current' = t
             /\ rr_index' = t
        /\ UNCHANGED mode
  /\ UNCHANGED <<pid, ppid, parent, exit_status, kstack, stk, jmp, next_pid>>

sched_block_current ==
  /\ NoRunnable
  /\ \/ /\ NothingToSwitchTo
        /\ state' = [state EXCEPT ![current] = "BLOCKED"]
        /\ mode' = "idle"
        /\ UNCHANGED <<current, rr_index>>
     \/ /\ ~NothingToSwitchTo
        /\ \E t \in Slots :
             /\ PickNext(t)
             /\ state' = [state EXCEPT ![current] = "BLOCKED", ![t] = "RUNNING"]
             /\ current' = t
             /\ rr_index' = t
        /\ UNCHANGED mode
  /\ UNCHANGED <<pid, ppid, parent, exit_status, kstack, stk, jmp, next_pid>>

-----------------------------------------------------------------------------
(***************************************************************************)
(* wait4.                                                                  *)
(***************************************************************************)
Enter(call, arg) ==
  /\ mode = "user"
  /\ jmp' = Entered(jmp)
  /\ kstack' = [kstack EXCEPT ![current] = TopFrame(call, arg)]
  /\ mode' = "kernel"
  /\ UNCHANGED <<table, current, stk, rr_index, next_pid>>

wait4 == \E arg \in WaitPids : Enter("wait4", arg)

\* Faulty variant, for mutation testing.
ZombieChild_of_anyone(c, arg) == state[c] = "ZOMBIE" /\ arg \in {AnyPid, pid[c]}

\* Faulty variant, for mutation testing.
ZombieChild_exact_pid(c, arg) ==
  state[c] = "ZOMBIE" /\ parent[c] = current /\ arg = pid[c]

ZombieChild(c, arg) ==
  /\ state[c] = "ZOMBIE"
  /\ parent[c] = current
  /\ arg \in {AnyPid, pid[c]}

\* proc_has_children
proc_has_children ==
  \E c \in Slots : state[c] # "UNUSED" /\ parent[c] = current

NothingToReap(arg) == \A c \in Slots : ~ZombieChild(c, arg)

\* proc_fork_take_status finds a child; the slot is free again whether or
\* not the status can be copied out.
wait4_reap ==
  /\ AtTop("wait4")
  /\ \E c \in Slots :
       /\ ZombieChild(c, Frame.arg)
       /\ \A d \in Slots : d < c => ~ZombieChild(d, Frame.arg)
       /\ state' = [state EXCEPT ![c] = "UNUSED"]
  /\ ReturnToUser
  /\ UNCHANGED <<pid, ppid, parent, exit_status, current, jmp, rr_index, next_pid>>

\* E_CHLD
wait4_no_child ==
  /\ AtTop("wait4")
  /\ ~proc_has_children
  /\ ReturnToUser
  /\ UNCHANGED <<table, current, jmp, rr_index, next_pid>>

wait4_waits ==
  AtTop("wait4") /\ NothingToReap(Frame.arg) /\ proc_has_children

wait4_run ==
  /\ wait4_waits
  /\ proc_run_runnable
  /\ UNCHANGED <<pid, ppid, parent, exit_status, rr_index, next_pid>>

wait4_block == wait4_waits /\ sched_block_current

-----------------------------------------------------------------------------
(***************************************************************************)
(* The I/O calls that may wait: read and write of a pipe, read of the      *)
(* console.  Whether data or room is there is not this module's business.  *)
(***************************************************************************)
io == pid[current] \in Blockers /\ Enter("io", 0)

\* The call completes; a pipe write or a key press wakes every sleeper.
sched_wake_all ==
  [t \in Slots |-> IF state[t] = "BLOCKED" THEN "RUNNABLE" ELSE state[t]]

io_done ==
  /\ AtTop("io")
  /\ \E woke \in BOOLEAN : state' = IF woke THEN sched_wake_all ELSE state
  /\ ReturnToUser
  /\ UNCHANGED <<pid, ppid, parent, exit_status, current, jmp, rr_index, next_pid>>

\* A pipe write stored part of its data and goes on.  Only a task that has
\* not been switched away from gets further: nothing drained the pipe since.
io_progress ==
  /\ AtTop("io")
  /\ stk = current
  /\ state' = sched_wake_all
  /\ UNCHANGED <<pid, ppid, parent, exit_status, kstack, current, stk, jmp,
                 rr_index, next_pid, mode>>

io_run ==
  /\ AtTop("io")
  /\ proc_run_runnable
  /\ UNCHANGED <<pid, ppid, parent, exit_status, rr_index, next_pid>>

io_block == AtTop("io") /\ sched_block_current

-----------------------------------------------------------------------------
(***************************************************************************)
(* exit.  The task becomes a zombie and a BLOCKED parent is woken.         *)
(***************************************************************************)
Dying(status) ==
  /\ mode = "user"
  /\ exit_status' = [exit_status EXCEPT ![current] = status]

\* proc_wake_parent, with the caller already a ZOMBIE.
proc_wake_parent ==
  [t \in Slots |->
     CASE t = current -> "ZOMBIE"
       [] t # current /\ t = parent[current] /\ state[t] = "BLOCKED" -> "RUNNABLE"
       [] OTHER -> state[t]]

\* proc_fork_sync_exit: back to the place saved by the last
\* proc_run_runnable, which makes its caller RUNNING again and returns to
\* the loop it was called from, or to the hlt loop that ends exit.
exit_jump ==
  /\ jmp.active /\ Entered(jmp).fresh
  /\ \E status \in Statuses : Dying(status)
  /\ state' = [proc_wake_parent EXCEPT ![jmp.parent] = "RUNNING"]
  /\ current' = jmp.parent
  /\ jmp' = NoJump
  /\ IF jmp.call = "exit" \/ jmp.stk = NoTask
       THEN mode' = "halt" /\ UNCHANGED <<stk, kstack>>
       ELSE /\ mode' = "kernel"
            /\ stk' = jmp.stk
            /\ kstack' = [kstack EXCEPT ![jmp.stk] = TopFrame(jmp.call, jmp.arg)]
  /\ UNCHANGED <<pid, ppid, parent, rr_index, next_pid>>

\* The saved place is gone: longjmp_asm loads rsp and rip from it all the same.
exit_wild ==
  /\ jmp.active /\ ~Entered(jmp).fresh
  /\ \E status \in Statuses : Dying(status)
  /\ state' = proc_wake_parent
  /\ jmp' = Entered(jmp)
  /\ mode' = "wild"
  /\ UNCHANGED <<pid, ppid, parent, kstack, current, stk, rr_index, next_pid>>

\* Nobody to jump back to: the dead task runs another one, or halts.
exit_alone ==
  /\ ~jmp.active
  /\ \E status \in Statuses : Dying(status)
  /\ \/ \E t \in Slots :
          /\ t # current
          /\ proc_wake_parent[t] = "RUNNABLE"
          /\ \A u \in Slots : (u < t /\ u # current) => proc_wake_parent[u] # "RUNNABLE"
          /\ state' = [proc_wake_parent EXCEPT ![t] = "RUNNING"]
          /\ jmp' = SavedPlace("exit", 0)
          /\ kstack' = [kstack EXCEPT ![current] = SuspendedFrame("exit", 0),
                                      ![t] = UserFrame]
          /\ current' = t
          /\ stk' = t
          /\ mode' = "user"
     \/ /\ \A u \in Slots \ {current} : proc_wake_parent[u] # "RUNNABLE"
        /\ state' = proc_wake_parent
        /\ mode' = "halt"
        /\ UNCHANGED <<jmp, kstack, current, stk>>
  /\ UNCHANGED <<pid, ppid, parent, rr_index, next_pid>>

-----------------------------------------------------------------------------
UserStep   == \/ proc_fork \/ proc_fork_fails \/ proc_fork_full
              \/ wait4 \/ io
              \/ exit_jump \/ exit_wild \/ exit_alone

KernelStep == \/ wait4_reap \/ wait4_no_child \/ wait4_run \/ wait4_block
              \/ io_done \/ io_progress \/ io_run \/ io_block

Next == UserStep \/ KernelStep

Spec == Init /\ [][Next]_vars

-----------------------------------------------------------------------------
(***************************************************************************)
(* Safety.                                                                 *)
(***************************************************************************)

\* Whenever user code or a system call executes, current_task is RUNNING, and
\* user code always has its own task's kernel stack to fall back on: neither
\* the jump back in exit nor a switch while blocking leaves current_task on a
\* dead, sleeping or reaped task (proc_activate, sched_switch_to).
CurrentIsRunning ==
  /\ mode \in {"user", "kernel"} => state[current] = "RUNNING"
  /\ mode = "user" => stk = current

\* A task that is RUNNING without being current was suspended inside
\* proc_run_runnable; no task is ever dropped in the middle of its user code
\* (proc_run_runnable leaves its caller RUNNING, sched_switch_to does not).
SuspendedInsideKernel ==
  mode \in {"user", "kernel", "idle"} =>
    \A t \in Slots : state[t] = "RUNNING" /\ t # current => kstack[t].at = "run"

\* As long as no later system call has overwritten it, the place exit jumps
\* back to is the suspended call of a task that is still alive, on that
\* task's own kernel stack (fork_jmp_buf and fork_jmp_parent agree).
JumpTargetAlive ==
  jmp.active /\ jmp.fresh /\ jmp.stk # NoTask =>
    /\ jmp.stk = jmp.parent
    /\ kstack[jmp.stk].at = "run"
    /\ kstack[jmp.stk].call = jmp.call
    /\ kstack[jmp.stk].arg = jmp.arg
    /\ jmp.call # "exit" => state[jmp.parent] \in {"RUNNING", "RUNNABLE", "BLOCKED"}

\* Two tasks in use never have the same pid, although slots are reused and
\* failed forks use up pids (proc_alloc_task).
PidsUnique ==
  \A t, u \in Slots :
    state[t] # "UNUSED" /\ state[u] # "UNUSED" /\ pid[t] = pid[u] => t = u

\* A zombie keeps its state and its exit status until the task its parent
\* pointer names reaps it in wait4; only a kernel that halts for good may
\* bring it back (proc_activate in an exit that ran another task).
ZombieKept ==
  \A t \in Slots :
    state[t] = "ZOMBIE" /\ mode' # "halt" =>
      \/ state'[t] = "ZOMBIE" /\ exit_status'[t] = exit_status[t]
      \/ state'[t] = "UNUSED" /\ parent[t] = current /\ AtTop("wait4")

ZombiesWait == [][ZombieKept]_vars

-----------------------------------------------------------------------------
(***************************************************************************)
(* The task table implements the promises of Processes.  A pid is unborn   *)
(* until next_pid passes it and gone when no slot holds it any more.       *)
(***************************************************************************)
Holder(p, t) == state[t] # "UNUSED" /\ pid[t] = p
Held(p)      == \E t \in Slots : Holder(p, t)
SlotOf(p)    == CHOOSE t \in Slots : Holder(p, t)

AbsLife == [p \in 1 .. MaxPid |->
              IF Held(p) THEN IF state[SlotOf(p)] = "ZOMBIE" THEN "zombie" ELSE "live"
              ELSE IF p < next_pid THEN "gone" ELSE "unborn"]
AbsDad  == [p \in 1 .. MaxPid |-> IF Held(p) THEN ppid[SlotOf(p)] ELSE 0]
AbsCode == [p \in 1 .. MaxPid |-> IF Held(p) THEN exit_status[SlotOf(p)] ELSE 0]

Abs == INSTANCE Processes WITH
         life <- AbsLife, dad <- AbsDad, code <- AbsCode,
         stopped <- mode \in {"halt", "wild"}

\* Every behaviour of the task table is one of the abstract process life
\* cycle: fork, exit and wait4 keep their promises until the kernel stops.
ImplementsProcesses == Abs!Spec

-----------------------------------------------------------------------------
(***************************************************************************)
(* Liveness.  The CPU executes kernel code, and a program that gets the    *)
(* CPU again and again exits in the end: the kernel cannot take the CPU    *)
(* from one that does not.  Task 0 is the shell, which may run for ever.   *)
(***************************************************************************)
ChildExits == current # 0 /\ (exit_jump \/ exit_alone)

FairSpec == Spec /\ WF_vars(KernelStep) /\ SF_vars(ChildExits)

\* A child waits when it has saved its place or is BLOCKED.
ChildrenNeverWait ==
  \A t \in Slots \ {0} : kstack[t].at # "run" /\ state[t] # "BLOCKED"

\* The current task has no child at all, or one that the call may reap.
HasAnswer(arg) ==
  proc_has_children =>
    \E c \in Slots : state[c] # "UNUSED" /\ parent[c] = current /\ arg \in {AnyPid, pid[c]}

\* A shell whose children never have to wait gets its wait4 answered, in
\* whatever order they exit (the loop in wait4, proc_run_runnable, exit).  A
\* wait4 for a pid that is no child, or no longer one, while there are other
\* children is left out: nothing answers it.
ShellWaitReturns ==
  []ChildrenNeverWait =>
    ((AtTop("wait4") /\ current = 0 /\ HasAnswer(Frame.arg)) ~> (mode = "user" /\ current = 0))

-----------------------------------------------------------------------------
(***************************************************************************)
(* What the kernel does not keep.                                          *)
(***************************************************************************)

\* The kernel does not stop while a task suspended in wait4 has a zombie
\* child it waits for (exit looks for the waiter in fork_jmp_parent only).
WaitersAreAnswered ==
  mode = "halt" =>
    \A a, z \in Slots :
      (/\ a # current
       /\ state[a] = "RUNNING"
       /\ kstack[a].call = "wait4"
       /\ state[z] = "ZOMBIE"
       /\ parent[z] = a) => kstack[a].arg \notin {AnyPid, pid[z]}
=============================================================================
