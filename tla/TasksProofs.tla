---------------------------- MODULE TasksProofs ----------------------------
(***************************************************************************)
(* Proofs about Tasks, for any number of slots, any pids and any programs, *)
(* and about Kernel, which adds the pipes its tasks wait for.              *)
(*                                                                         *)
(* The safety properties of Tasks are not inductive one by one: whether    *)
(* current is RUNNING after the jump in exit depends on fork_jmp_parent,   *)
(* which depends on what every kernel stack holds.  TasksInv joins them    *)
(* with the facts about the saved place, the kernel stack in use and the   *)
(* pids of slots that tie them together; every theorem follows from it.    *)
(* That Tasks implements Processes needs RefineInv on top of it: what the  *)
(* slots record of parents and pids is what the abstract state is read     *)
(* from.                                                                   *)
(***************************************************************************)
EXTENDS Kernel, TLAPS

\* In the kernel the frame being executed is the head of a loop that may wait.
KernelFrame ==
  mode = "kernel" => Frame.at = "top" /\ Frame.call \in {"wait4", "io"}

\* After a switch that kept the kernel stack, nothing is RUNNABLE: the switch
\* was made because nothing was.
SwitchedWithoutRunnable ==
  mode = "kernel" /\ stk # current =>
    state[stk] = "BLOCKED" /\ \A t \in Slots : state[t] # "RUNNABLE"

\* fork_jmp_parent is a slot that has been in use, and it made a call.
JumpHasParent ==
  jmp.active =>
    jmp.parent \in Slots /\ pid[jmp.parent] # 0 /\ jmp.call # "none"

\* No pid is written into two slots, and slots keep theirs when they are
\* reaped: an exit that ends in the hlt loop may bring such a slot back.
PidsWrittenOnce ==
  /\ \A t \in Slots : pid[t] < next_pid
  /\ \A t \in Slots : state[t] # "UNUSED" => pid[t] # 0
  /\ \A t, u \in Slots : t # u /\ pid[t] = pid[u] => pid[t] = 0

TasksInv ==
  /\ TypeOK
  /\ CurrentIsRunning
  /\ KernelFrame
  /\ SwitchedWithoutRunnable
  /\ SuspendedInsideKernel
  /\ JumpHasParent
  /\ JumpTargetAlive
  /\ PidsWrittenOnce

LEMMA SlotZero == 0 \in Slots
BY NTasksAssumption DEF Slots

LEMMA FrameTypes ==
  /\ UserFrame \in Frames
  /\ \A arg \in Int, call \in Calls :
       TopFrame(call, arg) \in Frames /\ SuspendedFrame(call, arg) \in Frames
BY DEF UserFrame, TopFrame, SuspendedFrame, Frames, Calls

LEMMA NoJumpType == NoJump \in Jumps
BY DEF NoJump, Jumps, Calls, NoTask

LEMMA EnteredType ==
  ASSUME NEW j \in Jumps
  PROVE  /\ Entered(j) \in Jumps
         /\ Entered(j).active = j.active
         /\ Entered(j).parent = j.parent
         /\ Entered(j).stk = j.stk
         /\ Entered(j).call = j.call
         /\ Entered(j).arg = j.arg
         /\ Entered(j).fresh => j.fresh /\ j.stk # current
BY DEF Entered, Jumps

LEMMA DetachedType ==
  ASSUME NEW j \in Jumps, NEW c \in Slots
  PROVE  /\ Detached(j, c) \in Jumps
         /\ Detached(j, c).active = j.active
         /\ Detached(j, c).parent = j.parent
         /\ Detached(j, c).stk = IF j.stk = c THEN NoTask ELSE j.stk
         /\ Detached(j, c).call = j.call
         /\ Detached(j, c).arg = j.arg
         /\ Detached(j, c).fresh = j.fresh
BY DEF Detached, Jumps

LEMMA SavedPlaceType ==
  ASSUME TypeOK, NEW call \in Calls, NEW arg \in Int
  PROVE  /\ SavedPlace(call, arg) \in Jumps
         /\ SavedPlace(call, arg).active
         /\ SavedPlace(call, arg).parent = current
         /\ SavedPlace(call, arg).stk = stk
         /\ SavedPlace(call, arg).call = call
         /\ SavedPlace(call, arg).arg = arg
BY DEF SavedPlace, Jumps, TypeOK

\* The fields of the current frame and of fork_jmp_buf have their types.
LEMMA FieldTypes ==
  ASSUME TypeOK
  PROVE  /\ Frame.call \in Calls /\ Frame.arg \in Int
         /\ jmp.call \in Calls /\ jmp.arg \in Int
         /\ jmp.stk \in Slots \cup {NoTask}
         /\ jmp.parent \in Slots \cup {NoTask}
BY DEF TypeOK, Frame, Frames, Jumps

LEMMA InitInv == Init => TasksInv
<1> SUFFICES ASSUME Init PROVE TasksInv
  OBVIOUS
<1>1. TypeOK
  BY SlotZero, FrameTypes, NoJumpType DEF Init, TypeOK, TaskStates, Modes, NoTask
<1>2. QED
  BY <1>1, SlotZero DEF Init, TasksInv, CurrentIsRunning, KernelFrame,
     SwitchedWithoutRunnable, SuspendedInsideKernel, JumpHasParent,
     JumpTargetAlive, PidsWrittenOnce, NoJump, NoTask

-----------------------------------------------------------------------------
(***************************************************************************)
(* proc_run_runnable, from wait4 and from an I/O call.                     *)
(***************************************************************************)
LEMMA RunStep ==
  ASSUME TasksInv, mode = "kernel", proc_run_runnable,
         UNCHANGED <<pid, ppid, parent, exit_status, rr_index, next_pid>>
  PROVE  TasksInv'
<1> DEFINE place == SavedPlace(Frame.call, Frame.arg)
           held == SuspendedFrame(Frame.call, Frame.arg)
<1>1. PICK t \in Slots :
        /\ t # current
        /\ state[t] = "RUNNABLE"
        /\ jmp' = place
        /\ state' = [state EXCEPT ![t] = "RUNNING"]
        /\ kstack' = [kstack EXCEPT ![stk] = held, ![t] = UserFrame]
        /\ current' = t
        /\ stk' = t
        /\ mode' = "user"
  BY DEF proc_run_runnable, FirstRunnable
<1>2. TypeOK /\ stk = current /\ state[current] = "RUNNING"
  BY <1>1 DEF TasksInv, SwitchedWithoutRunnable, CurrentIsRunning
<1>3. held \in Frames /\ UserFrame \in Frames
  BY <1>2, FieldTypes, FrameTypes
<1>4. held.at = "run" /\ held.call = Frame.call /\ held.arg = Frame.arg
  BY DEF SuspendedFrame
<1>5. /\ place \in Jumps /\ place.active /\ place.parent = current
      /\ place.stk = stk /\ place.call = Frame.call /\ place.arg = Frame.arg
  BY <1>2, FieldTypes, SavedPlaceType
<1> HIDE DEF place, held
<1>6. TypeOK'
  BY <1>1, <1>2, <1>3, <1>5 DEF TypeOK, TaskStates, Modes
<1>7. CurrentIsRunning' /\ KernelFrame' /\ SwitchedWithoutRunnable'
  BY <1>1, <1>2 DEF CurrentIsRunning, KernelFrame, SwitchedWithoutRunnable, TypeOK
<1>8. SuspendedInsideKernel'
  BY <1>1, <1>2, <1>4 DEF SuspendedInsideKernel, TasksInv, TypeOK
<1>9. JumpHasParent' /\ JumpTargetAlive'
  BY <1>1, <1>2, <1>4, <1>5 DEF JumpHasParent, JumpTargetAlive, PidsWrittenOnce,
     KernelFrame, TasksInv, TypeOK
<1>10. PidsWrittenOnce'
  BY <1>1, <1>2 DEF PidsWrittenOnce, TasksInv, TypeOK
<1> QED
  BY <1>6, <1>7, <1>8, <1>9, <1>10 DEF TasksInv

(***************************************************************************)
(* sched_block_current, from wait4 and from an I/O call.                   *)
(***************************************************************************)
LEMMA BlockStep ==
  ASSUME TasksInv, mode = "kernel", sched_block_current
  PROVE  TasksInv'
<1> USE DEF TasksInv, TypeOK
<1>1. /\ UNCHANGED <<pid, ppid, parent, exit_status, kstack, stk, jmp, next_pid>>
      /\ \A u \in Slots \ {current} : state[u] # "RUNNABLE"
  BY DEF sched_block_current, NoRunnable
<1>2. PICK u \in Slots :
        /\ state' = [state EXCEPT ![current] = "BLOCKED", ![u] = state'[u]]
        /\ \/ /\ u = current /\ state'[u] = "BLOCKED" /\ mode' = "idle"
              /\ UNCHANGED <<current, rr_index>>
           \/ /\ u # current /\ state[u] = "RUNNING" /\ state'[u] = "RUNNING"
              /\ current' = u /\ rr_index' = u /\ UNCHANGED mode
  <2>1. CASE NothingToSwitchTo
    BY <2>1 DEF sched_block_current
  <2>2. CASE ~NothingToSwitchTo
    BY <2>2, <1>1 DEF sched_block_current, PickNext, Ready
  <2> QED
    BY <2>1, <2>2
<1>3. TypeOK'
  BY <1>1, <1>2 DEF TaskStates, Modes
<1>4. CurrentIsRunning' /\ KernelFrame'
  BY <1>1, <1>2 DEF CurrentIsRunning, KernelFrame, Frame
<1>5. SwitchedWithoutRunnable'
  BY <1>1, <1>2 DEF SwitchedWithoutRunnable, CurrentIsRunning
<1>6. SuspendedInsideKernel'
  BY <1>1, <1>2 DEF SuspendedInsideKernel
<1>7. JumpHasParent' /\ JumpTargetAlive'
  BY <1>1, <1>2 DEF JumpHasParent, JumpTargetAlive
<1>8. PidsWrittenOnce'
  BY <1>1, <1>2 DEF PidsWrittenOnce, CurrentIsRunning
<1> QED
  BY <1>3, <1>4, <1>5, <1>6, <1>7, <1>8

(***************************************************************************)
(* The return of a system call that at most freed a zombie or woke         *)
(* sleepers: such changes disturb nobody who is running.                   *)
(***************************************************************************)
MildChange ==
  /\ state' \in [Slots -> TaskStates]
  /\ \A t \in Slots :
       \/ state'[t] = state[t]
       \/ state[t] = "ZOMBIE" /\ state'[t] = "UNUSED"
       \/ state[t] = "BLOCKED" /\ state'[t] = "RUNNABLE"

LEMMA ReturnStep ==
  ASSUME TasksInv, mode = "kernel", MildChange, ReturnToUser,
         UNCHANGED <<pid, ppid, parent, exit_status, current, jmp, rr_index, next_pid>>
  PROVE  TasksInv'
<1> USE DEF TasksInv, TypeOK, MildChange, ReturnToUser
<1>1. TypeOK'
  BY FrameTypes DEF Modes
<1>2. CurrentIsRunning' /\ KernelFrame' /\ SwitchedWithoutRunnable'
  BY DEF CurrentIsRunning, KernelFrame, SwitchedWithoutRunnable
<1>3. SuspendedInsideKernel'
  BY DEF SuspendedInsideKernel, SwitchedWithoutRunnable
<1>4. JumpHasParent' /\ JumpTargetAlive'
  <2>1. stk # jmp.stk \/ ~jmp.active \/ ~jmp.fresh \/ jmp.stk = NoTask
    BY DEF JumpTargetAlive, KernelFrame, Frame
  <2> QED
    BY <2>1, FieldTypes DEF JumpHasParent, JumpTargetAlive
<1>5. PidsWrittenOnce'
  BY DEF PidsWrittenOnce
<1> QED
  BY <1>1, <1>2, <1>3, <1>4, <1>5

(***************************************************************************)
(* Entering a call that may wait.                                          *)
(***************************************************************************)
LEMMA EnterStep ==
  ASSUME TasksInv, NEW call \in {"wait4", "io"}, NEW arg \in Int, Enter(call, arg)
  PROVE  TasksInv'
<1> USE DEF TasksInv, TypeOK, Enter, table
<1>1. /\ TopFrame(call, arg) \in Frames
      /\ TopFrame(call, arg).at = "top" /\ TopFrame(call, arg).call = call
  BY FrameTypes DEF TopFrame, Calls
<1>2. /\ Entered(jmp) \in Jumps
      /\ Entered(jmp).active = jmp.active
      /\ Entered(jmp).parent = jmp.parent
      /\ Entered(jmp).stk = jmp.stk
      /\ Entered(jmp).call = jmp.call
      /\ Entered(jmp).arg = jmp.arg
      /\ Entered(jmp).fresh => jmp.fresh /\ jmp.stk # current
  BY EnteredType
<1>3. stk = current
  BY DEF CurrentIsRunning
<1>4. TypeOK'
  BY <1>1, <1>2 DEF Modes
<1>5. CurrentIsRunning' /\ KernelFrame' /\ SwitchedWithoutRunnable'
  BY <1>1, <1>3 DEF CurrentIsRunning, KernelFrame, SwitchedWithoutRunnable, Frame
<1>6. SuspendedInsideKernel'
  BY DEF SuspendedInsideKernel
<1>7. JumpHasParent' /\ JumpTargetAlive'
  BY <1>2, FieldTypes DEF JumpHasParent, JumpTargetAlive
<1>8. PidsWrittenOnce'
  BY DEF PidsWrittenOnce
<1> QED
  BY <1>4, <1>5, <1>6, <1>7, <1>8

(***************************************************************************)
(* fork, successful or not: one UNUSED slot is wiped and gets a new pid    *)
(* and a new kernel stack.                                                 *)
(***************************************************************************)
LEMMA ForkStep ==
  ASSUME TasksInv, MayFork, NEW c \in Slots, proc_alloc_task(c),
         NEW s \in {"RUNNABLE", "UNUSED"}, state' = [state EXCEPT ![c] = s],
         NEW pp \in Nat, ppid' = [ppid EXCEPT ![c] = pp],
         NEW pa \in Slots \cup {NoTask}, parent' = [parent EXCEPT ![c] = pa],
         UNCHANGED <<current, stk, rr_index, mode>>
  PROVE  TasksInv'
<1> USE DEF TasksInv, TypeOK
<1> DEFINE j == Detached(Entered(jmp), c)
<1>1. /\ state[c] = "UNUSED" /\ mode = "user"
      /\ pid' = [pid EXCEPT ![c] = next_pid] /\ next_pid' = next_pid + 1
      /\ exit_status' = [exit_status EXCEPT ![c] = 0]
      /\ kstack' = [kstack EXCEPT ![c] = UserFrame]
      /\ jmp' = j
  BY DEF MayFork, proc_alloc_task, FirstUnused
<1>2. /\ j \in Jumps
      /\ j.active = jmp.active
      /\ j.parent = jmp.parent
      /\ j.stk \in {jmp.stk, NoTask} /\ j.stk # c
      /\ j.call = jmp.call
      /\ j.arg = jmp.arg
      /\ j.fresh => jmp.fresh /\ jmp.stk # current
  <2>1. Entered(jmp) \in Jumps
    BY EnteredType
  <2>2. c # NoTask
    BY NTasksAssumption DEF Slots, NoTask
  <2>3. /\ Entered(jmp).active = jmp.active
        /\ Entered(jmp).parent = jmp.parent
        /\ Entered(jmp).stk = jmp.stk
        /\ Entered(jmp).call = jmp.call
        /\ Entered(jmp).arg = jmp.arg
        /\ Entered(jmp).fresh => jmp.fresh /\ jmp.stk # current
    BY EnteredType
  <2> HIDE DEF Entered
  <2>4. /\ j \in Jumps
        /\ j.active = Entered(jmp).active
        /\ j.parent = Entered(jmp).parent
        /\ j.stk = IF Entered(jmp).stk = c THEN NoTask ELSE Entered(jmp).stk
        /\ j.call = Entered(jmp).call
        /\ j.arg = Entered(jmp).arg
        /\ j.fresh = Entered(jmp).fresh
    BY <2>1, DetachedType
  <2> HIDE DEF j
  <2>5. j.fresh => jmp.fresh /\ jmp.stk # current
    BY <2>3, <2>4, Zenon
  <2> QED
    BY <2>2, <2>3, <2>4, <2>5
<1> HIDE DEF j
<1>3. TypeOK'
  BY <1>1, <1>2, FrameTypes DEF TaskStates
<1>4. CurrentIsRunning' /\ KernelFrame' /\ SwitchedWithoutRunnable'
  BY <1>1 DEF CurrentIsRunning, KernelFrame, SwitchedWithoutRunnable
<1>5. SuspendedInsideKernel'
  BY <1>1 DEF SuspendedInsideKernel
<1>6. JumpHasParent' /\ JumpTargetAlive'
  BY <1>1, <1>2, FieldTypes DEF JumpHasParent, JumpTargetAlive, PidsWrittenOnce
<1>7. PidsWrittenOnce'
  BY <1>1 DEF PidsWrittenOnce
<1> QED
  BY <1>3, <1>4, <1>5, <1>6, <1>7

LEMMA ForkFullStep == ASSUME TasksInv, proc_fork_full PROVE TasksInv'
<1> USE DEF TasksInv, TypeOK, proc_fork_full, MayFork, table
<1>1. /\ Entered(jmp) \in Jumps
      /\ Entered(jmp).active = jmp.active
      /\ Entered(jmp).parent = jmp.parent
      /\ Entered(jmp).stk = jmp.stk
      /\ Entered(jmp).call = jmp.call
      /\ Entered(jmp).arg = jmp.arg
      /\ Entered(jmp).fresh => jmp.fresh /\ jmp.stk # current
  BY EnteredType
<1>2. TypeOK'
  BY <1>1
<1>3. JumpHasParent' /\ JumpTargetAlive'
  BY <1>1, FieldTypes DEF JumpHasParent, JumpTargetAlive
<1>4. /\ CurrentIsRunning' /\ KernelFrame' /\ SwitchedWithoutRunnable'
      /\ SuspendedInsideKernel' /\ PidsWrittenOnce'
  BY DEF CurrentIsRunning, KernelFrame, SwitchedWithoutRunnable,
     SuspendedInsideKernel, PidsWrittenOnce
<1> QED
  BY <1>2, <1>3, <1>4

LEMMA ProgressStep == ASSUME TasksInv, io_progress PROVE TasksInv'
<1> USE DEF TasksInv, TypeOK, io_progress, sched_wake_all
<1>1. TypeOK'
  BY DEF TaskStates
<1>2. CurrentIsRunning' /\ KernelFrame' /\ SwitchedWithoutRunnable'
  BY DEF CurrentIsRunning, KernelFrame, SwitchedWithoutRunnable, Frame, AtTop
<1>3. SuspendedInsideKernel' /\ JumpHasParent' /\ JumpTargetAlive'
  BY FieldTypes DEF SuspendedInsideKernel, JumpHasParent, JumpTargetAlive
<1>4. PidsWrittenOnce'
  BY DEF PidsWrittenOnce
<1> QED
  BY <1>1, <1>2, <1>3, <1>4

(***************************************************************************)
(* exit.                                                                   *)
(***************************************************************************)
\* Only the dying task and perhaps its parent change state.
LEMMA WakeParent ==
  ASSUME TasksInv, mode = "user"
  PROVE  /\ proc_wake_parent \in [Slots -> TaskStates]
         /\ proc_wake_parent[current] = "ZOMBIE"
         /\ \A t \in Slots \ {current} :
              \/ proc_wake_parent[t] = state[t]
              \/ state[t] = "BLOCKED" /\ proc_wake_parent[t] = "RUNNABLE"
BY DEF proc_wake_parent, TasksInv, TypeOK, TaskStates

LEMMA ExitJumpStep == ASSUME TasksInv, exit_jump PROVE TasksInv'
<1> USE DEF TasksInv, TypeOK
<1> DEFINE s == proc_wake_parent
<1>1. /\ jmp.active /\ mode = "user" /\ jmp.parent \in Slots /\ jmp' = NoJump
      /\ state' = [s EXCEPT ![jmp.parent] = "RUNNING"] /\ current' = jmp.parent
      /\ UNCHANGED <<pid, ppid, parent, rr_index, next_pid>>
      /\ exit_status' \in [Slots -> Statuses \cup {0}]
  BY DEF exit_jump, Dying, JumpHasParent
<1>2. jmp.fresh /\ jmp.stk # current
  BY EnteredType DEF exit_jump
<1>3. /\ s \in [Slots -> TaskStates]
      /\ s[current] = "ZOMBIE"
      /\ \A t \in Slots \ {current} : s[t] = state[t] \/ s[t] = "RUNNABLE"
      /\ \A t \in Slots : s[t] # "UNUSED" => state[t] # "UNUSED"
  BY <1>1, WakeParent DEF CurrentIsRunning
<1> HIDE DEF s
<1>4. ~NoJump.active
  BY DEF NoJump
<1>5. JumpHasParent' /\ JumpTargetAlive' /\ PidsWrittenOnce'
  BY <1>1, <1>3, <1>4 DEF JumpHasParent, JumpTargetAlive, PidsWrittenOnce
<1>6. CASE jmp.call = "exit" \/ jmp.stk = NoTask
  <2>1. mode' = "halt" /\ UNCHANGED <<stk, kstack>>
    BY <1>6 DEF exit_jump
  <2>2. TypeOK'
    BY <1>1, <1>3, <2>1, NoJumpType DEF TaskStates, Modes
  <2>3. CurrentIsRunning' /\ KernelFrame' /\ SwitchedWithoutRunnable' /\ SuspendedInsideKernel'
    BY <2>1 DEF CurrentIsRunning, KernelFrame, SwitchedWithoutRunnable, SuspendedInsideKernel
  <2> QED
    BY <1>5, <2>2, <2>3
<1>7. CASE ~(jmp.call = "exit" \/ jmp.stk = NoTask)
  <2> DEFINE f == TopFrame(jmp.call, jmp.arg)
  <2>1. mode' = "kernel" /\ stk' = jmp.stk /\ kstack' = [kstack EXCEPT ![jmp.stk] = f]
    BY <1>7 DEF exit_jump
  <2>2. jmp.stk = jmp.parent /\ jmp.call # "none"
    BY <1>1, <1>2, <1>7 DEF JumpTargetAlive, JumpHasParent
  <2>3. f \in Frames /\ f.at = "top" /\ f.call \in {"wait4", "io"}
    BY <1>7, <2>2, FieldTypes, FrameTypes DEF TopFrame, Calls
  <2> HIDE DEF f
  <2>4. TypeOK'
    BY <1>1, <1>3, <2>1, <2>2, <2>3, NoJumpType DEF TaskStates, Modes
  <2>5. CurrentIsRunning' /\ KernelFrame' /\ SwitchedWithoutRunnable'
    BY <1>1, <1>3, <2>1, <2>2, <2>3
    DEF CurrentIsRunning, KernelFrame, SwitchedWithoutRunnable, Frame
  <2>6. SuspendedInsideKernel'
    BY <1>1, <1>3, <2>1, <2>2 DEF SuspendedInsideKernel
  <2> QED
    BY <1>5, <2>4, <2>5, <2>6
<1> QED
  BY <1>6, <1>7

LEMMA ExitWildStep == ASSUME TasksInv, exit_wild PROVE TasksInv'
<1> USE DEF TasksInv, TypeOK
<1>1. /\ mode = "user" /\ mode' = "wild" /\ jmp' = Entered(jmp)
      /\ state' = proc_wake_parent
      /\ exit_status' \in [Slots -> Statuses \cup {0}]
      /\ UNCHANGED <<pid, ppid, parent, kstack, current, stk, rr_index, next_pid>>
  BY DEF exit_wild, Dying
<1>2. state' \in [Slots -> TaskStates] /\ \A t \in Slots : state'[t] = "UNUSED" <=> state[t] = "UNUSED"
  BY <1>1, WakeParent DEF CurrentIsRunning
<1>3. /\ jmp' \in Jumps
      /\ jmp'.active = jmp.active /\ jmp'.parent = jmp.parent /\ jmp'.call = jmp.call
  BY <1>1, EnteredType
<1>4. ~jmp'.fresh
  <2>1. ~Entered(jmp).fresh
    BY DEF exit_wild
  <2> QED
    BY <1>1, <2>1, Zenon
<1>5. TypeOK'
  BY <1>1, <1>2, <1>3 DEF Modes
<1>6. JumpHasParent' /\ JumpTargetAlive' /\ PidsWrittenOnce'
  BY <1>1, <1>2, <1>3, <1>4 DEF JumpHasParent, JumpTargetAlive, PidsWrittenOnce
<1>7. CurrentIsRunning' /\ KernelFrame' /\ SwitchedWithoutRunnable' /\ SuspendedInsideKernel'
  BY <1>1 DEF CurrentIsRunning, KernelFrame, SwitchedWithoutRunnable, SuspendedInsideKernel
<1> QED
  BY <1>5, <1>6, <1>7

LEMMA ExitAloneStep == ASSUME TasksInv, exit_alone PROVE TasksInv'
<1> USE DEF TasksInv, TypeOK
<1> DEFINE s == proc_wake_parent
           held == SuspendedFrame("exit", 0)
           place == SavedPlace("exit", 0)
<1>1. /\ mode = "user" /\ stk = current /\ ~jmp.active
      /\ exit_status' \in [Slots -> Statuses \cup {0}]
      /\ UNCHANGED <<pid, ppid, parent, rr_index, next_pid>>
  BY DEF exit_alone, Dying, CurrentIsRunning
<1>2. /\ s \in [Slots -> TaskStates]
      /\ s[current] = "ZOMBIE"
      /\ \A t \in Slots \ {current} : s[t] = state[t] \/ s[t] = "RUNNABLE"
      /\ \A t \in Slots : s[t] = "UNUSED" <=> state[t] = "UNUSED"
  BY <1>1, WakeParent DEF CurrentIsRunning
<1>3. CASE \E t \in Slots :
             /\ t # current /\ s[t] = "RUNNABLE"
             /\ state' = [s EXCEPT ![t] = "RUNNING"]
             /\ jmp' = place
             /\ kstack' = [kstack EXCEPT ![current] = held, ![t] = UserFrame]
             /\ current' = t /\ stk' = t /\ mode' = "user"
  <2>1. /\ held \in Frames /\ UserFrame \in Frames
        /\ held.at = "run" /\ held.call = "exit" /\ held.arg = 0
    <3>1. held.at = "run" /\ held.call = "exit" /\ held.arg = 0
      BY DEF SuspendedFrame
    <3>2. "exit" \in Calls /\ 0 \in Int
      BY DEF Calls
    <3> QED
      BY <3>1, <3>2, FrameTypes
  <2>2. /\ place \in Jumps /\ place.parent = current /\ place.stk = current
        /\ place.call = "exit" /\ place.arg = 0
    BY <1>1, SavedPlaceType DEF Calls
  <2> HIDE DEF s, held, place
  <2>3. TypeOK'
    BY <1>1, <1>2, <1>3, <2>1, <2>2 DEF TaskStates, Modes
  <2>4. CurrentIsRunning' /\ KernelFrame' /\ SwitchedWithoutRunnable'
    BY <1>2, <1>3 DEF CurrentIsRunning, KernelFrame, SwitchedWithoutRunnable
  <2>5. SuspendedInsideKernel'
    BY <1>1, <1>2, <1>3 DEF SuspendedInsideKernel
  <2>6. JumpHasParent' /\ JumpTargetAlive' /\ PidsWrittenOnce'
    BY <1>1, <1>2, <1>3, <2>1, <2>2
    DEF JumpHasParent, JumpTargetAlive, PidsWrittenOnce, CurrentIsRunning
  <2> QED
    BY <2>3, <2>4, <2>5, <2>6
<1>4. CASE state' = s /\ mode' = "halt" /\ UNCHANGED <<jmp, kstack, current, stk>>
  <2> HIDE DEF s
  <2>1. TypeOK'
    BY <1>1, <1>2, <1>4 DEF Modes
  <2>2. CurrentIsRunning' /\ KernelFrame' /\ SwitchedWithoutRunnable' /\ SuspendedInsideKernel'
    BY <1>4 DEF CurrentIsRunning, KernelFrame, SwitchedWithoutRunnable, SuspendedInsideKernel
  <2>3. JumpHasParent' /\ JumpTargetAlive' /\ PidsWrittenOnce'
    BY <1>1, <1>2, <1>4 DEF JumpHasParent, JumpTargetAlive, PidsWrittenOnce
  <2> QED
    BY <2>1, <2>2, <2>3
<1> QED
  BY <1>3, <1>4 DEF exit_alone

-----------------------------------------------------------------------------
(***************************************************************************)
(* The inductive step, one case per action.                                *)
(***************************************************************************)
LEMMA NextInv == TasksInv /\ [Next]_vars => TasksInv'
<1> SUFFICES ASSUME TasksInv, [Next]_vars PROVE TasksInv'
  OBVIOUS
<1>1. CASE proc_fork
  <2>1. PICK c \in Slots :
          /\ proc_alloc_task(c)
          /\ state' = [state EXCEPT ![c] = "RUNNABLE"]
          /\ ppid' = [ppid EXCEPT ![c] = pid[current]]
          /\ parent' = [parent EXCEPT ![c] = current]
    BY <1>1 DEF proc_fork
  <2>2. MayFork /\ UNCHANGED <<current, stk, rr_index, mode>>
    BY <1>1 DEF proc_fork
  <2>3. pid[current] \in Nat /\ current \in Slots \cup {NoTask}
    BY DEF TasksInv, TypeOK
  <2> QED
    BY <2>1, <2>2, <2>3, ForkStep
<1>2. CASE proc_fork_fails
  <2>1. PICK c \in Slots, late \in BOOLEAN :
          /\ proc_alloc_task(c)
          /\ ppid' = [ppid EXCEPT ![c] = IF late THEN pid[current] ELSE 0]
          /\ parent' = [parent EXCEPT ![c] = IF late THEN current ELSE NoTask]
    BY <1>2 DEF proc_fork_fails
  <2>2. MayFork /\ UNCHANGED <<state, current, stk, rr_index, mode>>
    BY <1>2 DEF proc_fork_fails
  <2>3. state' = [state EXCEPT ![c] = "UNUSED"]
    BY <2>1, <2>2 DEF proc_alloc_task, FirstUnused, TasksInv, TypeOK
  <2>4. /\ (IF late THEN pid[current] ELSE 0) \in Nat
        /\ (IF late THEN current ELSE NoTask) \in Slots \cup {NoTask}
    BY DEF TasksInv, TypeOK
  <2> QED
    BY <2>1, <2>2, <2>3, <2>4, ForkStep
<1>3. CASE proc_fork_full
  BY <1>3, ForkFullStep
<1>4. CASE wait4
  BY <1>4, EnterStep, WaitPidsAssumption DEF wait4
<1>5. CASE io
  BY <1>5, EnterStep DEF io
<1>6. CASE exit_jump
  BY <1>6, ExitJumpStep
<1>7. CASE exit_wild
  BY <1>7, ExitWildStep
<1>8. CASE exit_alone
  BY <1>8, ExitAloneStep
<1>9. CASE wait4_reap
  <2>1. MildChange
    BY <1>9 DEF wait4_reap, ZombieChild, MildChange, TasksInv, TypeOK, TaskStates
  <2> QED
    BY <1>9, <2>1, ReturnStep DEF wait4_reap, AtTop
<1>10. CASE wait4_no_child
  <2>1. MildChange
    BY <1>10 DEF wait4_no_child, table, MildChange, TasksInv, TypeOK
  <2> QED
    BY <1>10, <2>1, ReturnStep DEF wait4_no_child, AtTop, table
<1>11. CASE wait4_run
  BY <1>11, RunStep DEF wait4_run, wait4_waits, AtTop
<1>12. CASE wait4_block
  BY <1>12, BlockStep DEF wait4_block, wait4_waits, AtTop
<1>13. CASE io_done
  <2>1. MildChange
    BY <1>13 DEF io_done, sched_wake_all, MildChange, TasksInv, TypeOK, TaskStates
  <2> QED
    BY <1>13, <2>1, ReturnStep DEF io_done, AtTop
<1>14. CASE io_progress
  BY <1>14, ProgressStep
<1>15. CASE io_run
  BY <1>15, RunStep DEF io_run, AtTop
<1>16. CASE io_block
  BY <1>16, BlockStep DEF io_block, AtTop
<1>17. CASE UNCHANGED vars
  BY <1>17 DEF vars, table, TasksInv, TypeOK, CurrentIsRunning, KernelFrame,
     SwitchedWithoutRunnable, SuspendedInsideKernel, JumpHasParent,
     JumpTargetAlive, PidsWrittenOnce, Frame
<1> QED
  BY <1>1, <1>2, <1>3, <1>4, <1>5, <1>6, <1>7, <1>8, <1>9, <1>10, <1>11, <1>12,
     <1>13, <1>14, <1>15, <1>16, <1>17 DEF Next, UserStep, KernelStep

\* The inductive invariant holds in every reachable state of the task table.
THEOREM TasksInvariant == Spec => []TasksInv
BY InitInv, NextInv, PTL DEF Spec

\* Every variable of the task table keeps its type.
THEOREM TypeCorrect == Spec => []TypeOK
BY TasksInvariant, PTL DEF TasksInv

\* current_task is RUNNING whenever the CPU executes user code or a call.
THEOREM CurrentRunning == Spec => []CurrentIsRunning
BY TasksInvariant, PTL DEF TasksInv

\* A RUNNING task that is not current is suspended in proc_run_runnable.
THEOREM SuspendedOnly == Spec => []SuspendedInsideKernel
BY TasksInvariant, PTL DEF TasksInv

\* A fork_jmp_buf that was not overwritten leads to a living task's call.
THEOREM JumpsLandOnLiving == Spec => []JumpTargetAlive
BY TasksInvariant, PTL DEF TasksInv

\* No two tasks in use share a pid.
THEOREM UniquePids == Spec => []PidsUnique
<1>1. TasksInv => PidsUnique
  BY DEF TasksInv, PidsWrittenOnce, PidsUnique
<1> QED
  BY <1>1, TasksInvariant, PTL

-----------------------------------------------------------------------------
\* A zombie keeps its status until its parent's wait4 takes it, or the kernel
\* halts.
THEOREM ZombiesAreKept == Spec => ZombiesWait
<1>1. TasksInv /\ [Next]_vars => [ZombieKept]_vars
  <2> SUFFICES ASSUME TasksInv, Next, NEW t \in Slots, state[t] = "ZOMBIE", mode' # "halt"
               PROVE  \/ state'[t] = "ZOMBIE" /\ exit_status'[t] = exit_status[t]
                      \/ state'[t] = "UNUSED" /\ parent[t] = current /\ AtTop("wait4")
    BY DEF ZombieKept
  <2> USE DEF TasksInv, TypeOK
  <2>1. CASE proc_fork \/ proc_fork_fails \/ proc_fork_full
    BY <2>1 DEF proc_fork, proc_fork_fails, proc_fork_full, proc_alloc_task, FirstUnused, table
  <2>2. CASE wait4 \/ io
    BY <2>2 DEF wait4, io, Enter, table
  <2>3. CASE exit_jump
    <3>1. mode = "user" /\ jmp.active /\ t # current
      BY <2>3 DEF exit_jump, Dying, CurrentIsRunning
    <3>2. jmp.fresh /\ jmp.call # "exit" /\ jmp.stk # NoTask
      BY <2>3, EnteredType DEF exit_jump
    <3>3. t # jmp.parent
      BY <3>1, <3>2 DEF JumpTargetAlive
    <3>4. /\ state' = [proc_wake_parent EXCEPT ![jmp.parent] = "RUNNING"]
          /\ \E status \in Statuses :
               exit_status' = [exit_status EXCEPT ![current] = status]
      BY <2>3 DEF exit_jump, Dying
    <3> QED
      BY <3>1, <3>3, <3>4, WakeParent
  <2>4. CASE exit_wild
    BY <2>4, WakeParent DEF exit_wild, Dying, CurrentIsRunning
  <2>5. CASE exit_alone
    BY <2>5, WakeParent DEF exit_alone, Dying, CurrentIsRunning
  <2>6. CASE wait4_reap
    BY <2>6 DEF wait4_reap, ZombieChild
  <2>7. CASE wait4_no_child
    BY <2>7 DEF wait4_no_child, table
  <2>8. CASE wait4_run \/ io_run
    BY <2>8 DEF wait4_run, io_run, proc_run_runnable, FirstRunnable
  <2>9. CASE wait4_block \/ io_block
    <3>1. sched_block_current /\ mode = "kernel" /\ state[current] = "RUNNING"
      BY <2>9 DEF wait4_block, wait4_waits, io_block, AtTop, CurrentIsRunning
    <3> QED
      BY <3>1 DEF sched_block_current, PickNext, Ready
  <2>10. CASE io_done \/ io_progress
    BY <2>10 DEF io_done, io_progress, sched_wake_all
  <2> QED
    BY <2>1, <2>2, <2>3, <2>4, <2>5, <2>6, <2>7, <2>8, <2>9, <2>10
    DEF Next, UserStep, KernelStep
<1> QED
  BY <1>1, TasksInvariant, PTL DEF Spec, ZombiesWait

-----------------------------------------------------------------------------
(***************************************************************************)
(* The task table implements Processes.  Beyond TasksInv this needs what   *)
(* the table remembers of parents: the slot a parent pointer names either  *)
(* still carries the pid that was recorded with it, or no slot does.       *)
(***************************************************************************)
ParentsRecorded ==
  \A t \in Slots : parent[t] # NoTask =>
    ppid[t] \in 1 .. next_pid - 1 /\ \A u \in Slots : pid[u] = ppid[t] => u = parent[t]

PidsBounded == next_pid \in 2 .. MaxPid + 1

RefineInv == TasksInv /\ ParentsRecorded /\ PidsBounded

\* proc_fork and both kinds of failure write a pid nobody has.
LEMMA ParentsOnAlloc ==
  ASSUME RefineInv, MayFork, NEW c \in Slots, proc_alloc_task(c),
         \/ ppid' = [ppid EXCEPT ![c] = pid[current]] /\ parent' = [parent EXCEPT ![c] = current]
         \/ ppid' = [ppid EXCEPT ![c] = 0] /\ parent' = [parent EXCEPT ![c] = NoTask]
  PROVE  ParentsRecorded' /\ PidsBounded'
<1>1. /\ pid' = [pid EXCEPT ![c] = next_pid] /\ next_pid' = next_pid + 1
      /\ next_pid <= MaxPid /\ state[c] = "UNUSED"
  BY DEF proc_alloc_task, FirstUnused
<1>2. state[current] = "RUNNING" /\ current \in Slots /\ current # c
  BY <1>1 DEF MayFork, RefineInv, TasksInv, CurrentIsRunning, TypeOK
<1>3. pid[current] \in 1 .. next_pid - 1 /\ \A u \in Slots : pid[u] = pid[current] => u = current
  BY <1>2 DEF RefineInv, TasksInv, TypeOK, PidsWrittenOnce
<1>4. PidsBounded'
  BY <1>1, MaxPidAssumption DEF RefineInv, PidsBounded
<1>5. ASSUME NEW t \in Slots, parent'[t] # NoTask
      PROVE  /\ ppid'[t] \in 1 .. next_pid
             /\ \A u \in Slots : pid'[u] = ppid'[t] => u = parent'[t]
  <2>1. CASE t = c
    <3>1. ppid'[t] = pid[current] /\ parent'[t] = current
      BY <1>5, <2>1 DEF RefineInv, TasksInv, TypeOK
    <3> QED
      BY <1>1, <1>3, <3>1 DEF RefineInv, TasksInv, TypeOK
  <2>2. CASE t # c
    <3>1. ppid'[t] = ppid[t] /\ parent'[t] = parent[t]
      BY <2>2 DEF RefineInv, TasksInv, TypeOK
    <3>2. ppid[t] \in 1 .. next_pid - 1 /\ \A u \in Slots : pid[u] = ppid[t] => u = parent[t]
      BY <1>5, <3>1 DEF RefineInv, ParentsRecorded
    <3> QED
      BY <1>1, <3>1, <3>2 DEF RefineInv, TasksInv, TypeOK
  <2> QED
    BY <2>1, <2>2
<1>6. ParentsRecorded'
  BY <1>1, <1>5 DEF ParentsRecorded, RefineInv, TasksInv, TypeOK
<1> QED
  BY <1>4, <1>6

\* Only fork writes parents and pids.
LEMMA OnlyForkWritesPids ==
  ASSUME [Next]_vars
  PROVE  \/ UNCHANGED <<pid, ppid, parent, next_pid>>
         \/ MayFork /\ \E c \in Slots : proc_alloc_task(c) /\
              \/ /\ ppid' = [ppid EXCEPT ![c] = pid[current]]
                 /\ parent' = [parent EXCEPT ![c] = current]
              \/ /\ ppid' = [ppid EXCEPT ![c] = 0]
                 /\ parent' = [parent EXCEPT ![c] = NoTask]
<1>1. CASE proc_fork \/ proc_fork_fails
  BY <1>1 DEF proc_fork, proc_fork_fails
<1>2. CASE proc_fork_full \/ wait4 \/ io \/ exit_jump \/ exit_wild \/ exit_alone
  BY <1>2 DEF proc_fork_full, wait4, io, Enter, exit_jump, exit_wild, exit_alone, table
<1>3. CASE KernelStep
  BY <1>3 DEF KernelStep, wait4_reap, wait4_no_child, wait4_run, wait4_block, io_done,
     io_progress, io_run, io_block, sched_block_current, table
<1>4. CASE UNCHANGED vars
  BY <1>4 DEF vars, table
<1> QED
  BY <1>1, <1>2, <1>3, <1>4 DEF Next, UserStep

\* The table knows its parents in every reachable state.
THEOREM RefineInvariant == Spec => []RefineInv
<1>1. Init => RefineInv
  BY InitInv, MaxPidAssumption DEF Init, RefineInv, ParentsRecorded, PidsBounded
<1>2. RefineInv /\ [Next]_vars => RefineInv'
  <2> SUFFICES ASSUME RefineInv, [Next]_vars PROVE RefineInv'
    OBVIOUS
  <2>1. TasksInv'
    BY NextInv DEF RefineInv
  <2>2. ParentsRecorded' /\ PidsBounded'
    <3>1. CASE UNCHANGED <<pid, ppid, parent, next_pid>>
      BY <3>1 DEF RefineInv, ParentsRecorded, PidsBounded
    <3> QED
      BY <3>1, OnlyForkWritesPids, ParentsOnAlloc
  <2> QED
    BY <2>1, <2>2 DEF RefineInv
<1> QED
  BY <1>1, <1>2, PTL DEF Spec

\* A task in use is the one its pid stands for.
LEMMA PidNamesSlot ==
  RefineInv => \A t \in Slots : state[t] # "UNUSED" =>
                 pid[t] \in 1 .. MaxPid /\ Held(pid[t]) /\ SlotOf(pid[t]) = t
<1> SUFFICES ASSUME RefineInv, NEW t \in Slots, state[t] # "UNUSED"
             PROVE  pid[t] \in 1 .. MaxPid /\ Held(pid[t]) /\ SlotOf(pid[t]) = t
  OBVIOUS
<1>1. Holder(pid[t], t)
  BY DEF Holder
<1>2. \A u \in Slots : Holder(pid[t], u) => u = t
  BY DEF Holder, RefineInv, TasksInv, PidsWrittenOnce
<1>3. pid[t] \in 1 .. MaxPid
  BY MaxPidAssumption DEF RefineInv, TasksInv, PidsWrittenOnce, PidsBounded, TypeOK
<1> QED
  BY <1>1, <1>2, <1>3 DEF Held, SlotOf

\* What Processes sees of a pid that a slot holds, and of one that none does.
HeldView ==
  \A t \in Slots : state[t] # "UNUSED" =>
    /\ AbsLife[pid[t]] = IF state[t] = "ZOMBIE" THEN "zombie" ELSE "live"
    /\ AbsDad[pid[t]] = ppid[t]
    /\ AbsCode[pid[t]] = exit_status[t]

FreeView ==
  \A p \in 1 .. MaxPid : (\A t \in Slots : ~Holder(p, t)) =>
    /\ AbsLife[p] = IF p < next_pid THEN "gone" ELSE "unborn"
    /\ AbsDad[p] = 0
    /\ AbsCode[p] = 0

LEMMA Views == RefineInv => HeldView /\ FreeView
BY PidNamesSlot DEF HeldView, FreeView, AbsLife, AbsDad, AbsCode, Held

LEMMA ViewsAfter == RefineInv' => HeldView' /\ FreeView'
BY Views, PTL

LEMMA AbsAreFunctions ==
  /\ AbsLife = [p \in 1 .. MaxPid |-> AbsLife[p]] /\ AbsLife' = [p \in 1 .. MaxPid |-> AbsLife'[p]]
  /\ AbsDad = [p \in 1 .. MaxPid |-> AbsDad[p]] /\ AbsDad' = [p \in 1 .. MaxPid |-> AbsDad'[p]]
  /\ AbsCode = [p \in 1 .. MaxPid |-> AbsCode[p]] /\ AbsCode' = [p \in 1 .. MaxPid |-> AbsCode'[p]]
BY DEF AbsLife, AbsDad, AbsCode

\* A pid whose holder keeps what Processes can see of it looks the same.
LEMMA SameView ==
  ASSUME RefineInv, RefineInv', NEW p \in 1 .. MaxPid,
         p < next_pid' <=> p < next_pid,
         \A t \in Slots : Holder(p, t)' <=> Holder(p, t),
         \A t \in Slots : Holder(p, t) =>
           /\ ppid'[t] = ppid[t] /\ exit_status'[t] = exit_status[t]
           /\ state'[t] = "ZOMBIE" <=> state[t] = "ZOMBIE"
  PROVE  AbsLife'[p] = AbsLife[p] /\ AbsDad'[p] = AbsDad[p] /\ AbsCode'[p] = AbsCode[p]
<1>1. CASE \A t \in Slots : ~Holder(p, t)
  <2>1. \A t \in Slots : ~Holder(p, t)'
    BY <1>1
  <2> QED
    BY <1>1, <2>1, Views, ViewsAfter DEF FreeView
<1>2. ASSUME NEW t \in Slots, Holder(p, t)
      PROVE  AbsLife'[p] = AbsLife[p] /\ AbsDad'[p] = AbsDad[p] /\ AbsCode'[p] = AbsCode[p]
  <2>1. state[t] # "UNUSED" /\ pid[t] = p /\ state'[t] # "UNUSED" /\ pid'[t] = p
    BY <1>2 DEF Holder
  <2> QED
    BY <1>2, <2>1, Views, ViewsAfter DEF HeldView
<1> QED
  BY <1>1, <1>2

\* Steps that neither bury nor bear anyone are invisible to Processes.
LEMMA QuietStep ==
  ASSUME RefineInv, RefineInv', UNCHANGED <<pid, ppid, exit_status, next_pid>>,
         \A t \in Slots : /\ state'[t] = "UNUSED" <=> state[t] = "UNUSED"
                          /\ state'[t] = "ZOMBIE" <=> state[t] = "ZOMBIE"
  PROVE  UNCHANGED <<AbsLife, AbsDad, AbsCode>>
<1>1. ASSUME NEW p \in 1 .. MaxPid
      PROVE  AbsLife'[p] = AbsLife[p] /\ AbsDad'[p] = AbsDad[p] /\ AbsCode'[p] = AbsCode[p]
  BY SameView DEF Holder
<1> QED
  BY <1>1, AbsAreFunctions

\* fork gives birth to the next pid, its caller the parent.
LEMMA ForkRefines ==
  ASSUME RefineInv, RefineInv', proc_fork
  PROVE  \E p, c \in 1 .. MaxPid : Abs!Fork(p, c)
<1>1. PICK c \in Slots :
        /\ state[c] = "UNUSED" /\ next_pid <= MaxPid
        /\ pid' = [pid EXCEPT ![c] = next_pid] /\ next_pid' = next_pid + 1
        /\ exit_status' = [exit_status EXCEPT ![c] = 0]
        /\ state' = [state EXCEPT ![c] = "RUNNABLE"]
        /\ ppid' = [ppid EXCEPT ![c] = pid[current]]
  BY DEF proc_fork, proc_alloc_task, FirstUnused
<1>2. TypeOK /\ current \in Slots /\ state[current] = "RUNNING" /\ PidsWrittenOnce /\ next_pid \in 1 .. MaxPid
  BY <1>1 DEF proc_fork, MayFork, RefineInv, TasksInv, CurrentIsRunning, TypeOK, PidsBounded
<1>3. pid[current] \in 1 .. MaxPid /\ AbsLife[pid[current]] = "live"
  BY <1>2, PidNamesSlot, Views DEF HeldView
<1>4. \A t \in Slots : ~Holder(next_pid, t)
  BY <1>2 DEF Holder, PidsWrittenOnce, TypeOK
<1>5. AbsLife[next_pid] = "unborn" /\ AbsDad[next_pid] = 0 /\ AbsCode[next_pid] = 0
  BY <1>2, <1>4, Views DEF FreeView, TypeOK
<1>6. \A p \in 1 .. MaxPid : p < next_pid => AbsLife[p] # "unborn"
  BY DEF AbsLife
<1>7. AbsLife'[next_pid] = "live" /\ AbsDad'[next_pid] = pid[current] /\ AbsCode'[next_pid] = 0
  <2>1. state'[c] = "RUNNABLE" /\ pid'[c] = next_pid /\ ppid'[c] = pid[current] /\ exit_status'[c] = 0
    BY <1>1, <1>2 DEF TypeOK
  <2> QED
    BY <2>1, ViewsAfter DEF HeldView
<1>8. ASSUME NEW p \in 1 .. MaxPid, p # next_pid
      PROVE  AbsLife'[p] = AbsLife[p] /\ AbsDad'[p] = AbsDad[p] /\ AbsCode'[p] = AbsCode[p]
  <2>1. p < next_pid' <=> p < next_pid
    BY <1>1, <1>2, <1>8
  <2>2. \A t \in Slots : Holder(p, t)' <=> Holder(p, t)
    BY <1>1, <1>2, <1>8 DEF Holder, TypeOK
  <2>3. \A t \in Slots : Holder(p, t) => t # c
    BY <1>1 DEF Holder
  <2>4. \A t \in Slots : Holder(p, t) =>
           /\ ppid'[t] = ppid[t] /\ exit_status'[t] = exit_status[t]
           /\ state'[t] = "ZOMBIE" <=> state[t] = "ZOMBIE"
    BY <1>1, <1>2, <2>3 DEF TypeOK
  <2> QED
    BY <2>1, <2>2, <2>4, SameView
<1>9. /\ AbsLife' = [AbsLife EXCEPT ![next_pid] = "live"]
      /\ AbsDad' = [AbsDad EXCEPT ![next_pid] = pid[current]]
      /\ AbsCode' = AbsCode
  BY <1>5, <1>7, <1>8, AbsAreFunctions
<1> QED
  BY <1>2, <1>3, <1>5, <1>6, <1>9 DEF Abs!Fork, Abs!NextPid, Abs!Pids

\* A fork that fails uses up a pid.
LEMMA ForkFailsRefines ==
  ASSUME RefineInv, RefineInv', proc_fork_fails
  PROVE  \E c \in 1 .. MaxPid : Abs!LosePid(c)
<1>1. PICK c \in Slots :
        /\ state[c] = "UNUSED" /\ next_pid <= MaxPid
        /\ pid' = [pid EXCEPT ![c] = next_pid] /\ next_pid' = next_pid + 1
        /\ exit_status' = [exit_status EXCEPT ![c] = 0]
        /\ \E x : ppid' = [ppid EXCEPT ![c] = x]
        /\ state' = state
  BY DEF proc_fork_fails, proc_alloc_task, FirstUnused
<1>2. TypeOK /\ PidsWrittenOnce /\ next_pid \in 1 .. MaxPid
  BY <1>1 DEF RefineInv, TasksInv, PidsBounded
<1>3. \A t \in Slots : ~Holder(next_pid, t)
  BY <1>1, <1>2 DEF Holder, PidsWrittenOnce, TypeOK
<1>4. AbsLife[next_pid] = "unborn" /\ AbsDad[next_pid] = 0 /\ AbsCode[next_pid] = 0
  BY <1>2, <1>3, Views DEF FreeView
<1>5. \A p \in 1 .. MaxPid : p < next_pid => AbsLife[p] # "unborn"
  BY DEF AbsLife
<1>6. AbsLife'[next_pid] = "gone" /\ AbsDad'[next_pid] = 0 /\ AbsCode'[next_pid] = 0
  <2>1. next_pid < next_pid'
    BY <1>1, <1>2
  <2>2. \A t \in Slots : ~(state'[t] # "UNUSED" /\ pid'[t] = next_pid)
    BY <1>1, <1>2 DEF PidsWrittenOnce, TypeOK
  <2> QED
    BY <1>2, <2>1, <2>2, ViewsAfter DEF FreeView, Holder
<1>7. ASSUME NEW p \in 1 .. MaxPid, p # next_pid
      PROVE  AbsLife'[p] = AbsLife[p] /\ AbsDad'[p] = AbsDad[p] /\ AbsCode'[p] = AbsCode[p]
  <2>1. p < next_pid' <=> p < next_pid
    BY <1>1, <1>2, <1>7
  <2>2. \A t \in Slots : Holder(p, t)' <=> Holder(p, t)
    BY <1>1, <1>2, <1>7 DEF Holder, TypeOK
  <2>3. \A t \in Slots : Holder(p, t) => t # c
    BY <1>1 DEF Holder
  <2>4. \A t \in Slots : Holder(p, t) =>
           /\ ppid'[t] = ppid[t] /\ exit_status'[t] = exit_status[t]
           /\ state'[t] = "ZOMBIE" <=> state[t] = "ZOMBIE"
    BY <1>1, <1>2, <2>3 DEF TypeOK
  <2> QED
    BY <2>1, <2>2, <2>4, SameView
<1>8. AbsLife' = [AbsLife EXCEPT ![next_pid] = "gone"] /\ AbsDad' = AbsDad /\ AbsCode' = AbsCode
  BY <1>4, <1>6, <1>7, AbsAreFunctions
<1> QED
  BY <1>2, <1>4, <1>5, <1>8 DEF Abs!LosePid, Abs!NextPid, Abs!Pids

\* An exit that does not stop the machine turns its caller, and nobody else,
\* into a zombie with its status.
LEMMA ExitRefines ==
  ASSUME RefineInv, RefineInv', exit_jump \/ exit_alone, mode' # "halt"
  PROVE  \E p \in 1 .. MaxPid, status \in Statuses : Abs!Exit(p, status)
<1>1. TasksInv /\ TypeOK /\ current \in Slots /\ mode = "user" /\ state[current] = "RUNNING"
  BY DEF RefineInv, TasksInv, TypeOK, CurrentIsRunning, exit_jump, exit_alone, Dying
<1>2. UNCHANGED <<pid, ppid, next_pid>>
  BY DEF exit_jump, exit_alone
<1>3. PICK status \in Statuses : exit_status' = [exit_status EXCEPT ![current] = status]
  BY DEF exit_jump, exit_alone, Dying
<1>4. /\ state'[current] = "ZOMBIE"
      /\ \A t \in Slots \ {current} : /\ state'[t] = "UNUSED" <=> state[t] = "UNUSED"
                                      /\ state'[t] = "ZOMBIE" <=> state[t] = "ZOMBIE"
  <2>1. CASE exit_jump
    <3>1. /\ jmp.active /\ jmp.fresh /\ jmp.stk # current
          /\ jmp.call # "exit" /\ jmp.stk # NoTask
          /\ state' = [proc_wake_parent EXCEPT ![jmp.parent] = "RUNNING"]
      BY <1>1, <2>1, EnteredType DEF exit_jump, TypeOK
    <3>2. jmp.parent # current /\ state[jmp.parent] \in {"RUNNING", "RUNNABLE", "BLOCKED"}
      BY <1>1, <3>1 DEF TasksInv, JumpTargetAlive
    <3> QED
      BY <1>1, <3>1, <3>2 DEF proc_wake_parent, TypeOK
  <2>2. CASE exit_alone
    <3>1. PICK t \in Slots : /\ t # current /\ proc_wake_parent[t] = "RUNNABLE"
                             /\ state' = [proc_wake_parent EXCEPT ![t] = "RUNNING"]
      BY <2>2 DEF exit_alone
    <3> QED
      BY <1>1, <3>1 DEF proc_wake_parent, TypeOK
  <2> QED
    BY <2>1, <2>2
<1>5. pid[current] \in 1 .. MaxPid /\ AbsLife[pid[current]] = "live" /\ AbsDad[pid[current]] = ppid[current]
  BY <1>1, PidNamesSlot, Views DEF HeldView
<1>6. /\ AbsLife'[pid[current]] = "zombie" /\ AbsDad'[pid[current]] = ppid[current]
      /\ AbsCode'[pid[current]] = status
  <2>1. pid'[current] = pid[current] /\ ppid'[current] = ppid[current] /\ exit_status'[current] = status
    BY <1>1, <1>2, <1>3 DEF TypeOK
  <2> QED
    BY <1>1, <1>4, <2>1, ViewsAfter DEF HeldView
<1>7. ASSUME NEW p \in 1 .. MaxPid, p # pid[current]
      PROVE  AbsLife'[p] = AbsLife[p] /\ AbsDad'[p] = AbsDad[p] /\ AbsCode'[p] = AbsCode[p]
  <2>1. \A t \in Slots : Holder(p, t)' <=> Holder(p, t)
    BY <1>1, <1>2, <1>4, <1>7 DEF Holder
  <2>2. \A t \in Slots : Holder(p, t) => t # current
    BY <1>7 DEF Holder
  <2>3. \A t \in Slots : Holder(p, t) =>
           /\ ppid'[t] = ppid[t] /\ exit_status'[t] = exit_status[t]
           /\ state'[t] = "ZOMBIE" <=> state[t] = "ZOMBIE"
    BY <1>1, <1>2, <1>3, <1>4, <2>2 DEF TypeOK
  <2> QED
    BY <1>2, <2>1, <2>3, SameView
<1>8. /\ AbsLife' = [AbsLife EXCEPT ![pid[current]] = "zombie"]
      /\ AbsCode' = [AbsCode EXCEPT ![pid[current]] = status]
      /\ AbsDad' = AbsDad
  BY <1>5, <1>6, <1>7, AbsAreFunctions
<1> QED
  BY <1>5, <1>8 DEF Abs!Exit, Abs!Pids

\* wait4 reaps a zombie its caller forked, or an orphan.
LEMMA ReapRefines ==
  ASSUME RefineInv, RefineInv', wait4_reap
  PROVE  \E p, c \in 1 .. MaxPid : Abs!Reap(p, c)
<1>1. PICK c \in Slots : /\ state[c] = "ZOMBIE" /\ parent[c] = current
                         /\ state' = [state EXCEPT ![c] = "UNUSED"]
  BY DEF wait4_reap, ZombieChild
<1>2. /\ TypeOK /\ PidsWrittenOnce /\ current \in Slots /\ state[current] = "RUNNING"
      /\ UNCHANGED <<pid, ppid, exit_status, next_pid>>
  BY DEF wait4_reap, AtTop, RefineInv, TasksInv, TypeOK, CurrentIsRunning
<1>3. pid[current] \in 1 .. MaxPid /\ AbsLife[pid[current]] = "live"
  BY <1>2, PidNamesSlot, Views DEF HeldView
<1>4. pid[c] \in 1 .. MaxPid /\ AbsLife[pid[c]] = "zombie" /\ AbsDad[pid[c]] = ppid[c]
  BY <1>1, PidNamesSlot, Views DEF HeldView
<1>5. /\ ppid[c] \in 1 .. MaxPid /\ ppid[c] < next_pid
      /\ \A u \in Slots : pid[u] = ppid[c] => u = current
  <2>1. current # NoTask
    BY <1>2, NTasksAssumption DEF Slots, NoTask
  <2>2. ppid[c] \in 1 .. next_pid - 1 /\ \A u \in Slots : pid[u] = ppid[c] => u = current
    BY <1>1, <2>1 DEF RefineInv, ParentsRecorded
  <2> QED
    BY <2>2, MaxPidAssumption DEF RefineInv, PidsBounded
<1>6. ppid[c] = pid[current] \/ AbsLife[ppid[c]] = "gone"
  <2>1. CASE pid[current] # ppid[c]
    <3>1. \A t \in Slots : ~Holder(ppid[c], t)
      BY <1>5, <2>1 DEF Holder
    <3> QED
      BY <1>5, <3>1, Views DEF FreeView
  <2> QED
    BY <2>1
<1>7. \A t \in Slots : ~Holder(pid[c], t)'
  BY <1>1, <1>2 DEF Holder, PidsWrittenOnce, TypeOK
<1>8. AbsLife'[pid[c]] = "gone" /\ AbsDad'[pid[c]] = 0 /\ AbsCode'[pid[c]] = 0
  BY <1>2, <1>4, <1>7, ViewsAfter DEF FreeView, PidsWrittenOnce
<1>9. ASSUME NEW p \in 1 .. MaxPid, p # pid[c]
      PROVE  AbsLife'[p] = AbsLife[p] /\ AbsDad'[p] = AbsDad[p] /\ AbsCode'[p] = AbsCode[p]
  <2>1. \A t \in Slots : pid[t] = p => t # c
    BY <1>9
  <2>2. \A t \in Slots : pid[t] = p => state'[t] = state[t]
    BY <1>1, <1>2, <2>1 DEF TypeOK
  <2> QED
    BY <1>2, <2>2, SameView DEF Holder
<1>10. /\ AbsLife' = [AbsLife EXCEPT ![pid[c]] = "gone"]
       /\ AbsDad' = [AbsDad EXCEPT ![pid[c]] = 0]
       /\ AbsCode' = [AbsCode EXCEPT ![pid[c]] = 0]
  BY <1>4, <1>8, <1>9, AbsAreFunctions
<1> QED
  BY <1>3, <1>4, <1>5, <1>6, <1>10 DEF Abs!Reap, Abs!Pids

\* Everything else is a stutter of Processes, or stops the machine.
LEMMA OtherStepsRefine ==
  ASSUME RefineInv, RefineInv', [Next]_vars, ~proc_fork, ~proc_fork_fails, ~wait4_reap,
         mode' \notin {"halt", "wild"}, ~(exit_jump \/ exit_alone)
  PROVE  UNCHANGED <<AbsLife, AbsDad, AbsCode>> /\ mode \notin {"halt", "wild"}
<1>1. TypeOK /\ current \in Slots /\ (mode = "kernel" => state[current] = "RUNNING")
  BY DEF RefineInv, TasksInv, TypeOK, CurrentIsRunning
<1>2. CASE UNCHANGED vars
  <2>1. UNCHANGED <<pid, ppid, exit_status, next_pid, state, mode>>
    BY <1>2 DEF vars, table
  <2> QED
    BY <2>1, QuietStep
<1>3. CASE proc_fork_full \/ wait4 \/ io \/ wait4_no_child
  <2>1. UNCHANGED <<pid, ppid, exit_status, next_pid, state>> /\ mode \in {"user", "kernel"}
    BY <1>3 DEF proc_fork_full, MayFork, wait4, io, Enter, wait4_no_child, AtTop, table
  <2> QED
    BY <2>1, QuietStep
<1>4. CASE wait4_run \/ io_run
  <2>1. UNCHANGED <<pid, ppid, exit_status, next_pid>> /\ mode = "kernel" /\ proc_run_runnable
    BY <1>4 DEF wait4_run, wait4_waits, io_run, AtTop
  <2>2. PICK t \in Slots : state[t] = "RUNNABLE" /\ state' = [state EXCEPT ![t] = "RUNNING"]
    BY <2>1 DEF proc_run_runnable, FirstRunnable
  <2> QED
    BY <1>1, <2>1, <2>2, QuietStep DEF TypeOK
<1>5. CASE wait4_block \/ io_block
  <2>1. mode = "kernel" /\ sched_block_current
    BY <1>5 DEF wait4_block, wait4_waits, io_block, AtTop
  <2>2. /\ UNCHANGED <<pid, ppid, exit_status, next_pid>>
        /\ \/ state' = [state EXCEPT ![current] = "BLOCKED"]
           \/ \E t \in Slots : /\ state[t] \in {"RUNNABLE", "RUNNING"}
                               /\ state' = [state EXCEPT ![current] = "BLOCKED", ![t] = "RUNNING"]
    BY <2>1 DEF sched_block_current, PickNext, Ready
  <2>3. \A t \in Slots : /\ state'[t] = "UNUSED" <=> state[t] = "UNUSED"
                         /\ state'[t] = "ZOMBIE" <=> state[t] = "ZOMBIE"
    BY <1>1, <2>1, <2>2 DEF TypeOK
  <2> QED
    BY <2>1, <2>2, <2>3, QuietStep
<1>6. CASE io_done \/ io_progress
  <2>1. /\ UNCHANGED <<pid, ppid, exit_status, next_pid>> /\ mode = "kernel"
        /\ state' = state \/ state' = sched_wake_all
    BY <1>6 DEF io_done, io_progress, AtTop
  <2>2. \A t \in Slots : /\ state'[t] = "UNUSED" <=> state[t] = "UNUSED"
                         /\ state'[t] = "ZOMBIE" <=> state[t] = "ZOMBIE"
    BY <1>1, <2>1 DEF TypeOK, sched_wake_all
  <2> QED
    BY <2>1, <2>2, QuietStep
<1>7. ~exit_wild
  BY DEF exit_wild
<1> QED
  BY <1>2, <1>3, <1>4, <1>5, <1>6, <1>7 DEF Next, UserStep, KernelStep

\* Every behaviour of the task table, seen through pids instead of slots, is
\* one of the abstract process life cycle.
THEOREM TasksImplementProcesses == Spec => ImplementsProcesses
<1>1. Init => Abs!Init
  <2> SUFFICES ASSUME Init PROVE Abs!Init
    OBVIOUS
  <2>1. RefineInv
    BY InitInv, MaxPidAssumption DEF Init, RefineInv, ParentsRecorded, PidsBounded
  <2>2. state[0] = "RUNNING" /\ pid[0] = 1 /\ ppid[0] = 0 /\ exit_status[0] = 0 /\ 0 \in Slots
    BY SlotZero DEF Init
  <2>3. AbsLife[1] = "live" /\ AbsDad[1] = 0 /\ AbsCode[1] = 0
    BY <2>1, <2>2, Views DEF HeldView
  <2>4. ASSUME NEW p \in 1 .. MaxPid, p # 1
        PROVE  AbsLife[p] = "unborn" /\ AbsDad[p] = 0 /\ AbsCode[p] = 0
    <3>1. \A t \in Slots : ~Holder(p, t)
      BY <2>4 DEF Holder, Init
    <3>2. ~(p < next_pid)
      BY <2>4 DEF Init
    <3> QED
      BY <2>1, <3>1, <3>2, Views DEF FreeView
  <2>5. /\ AbsLife = [p \in 1 .. MaxPid |-> IF p = 1 THEN "live" ELSE "unborn"]
        /\ AbsDad = [p \in 1 .. MaxPid |-> 0]
        /\ AbsCode = [p \in 1 .. MaxPid |-> 0]
    BY <2>3, <2>4, AbsAreFunctions
  <2> QED
    BY <2>5 DEF Abs!Init, Abs!Pids, Init
<1>2. RefineInv /\ RefineInv' /\ [Next]_vars => [Abs!Next]_(Abs!absvars)
  <2> SUFFICES ASSUME RefineInv, RefineInv', [Next]_vars PROVE [Abs!Next]_(Abs!absvars)
    OBVIOUS
  <2>1. CASE Next /\ mode' \in {"halt", "wild"}
    <3>1. mode \in {"user", "kernel"}
      BY <2>1 DEF Next, UserStep, KernelStep, proc_fork, proc_fork_fails, proc_fork_full,
         MayFork, wait4, io, Enter, exit_jump, exit_wild, exit_alone, Dying, wait4_reap,
         wait4_no_child, wait4_run, wait4_block, wait4_waits, io_done, io_progress, io_run,
         io_block, AtTop
    <3> QED
      BY <2>1, <3>1 DEF Abs!Next
  <2>2. CASE /\ mode' \notin {"halt", "wild"}
             /\ proc_fork \/ proc_fork_fails \/ wait4_reap \/ exit_jump \/ exit_alone
    <3>1. mode \notin {"halt", "wild"}
      BY <2>2 DEF proc_fork, proc_fork_fails, MayFork, wait4_reap, AtTop, exit_jump,
         exit_alone, Dying
    <3>2. \/ \E p, c \in 1 .. MaxPid : Abs!Fork(p, c) \/ Abs!Reap(p, c)
          \/ \E c \in 1 .. MaxPid : Abs!LosePid(c)
          \/ \E p \in 1 .. MaxPid, status \in Statuses : Abs!Exit(p, status)
      BY <2>2, ForkRefines, ForkFailsRefines, ReapRefines, ExitRefines
    <3> QED
      BY <2>2, <3>1, <3>2 DEF Abs!Next, Abs!Step, Abs!Pids
  <2>3. CASE /\ mode' \notin {"halt", "wild"}
             /\ ~(proc_fork \/ proc_fork_fails \/ wait4_reap \/ exit_jump \/ exit_alone)
    BY <2>3, OtherStepsRefine DEF Abs!absvars
  <2>4. CASE UNCHANGED vars
    <3>1. UNCHANGED <<pid, ppid, exit_status, next_pid, state, mode>>
      BY <2>4 DEF vars, table
    <3> QED
      BY <3>1, QuietStep DEF Abs!absvars
  <2> QED
    BY <2>1, <2>2, <2>3, <2>4
<1> QED
  BY <1>1, <1>2, RefineInvariant, PTL DEF Spec, ImplementsProcesses, Abs!Spec

-----------------------------------------------------------------------------
(***************************************************************************)
(* Kernel.  The tasks with their pipes are the tasks of Tasks, so          *)
(* everything proved above holds of them too; and a pipe call that can go  *)
(* on belongs to the current task.                                         *)
(***************************************************************************)
LEMMA KernelStepIsTaskStep == KNext => Next
<1> SUFFICES ASSUME KNext PROVE Next  OBVIOUS
<1> USE DEF Next, UserStep, KernelStep
<1>1. CASE fork_step  BY <1>1 DEF fork_step
<1>2. CASE start_wait4 \/ io_start  BY <1>2 DEF start_wait4, io_start
<1>3. CASE exit_step  BY <1>3 DEF exit_step
<1>4. CASE wait4_step  BY <1>4 DEF wait4_step
<1>5. CASE read_some \/ read_eof \/ write_none \/ write_epipe \/ key_done \/ other_done
  BY <1>5 DEF read_some, read_eof, write_none, write_epipe, key_done, other_done
<1>6. CASE write_some  BY <1>6 DEF write_some
<1>7. CASE pipe_run \/ pipe_block  BY <1>7 DEF pipe_run, pipe_block
<1> QED  BY <1>1, <1>2, <1>3, <1>4, <1>5, <1>6, <1>7 DEF KNext, KUser, KKernel

\* Deciding by the pipes when an I/O call completes only removes behaviours:
\* with pipes, the task table does what it may do without (sys_read, sys_write
\* and keyboard_getchar around sched_block_current).
THEOREM KernelImplementsTasks == KSpec => Spec
<1>1. KInit => Init  BY DEF KInit
<1>2. [KNext]_kvars => [Next]_vars  BY KernelStepIsTaskStep DEF kvars
<1> QED  BY <1>1, <1>2, PTL DEF KSpec, Spec

LEMMA CallsStayHome ==
  ASSUME TasksInv, PipeCallsReturnToCaller, [KNext]_kvars
  PROVE  PipeCallsReturnToCaller'
<1> SUFFICES ASSUME AtTop("io")', Mine'.op \in Ends, stk' # current'
             PROVE  Stuck(stk)'
  BY DEF PipeCallsReturnToCaller, InCall, Ends
<1>1. mode' = "kernel" /\ kstack'[stk'].call = "io" /\ kstack'[stk'].at = "top"
  BY DEF AtTop, Frame
<1>2. CASE UNCHANGED kvars
  BY <1>2, <1>1 DEF kvars, vars, pipes, PipeCallsReturnToCaller, InCall, AtTop, Frame, Mine, Ends, Stuck
<1>3. CASE fork_step
  BY <1>3, <1>1 DEF fork_step, proc_fork, proc_fork_fails, proc_fork_full, MayFork
<1>4. CASE start_wait4 \/ io_start
  <2>1. mode = "user" /\ stk' = stk /\ current' = current
    BY <1>4 DEF start_wait4, io_start, wait4, io, Enter
  <2> QED  BY <2>1 DEF TasksInv, CurrentIsRunning
<1>5. CASE exit_step
  <2>1. exit_jump
    BY <1>5, <1>1 DEF exit_step, exit_wild, exit_alone
  <2>2. /\ jmp.active /\ jmp.fresh /\ jmp.stk # NoTask
        /\ stk' = jmp.stk /\ current' = jmp.parent
    BY <2>1, <1>1 DEF exit_jump, Entered, TasksInv, TypeOK, Jumps
  <2> QED  BY <2>2 DEF TasksInv, JumpTargetAlive
<1>6. CASE wait4_step
  <2>1. wait4_block
    BY <1>6, <1>1 DEF wait4_step, wait4_reap, wait4_no_child, wait4_run, ReturnToUser, proc_run_runnable
  <2> QED  BY <2>1, <1>1 DEF wait4_block, wait4_waits, AtTop, Frame, sched_block_current
<1>7. CASE read_some \/ read_eof \/ write_none \/ write_epipe \/ key_done \/ other_done \/ pipe_run
  BY <1>7, <1>1 DEF read_some, read_eof, write_none, write_epipe, key_done, other_done, pipe_run, io_done,
     io_run, ReturnToUser, proc_run_runnable
<1>8. CASE write_some
  BY <1>8, <1>1 DEF write_some, io_done, io_progress, ReturnToUser
<1>9. CASE pipe_block
  <2>1. UNCHANGED <<fill, counted, req, stk, kstack>>
    BY <1>9 DEF pipe_block, io_block, sched_block_current, pipes
  <2>2. read_waits \/ write_waits
    BY <1>9, <2>1 DEF pipe_block, InCall, Mine, Ends
  <2>3. Stuck(stk)
    BY <2>2 DEF read_waits, write_waits, NothingRead, InCall, Mine, Level, Full, Stuck
  <2> QED  BY <2>1, <2>3 DEF Stuck
<1> QED
  BY <1>2, <1>3, <1>4, <1>5, <1>6, <1>7, <1>8, <1>9 DEF KNext, KUser, KKernel

\* Bytes go to and come from the task that asked, whatever the scheduler did
\* to current_task while the call waited (sys_read, sys_write).
THEOREM PipeCallsStayHome == KSpec => []PipeCallsReturnToCaller
<1>1. KInit => PipeCallsReturnToCaller
  BY DEF KInit, Init, PipeCallsReturnToCaller, InCall, AtTop
<1>2. TasksInv /\ PipeCallsReturnToCaller /\ [KNext]_kvars => PipeCallsReturnToCaller'
  BY CallsStayHome
<1>3. KSpec => []TasksInv  BY KernelImplementsTasks, TasksInvariant
<1> QED  BY <1>1, <1>2, <1>3, PTL DEF KSpec
=============================================================================
