------------------------------- MODULE Kernel -------------------------------
(***************************************************************************)
(* The task table of Tasks together with the pipes its tasks wait for: the *)
(* loops of sys_read and sys_write (core/syscall.c) around pipe_read,      *)
(* pipe_write, sched_block_current and sched_wake_all, and the loop of     *)
(* keyboard_getchar (core/drivers/keyboard.c).                             *)
(*                                                                         *)
(* Every I/O step is a step of Tasks whose outcome the pipes decide.  Of a *)
(* pipe only its fill and the ends that are still counted matter; Pipes    *)
(* says when a count reaches zero and that it stays there, PipeRing which  *)
(* bytes flow.  The buffers of the callers are mapped.                     *)
(***************************************************************************)
EXTENDS Tasks

CONSTANTS
  NPipes,     \* pipes in use
  PipeSize,   \* sizeof pipe->buf
  Amounts     \* byte counts programs give read and write

ASSUME KernelAssumption ==
  /\ NPipes \in Nat /\ PipeSize \in Nat \ {0} /\ Amounts \subseteq Nat

PipeIds == 1 .. NPipes
Ends    == {"read", "write"}

VARIABLES
  fill,       \* pipe->count
  counted,    \* the ends with pipe->readers or pipe->writers above zero
  req         \* the I/O call on the kernel stack of each task

pipes == <<fill, counted>>
kvars == <<vars, pipes, req>>

\* op is a pipe's end, "key" for the console, "other" for a call that does not
\* wait, or "none".
Request(op, p, n) == [op |-> op, pipe |-> p, left |-> n]
NoRequest == Request("none", 0, 0)

KInit ==
  /\ Init
  /\ fill = [p \in PipeIds |-> 0]
  /\ counted = [p \in PipeIds |-> Ends]
  /\ req = [t \in Slots |-> NoRequest]

-----------------------------------------------------------------------------
(***************************************************************************)
(* Starting a call.                                                        *)
(***************************************************************************)
Requests ==
  {Request(e, p, n) : e \in Ends, p \in PipeIds, n \in Amounts}
    \cup {Request("key", 0, 1), Request("other", 0, 0)}

\* A task in the middle of a read or write has its descriptor open.
Busy(t, p, e) ==
  /\ state[t] \notin {"UNUSED", "ZOMBIE"}
  /\ kstack[t].call = "io" /\ req[t].op = e /\ req[t].pipe = p

\* read and write need an end that is open, hence counted.
io_start ==
  /\ io
  /\ \E r \in Requests :
       /\ r.op \in Ends => r.op \in counted[r.pipe]
       /\ req' = [req EXCEPT ![current] = r]
  /\ UNCHANGED pipes

-----------------------------------------------------------------------------
(***************************************************************************)
(* The loops, on the kernel stack the CPU is on.                           *)
(***************************************************************************)
Mine  == req[stk]
Level == fill[Mine.pipe]
Full  == Level = PipeSize
InCall(e) == AtTop("io") /\ Mine.op = e

Least(a, b) == IF a <= b THEN a ELSE b

Finished == req' = [req EXCEPT ![stk] = NoRequest]

\* pipe_read gets nothing from an empty pipe, nor when it is asked for nothing.
NothingRead == Level = 0 \/ Mine.left = 0

\* pipe_read took something; nobody is woken
read_some ==
  /\ InCall("read") /\ ~NothingRead
  /\ io_done /\ state' = state
  /\ fill' = [fill EXCEPT ![Mine.pipe] = @ - Least(Mine.left, @)]
  /\ Finished
  /\ UNCHANGED counted

\* end of file
read_eof ==
  /\ InCall("read") /\ NothingRead /\ "write" \notin counted[Mine.pipe]
  /\ io_done /\ state' = state
  /\ Finished
  /\ UNCHANGED pipes

\* Faulty variant, for mutation testing.
read_waits_first == InCall("read") /\ "write" \in counted[Mine.pipe]

\* Faulty variant, for mutation testing.
read_waits_at_eof == InCall("read") /\ NothingRead

read_waits == InCall("read") /\ NothingRead /\ "write" \in counted[Mine.pipe]

Stored == Least(Mine.left, PipeSize - Level)

\* A write of no bytes never enters the loop.
write_none ==
  /\ InCall("write") /\ Mine.left = 0
  /\ io_done /\ state' = state
  /\ Finished
  /\ UNCHANGED pipes

\* pipe_write stored something and everybody is woken; with bytes left the
\* loop goes on
write_some ==
  /\ InCall("write") /\ Mine.left > 0 /\ ~Full
  /\ fill' = [fill EXCEPT ![Mine.pipe] = @ + Stored]
  /\ IF Stored = Mine.left
       THEN io_done /\ state' = sched_wake_all /\ Finished
       ELSE io_progress /\ req' = [req EXCEPT ![stk].left = @ - Stored]
  /\ UNCHANGED counted

\* EPIPE
write_epipe ==
  /\ InCall("write") /\ Mine.left > 0 /\ Full /\ "read" \notin counted[Mine.pipe]
  /\ io_done /\ state' = state
  /\ Finished
  /\ UNCHANGED pipes

write_waits ==
  InCall("write") /\ Mine.left > 0 /\ Full /\ "read" \in counted[Mine.pipe]

\* A key is there or not.
key_done == InCall("key") /\ io_done /\ Finished /\ UNCHANGED pipes

\* A call that does not wait; close may take away the last descriptor counted
\* for an end.  Nobody is woken.
other_done ==
  /\ InCall("other")
  /\ io_done /\ state' = state
  /\ \/ UNCHANGED counted
     \/ \E p \in PipeIds, e \in Ends :
          /\ \A t \in Slots \ {stk} : ~Busy(t, p, e)
          /\ counted' = [counted EXCEPT ![p] = @ \ {e}]
  /\ Finished
  /\ UNCHANGED fill

pipe_run ==
  /\ read_waits \/ write_waits \/ InCall("key")
  /\ io_run
  /\ UNCHANGED <<pipes, req>>

pipe_block ==
  /\ read_waits \/ write_waits \/ InCall("key")
  /\ io_block
  /\ UNCHANGED <<pipes, req>>

-----------------------------------------------------------------------------
(***************************************************************************)
(* The rest of Tasks leaves the pipes alone: exit closes nothing.          *)
(***************************************************************************)
wait4_step == wait4_reap \/ wait4_no_child \/ wait4_run \/ wait4_block

start_wait4 == wait4 /\ req' = [req EXCEPT ![current] = NoRequest] /\ UNCHANGED pipes

exit_step == exit_jump \/ exit_wild \/ exit_alone

fork_step ==
  /\ proc_fork \/ proc_fork_fails \/ proc_fork_full
  /\ req' = [t \in Slots |-> IF pid'[t] = pid[t] THEN req[t] ELSE NoRequest]
  /\ UNCHANGED pipes

KUser   == \/ fork_step \/ start_wait4 \/ io_start
           \/ exit_step /\ UNCHANGED <<pipes, req>>

KKernel == \/ wait4_step /\ UNCHANGED <<pipes, req>>
           \/ read_some \/ read_eof \/ write_none \/ write_some \/ write_epipe
           \/ key_done \/ other_done
           \/ pipe_run \/ pipe_block

KNext == KUser \/ KKernel

KSpec == KInit /\ [][KNext]_kvars

\* The same fairness as in Tasks: kernel code is executed, and children that
\* get the CPU again and again exit in the end.
KFairSpec == KSpec /\ WF_kvars(KKernel) /\ SF_kvars(KUser /\ ChildExits)

-----------------------------------------------------------------------------
(***************************************************************************)
(* Properties.                                                             *)
(***************************************************************************)

\* Whether the pipe call on the stack of t can do nothing but wait.
Stuck(t) ==
  LET r == req[t] IN
  \/ /\ r.op = "read" /\ (fill[r.pipe] = 0 \/ r.left = 0)
     /\ "write" \in counted[r.pipe]
  \/ /\ r.op = "write" /\ fill[r.pipe] = PipeSize /\ r.left > 0
     /\ "read" \in counted[r.pipe]

\* Bytes go to and come from the task that asked: although the scheduler may
\* change current_task under a call that waits, a pipe call that can complete
\* or go on is always executed for the task on whose stack it is, in its
\* address space (sched_block_current under the loops of sys_read and
\* sys_write; a console read can complete for somebody else).
PipeCallsReturnToCaller ==
  (InCall("read") \/ InCall("write")) /\ ~Stuck(stk) => stk = current

AllDead == \A t \in Slots \ {0} : state[t] \in {"UNUSED", "ZOMBIE"}

\* A read that asks for something, or a write of any size.
Answerable == InCall("write") \/ (InCall("read") /\ Mine.left > 0)

\* A shell whose children never have to wait gets its reads and writes of
\* pipes answered, unless the machine idles with no other task alive that
\* could fill or drain the pipe (sys_read, sys_write, proc_run_runnable, exit).
\* A read of no bytes is left out: while a writer is counted nothing answers it.
ShellPipeCallsReturn ==
  []ChildrenNeverWait =>
    ((Answerable /\ current = 0 /\ stk = 0)
       ~> ((mode = "user" /\ current = 0) \/ (mode = "idle" /\ Stuck(stk) /\ AllDead)))

\* No call keeps the CPU in its waiting loop for ever: it may try again and
\* again, on the same kernel stack and each time for another current_task, but
\* in the end it returns, another task runs, or the machine idles or halts
\* (the loops of wait4, sys_read, sys_write and keyboard_getchar around
\* sched_block_current).
CallsLeaveKernel == mode = "kernel" ~> mode # "kernel"
=============================================================================
