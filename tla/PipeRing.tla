------------------------------ MODULE PipeRing ------------------------------
(***************************************************************************)
(* The data path of one pipe: the ring buffer of struct pipe, and read and *)
(* write as core/syscall.c performs them on it.                            *)
(*                                                                         *)
(* A write that does not fit stores what fits and waits inside the call;   *)
(* a read of an empty pipe waits inside the call.  A call suspended by     *)
(* proc_run_runnable tries again when the scheduler jumps back to it, in   *)
(* any order and after any number of steps of other tasks; one that was    *)
(* marked BLOCKED and woken is resumed in user mode, its call abandoned.   *)
(*                                                                         *)
(* A read for no bytes is no special case on a pipe: it goes through the   *)
(* same loop, gets none, and waits, or ends when no writer is counted,     *)
(* whatever the ring holds.                                                *)
(***************************************************************************)
EXTENDS Integers, Sequences, FiniteSets

CONSTANTS
  Writers,   \* tasks with a descriptor on the write end
  Readers,   \* tasks with a descriptor on the read end
  Bytes,     \* byte values
  Size,      \* sizeof pipe->buf (4096)
  Chunk,     \* sizeof kbuf in sys_write (512)
  MaxWrite,  \* bound: bytes of one write call
  MaxRead    \* bound: bytes asked for by one read call (at most 256)

ASSUME RingAssumption ==
  /\ Size \in Nat \ {0} /\ Chunk \in Nat \ {0}
  /\ MaxWrite \in Nat /\ MaxRead \in Nat \ {0}
  /\ IsFiniteSet(Writers) /\ IsFiniteSet(Readers) /\ Writers \cap Readers = {}

VARIABLES
  buf, head, tail, count,   \* struct pipe
  readers, writers,         \* struct pipe
  open,                     \* tasks that have not closed their end
  wcall,                    \* bytes a write that waits has still to store
  rcall,                    \* bytes a read that waits asks for, NoRead for none
  got                       \* what the last read of a task returned

ring     == <<buf, head, tail, count>>
ringvars == <<ring, readers, writers, open, wcall, rcall, got>>

Places == 0 .. Size - 1

NoRead == -1

SeqsUpTo(n) == UNION {[1 .. k -> Bytes] : k \in 0 .. n}

RingTypeOK ==
  /\ buf \in [Places -> Bytes]
  /\ head \in Places /\ tail \in Places
  /\ count \in 0 .. Size
  /\ readers \in 0 .. Cardinality(Readers)
  /\ writers \in 0 .. Cardinality(Writers)
  /\ open \subseteq Writers \cup Readers
  /\ wcall \in [Writers -> SeqsUpTo(MaxWrite)]
  /\ rcall \in [Readers -> {NoRead} \cup 0 .. MaxRead]
  /\ got \in [Readers -> SeqsUpTo(MaxRead)]

\* proc_pipe_alloc wipes the slot; the ends have been handed out.
RingInit ==
  /\ \E b \in Bytes : buf = [i \in Places |-> b]
  /\ head = 0 /\ tail = 0 /\ count = 0
  /\ readers = Cardinality(Readers)
  /\ writers = Cardinality(Writers)
  /\ open = Writers \cup Readers
  /\ wcall = [w \in Writers |-> <<>>]
  /\ rcall = [r \in Readers |-> NoRead]
  /\ got = [r \in Readers |-> <<>>]

-----------------------------------------------------------------------------
Least(a, b) == IF a <= b THEN a ELSE b

\* Faulty variant, for mutation testing.
pipe_write_no_wrap(data, n) ==
  /\ buf' = [i \in Places |->
               LET k == ((i - head + Size) % Size) + 1
               IN  IF k <= n THEN data[k] ELSE buf[i]]
  /\ head' = head + n
  /\ count' = count + n
  /\ UNCHANGED tail

\* pipe_write of the first n bytes of data, which fit.
pipe_write(data, n) ==
  /\ buf' = [i \in Places |->
               LET k == ((i - head + Size) % Size) + 1
               IN  IF k <= n THEN data[k] ELSE buf[i]]
  /\ head' = (head + n) % Size
  /\ count' = count + n
  /\ UNCHANGED tail

\* pipe_read of n bytes that are there.
pipe_read(n) ==
  /\ tail' = (tail + n) % Size
  /\ count' = count - n
  /\ UNCHANGED <<buf, head>>

Oldest(n) == [i \in 1 .. n |-> buf[(tail + i - 1) % Size]]

\* Faulty variant, for mutation testing.
Rest_all_again(data, n) == IF n = Len(data) THEN <<>> ELSE data

Rest(data, n) == SubSeq(data, n + 1, Len(data))

-----------------------------------------------------------------------------
\* One turn of the loop of a write that has data left: everything that fits
\* is stored, chunk by chunk.  If that is not all of it the call waits, or
\* ends with EPIPE when nobody reads.
WriteTurn(w, data) ==
  LET n == Least(Len(data), Size - count) IN
  /\ pipe_write(data, n)
  /\ wcall' = [wcall EXCEPT ![w] = IF readers = 0 THEN <<>> ELSE Rest(data, n)]
  /\ UNCHANGED <<readers, writers, open, rcall, got>>

\* copy_from_user fails for a later chunk: the ones before it are in the
\* pipe.  A call whose first chunk is bad changes nothing.
WriteFault(w, data) ==
  LET room == Size - count IN
  /\ \E n \in 1 .. Least(Len(data) - 1, room) :
       /\ n % Chunk = 0 \/ n = room
       /\ pipe_write(data, n)
  /\ wcall' = [wcall EXCEPT ![w] = <<>>]
  /\ UNCHANGED <<readers, writers, open, rcall, got>>

\* A write of no bytes returns at once and changes nothing.
sys_write(w) ==
  /\ w \in open /\ wcall[w] = <<>>
  /\ \E data \in SeqsUpTo(MaxWrite) \ {<<>>} : WriteTurn(w, data) \/ WriteFault(w, data)

\* The scheduler jumps back into a write that waits.
write_again(w) ==
  wcall[w] # <<>> /\ (WriteTurn(w, wcall[w]) \/ WriteFault(w, wcall[w]))

\* The writer was BLOCKED, woken by sched_wake_all and resumed in user mode.
write_abandoned(w) ==
  /\ wcall[w] # <<>>
  /\ wcall' = [wcall EXCEPT ![w] = <<>>]
  /\ UNCHANGED <<ring, readers, writers, open, rcall, got>>

\* One turn of the loop of a read of want bytes: bytes, end of file, or the
\* call waits.  A bad buffer is noticed after the bytes have left the pipe.
ReadTurn(r, want) ==
  LET n == Least(want, count) IN
  /\ pipe_read(n)
  /\ \/ /\ n > 0
        /\ got' = [got EXCEPT ![r] = Oldest(n)] \/ UNCHANGED got
        /\ rcall' = [rcall EXCEPT ![r] = NoRead]
     \/ /\ n = 0 /\ writers = 0
        /\ got' = [got EXCEPT ![r] = <<>>]
        /\ rcall' = [rcall EXCEPT ![r] = NoRead]
     \/ /\ n = 0 /\ writers > 0
        /\ rcall' = [rcall EXCEPT ![r] = want]
        /\ UNCHANGED got
  /\ UNCHANGED <<readers, writers, open, wcall>>

sys_read(r) ==
  /\ r \in open /\ rcall[r] = NoRead
  /\ \E want \in 0 .. MaxRead : ReadTurn(r, want)

read_again(r) == rcall[r] # NoRead /\ ReadTurn(r, rcall[r])

read_abandoned(r) ==
  /\ rcall[r] # NoRead
  /\ rcall' = [rcall EXCEPT ![r] = NoRead]
  /\ UNCHANGED <<ring, readers, writers, open, wcall, got>>

\* close of either end by a task that is not inside a call
close_read(r) ==
  /\ r \in open /\ rcall[r] = NoRead
  /\ open' = open \ {r}
  /\ readers' = readers - 1
  /\ UNCHANGED <<ring, writers, wcall, rcall, got>>

close_write(w) ==
  /\ w \in open /\ wcall[w] = <<>>
  /\ open' = open \ {w}
  /\ writers' = writers - 1
  /\ UNCHANGED <<ring, readers, wcall, rcall, got>>

RingNext ==
  \/ \E w \in Writers : \/ sys_write(w) \/ write_again(w)
                        \/ write_abandoned(w) \/ close_write(w)
  \/ \E r \in Readers : \/ sys_read(r) \/ read_again(r)
                        \/ read_abandoned(r) \/ close_read(r)

RingSpec == RingInit /\ [][RingNext]_ringvars

-----------------------------------------------------------------------------
Q == INSTANCE ByteQueue WITH
       queue <- Oldest(count), sending <- wcall,
       asking <- rcall, holders <- open

\* The ring buffer with its wrapped head and tail, partial writes, reads of
\* any size, none included, that wait and try again, competing
\* readers and writers and late closes behaves like a queue of bytes
\* (pipe_read, pipe_write and the loops of sys_read and sys_write).
ImplementsByteQueue == Q!Spec
=============================================================================
