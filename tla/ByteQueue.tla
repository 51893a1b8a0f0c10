----------------------------- MODULE ByteQueue -----------------------------
(***************************************************************************)
(* What a pipe promises: the bytes accepted from the writers come out in   *)
(* the order in which they were accepted, none twice and none invented;    *)
(* none is lost, except to a reader whose buffer turns out to be bad; and  *)
(* end of file is reported, instead of waiting, exactly when the queue is  *)
(* empty and nobody holds the write end.  A read returns as many bytes as  *)
(* it asked for, or all there are.  One that asks for none is answered     *)
(* like one on an empty queue, though bytes may be there.                  *)
(***************************************************************************)
EXTENDS Integers, Sequences

CONSTANTS Writers, Readers, Bytes, MaxWrite, MaxRead

VARIABLES
  queue,     \* accepted and not yet delivered
  sending,   \* what each writer still has to hand over
  asking,    \* what each reader in the middle of a read asked for
  got,       \* what each reader's last read returned
  holders    \* tasks that hold their end open

NotAsking == -1

qvars == <<queue, sending, asking, got, holders>>

Init ==
  /\ queue = <<>>
  /\ sending = [w \in Writers |-> <<>>]
  /\ asking = [r \in Readers |-> NotAsking]
  /\ got = [r \in Readers |-> <<>>]
  /\ holders = Writers \cup Readers

Drop(s, n) == SubSeq(s, n + 1, Len(s))

\* A writer hands over some of its bytes and goes on later, or is done, or
\* gives up.
Accept(w, data) ==
  \E n \in 0 .. Len(data) :
    /\ queue' = queue \o SubSeq(data, 1, n)
    /\ \/ sending' = [sending EXCEPT ![w] = Drop(data, n)]
       \/ sending' = [sending EXCEPT ![w] = <<>>]
    /\ UNCHANGED <<asking, got, holders>>

Write(w) ==
  /\ w \in holders /\ sending[w] = <<>>
  /\ \E n \in 1 .. MaxWrite : \E data \in [1 .. n -> Bytes] : Accept(w, data)

\* A read for n bytes returns the oldest ones, or loses them to a bad buffer.
Deliver(r, n) ==
  /\ \E k \in 1 .. Len(queue) :
       /\ k = n \/ (k = Len(queue) /\ k < n)
       /\ queue' = Drop(queue, k)
       /\ got' = [got EXCEPT ![r] = SubSeq(queue, 1, k)] \/ UNCHANGED got
  /\ asking' = [asking EXCEPT ![r] = NotAsking]
  /\ UNCHANGED <<sending, holders>>

EndOfFile(r, n) ==
  /\ queue = <<>> \/ n = 0
  /\ holders \cap Writers = {}
  /\ got' = [got EXCEPT ![r] = <<>>]
  /\ asking' = [asking EXCEPT ![r] = NotAsking]
  /\ UNCHANGED <<queue, sending, holders>>

\* A read waits only if a writer is left and there is nothing to read, or
\* nothing was asked for.
Wait(r, n) ==
  /\ queue = <<>> \/ n = 0
  /\ holders \cap Writers # {}
  /\ asking' = [asking EXCEPT ![r] = n]
  /\ UNCHANGED <<queue, sending, got, holders>>

\* A read that had to wait may come to nothing.
Quit(r) ==
  /\ asking[r] # NotAsking
  /\ asking' = [asking EXCEPT ![r] = NotAsking]
  /\ UNCHANGED <<queue, sending, got, holders>>

Answer(r, n) == Deliver(r, n) \/ EndOfFile(r, n) \/ Wait(r, n)

\* A read that waits still asks for what it asked for at first.
Read(r) ==
  /\ r \in holders
  /\ \/ asking[r] = NotAsking /\ \E n \in 0 .. MaxRead : Answer(r, n)
     \/ asking[r] # NotAsking /\ Answer(r, asking[r])
     \/ Quit(r)

Close(t) ==
  /\ t \in holders
  /\ t \in Writers => sending[t] = <<>>
  /\ t \in Readers => asking[t] = NotAsking
  /\ holders' = holders \ {t}
  /\ UNCHANGED <<queue, sending, asking, got>>

Next ==
  \/ \E w \in Writers : Write(w) \/ Accept(w, sending[w])
  \/ \E r \in Readers : Read(r)
  \/ \E t \in Writers \cup Readers : Close(t)

Spec == Init /\ [][Next]_qvars
=============================================================================
