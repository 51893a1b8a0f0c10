------------------------------ MODULE KeyQueue ------------------------------
(***************************************************************************)
(* What the console promises: the keys typed are read in the order in      *)
(* which they were typed, each once and by one reader, who is given the    *)
(* key's character.  A key is dropped only if Room keys are waiting to be  *)
(* read when its turn comes.                                               *)
(***************************************************************************)
EXTENDS Integers, Sequences

CONSTANTS KeySet, Room, NoKey, Char(_)

VARIABLES
  sent,     \* typed, not yet seen by the kernel
  queue,    \* seen, not yet read
  read      \* the last character that was read

kvars == <<sent, queue, read>>

Init ==
  /\ sent = <<>>
  /\ queue = <<>>
  /\ read = NoKey

Type ==
  /\ \E k \in KeySet : sent' = Append(sent, k)
  /\ UNCHANGED <<queue, read>>

See ==
  /\ sent # <<>>
  /\ sent' = Tail(sent)
  /\ queue' = IF Len(queue) < Room THEN Append(queue, Head(sent)) ELSE queue
  /\ UNCHANGED read

\* A reader with a bad buffer loses the key.
Take ==
  /\ queue # <<>>
  /\ queue' = Tail(queue)
  /\ read' = Char(Head(queue)) \/ UNCHANGED read
  /\ UNCHANGED sent

Next == Type \/ See \/ Take

Spec == Init /\ [][Next]_kvars
=============================================================================
