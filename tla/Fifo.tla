-------------------------------- MODULE Fifo --------------------------------
(***************************************************************************)
(* What the input queue of a handle promises: inputs come out once each,   *)
(* in the order in which they were put in.                                 *)
(***************************************************************************)
EXTENDS Sequences

CONSTANTS
  Items,   \* the inputs
  Nothing  \* no input has been taken yet

VARIABLES
  queue,  \* the inputs that wait to be read
  last    \* the input that was read last

vars == <<queue, last>>

Init == queue = <<>> /\ last = Nothing

Put(x) == queue' = Append(queue, x) /\ UNCHANGED last

Take ==
  /\ queue # <<>>
  /\ last' = Head(queue)
  /\ queue' = Tail(queue)

Next == Take \/ \E x \in Items : Put(x)

Spec == Init /\ [][Next]_vars
=============================================================================
