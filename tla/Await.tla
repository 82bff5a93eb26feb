------------------------------- MODULE Await -------------------------------
(***************************************************************************)
(* What a caller of couv is promised: an operation that suspends it        *)
(* returns to that caller, when the operation is over and not before, and  *)
(* every operation that is over returns.  The detailed specifications are  *)
(* shown to implement this one.                                            *)
(***************************************************************************)
CONSTANTS
  Callers,  \* the coroutines
  Ops,      \* the operations that can be under way
  NoOp      \* not an operation

VARIABLES
  awaiting,    \* awaiting[c]: the operation c is suspended in, or NoOp
  outstanding  \* the operations under way

vars == <<awaiting, outstanding>>

TypeOK ==
  /\ awaiting \in [Callers -> Ops \cup {NoOp}]
  /\ outstanding \subseteq Ops

Init ==
  /\ awaiting = [c \in Callers |-> NoOp]
  /\ outstanding = {}

\* a caller starts an operation and is suspended in it
Call(c, o) ==
  /\ awaiting[c] = NoOp
  /\ o \notin outstanding
  /\ awaiting' = [awaiting EXCEPT ![c] = o]
  /\ outstanding' = outstanding \cup {o}

\* the operation is over, and its caller goes on
Answer(c) ==
  /\ awaiting[c] \in outstanding
  /\ awaiting' = [awaiting EXCEPT ![c] = NoOp]
  /\ outstanding' = outstanding \ {awaiting[c]}

\* an operation of the main thread, which waits for nothing
Post(o) ==
  /\ o \notin outstanding
  /\ outstanding' = outstanding \cup {o}
  /\ UNCHANGED awaiting

Expire(o) ==
  /\ o \in outstanding
  /\ \A c \in Callers : awaiting[c] # o
  /\ outstanding' = outstanding \ {o}
  /\ UNCHANGED awaiting

Next ==
  \/ \E c \in Callers : Answer(c) \/ \E o \in Ops : Call(c, o)
  \/ \E o \in Ops : Post(o) \/ Expire(o)

Spec == Init /\ [][Next]_vars

FairSpec == Spec /\ \A c \in Callers : WF_vars(Answer(c))
=============================================================================
