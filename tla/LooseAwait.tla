----------------------------- MODULE LooseAwait -----------------------------
(***************************************************************************)
(* What is left of the promise of Await for a caller that the callback of  *)
(* another operation may resume: it may go on early, but an operation that *)
(* is over always finds the caller that still waits for it, one step       *)
(* resumes one caller at most, and nobody waits for what is not under way. *)
(***************************************************************************)
CONSTANTS
  Callers,  \* the coroutines
  Ops,      \* the operations that can be under way
  NoOp      \* not an operation

VARIABLES
  awaiting,    \* awaiting[c]: the operation c is suspended in, or NoOp
  outstanding  \* the operations under way

vars == <<awaiting, outstanding>>

Init ==
  /\ awaiting = [c \in Callers |-> NoOp]
  /\ outstanding = {}

\* a caller starts an operation and is suspended in it
Call(c, o) ==
  /\ awaiting[c] = NoOp
  /\ o \notin outstanding
  /\ awaiting' = [awaiting EXCEPT ![c] = o]
  /\ outstanding' = outstanding \cup {o}

\* an operation that nobody is suspended in
Post(o) ==
  /\ o \notin outstanding
  /\ outstanding' = outstanding \cup {o}
  /\ UNCHANGED awaiting

GoesOn(c) == awaiting' = [awaiting EXCEPT ![c] = NoOp]

\* the operation is over: its caller goes on if it still waits, and otherwise
\* somebody, who waits for another operation, may
Over(o) ==
  /\ o \in outstanding
  /\ outstanding' = outstanding \ {o}
  /\ \/ /\ \A c \in Callers : awaiting[c] # o
        /\ UNCHANGED awaiting
     \/ \E c \in Callers :
          /\ \A d \in Callers : awaiting[d] = o => d = c
          /\ GoesOn(c)

\* something else resumes the caller; its operation is still under way
GoesOnEarly(c) ==
  /\ GoesOn(c)
  /\ UNCHANGED outstanding

Next ==
  \/ \E c \in Callers : GoesOnEarly(c) \/ \E o \in Ops : Call(c, o)
  \/ \E o \in Ops : Post(o) \/ Over(o)

Spec == Init /\ [][Next]_vars
=============================================================================
