------------------------------ MODULE MCCouvIo ------------------------------
(***************************************************************************)
(* Small instances of CouvIo.  A configuration lists the handles of each   *)
(* type, and those to which nothing is sent.                               *)
(***************************************************************************)
EXTENDS CouvIo, TLC

CONSTANTS Tcps, Pipes, Udps, Ttys, Silent, Inputs

MCHandles == Tcps \cup Pipes \cup Udps \cup Ttys

MCType ==
  [h \in MCHandles |-> CASE h \in Tcps -> "tcp"
                         [] h \in Pipes -> "pipe"
                         [] h \in Udps -> "udp"
                         [] OTHER -> "tty"]

MCMaxInput == [h \in MCHandles |-> IF h \in Silent THEN 0 ELSE Inputs]

Symmetry == Permutations(Coros) \cup Permutations(Reqs)
=============================================================================
