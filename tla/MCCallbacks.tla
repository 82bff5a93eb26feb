---------------------------- MODULE MCCallbacks ----------------------------
(***************************************************************************)
(* Small instances of Callbacks.  A configuration lists the handles of     *)
(* each type.                                                              *)
(***************************************************************************)
EXTENDS Callbacks, TLC

CONSTANTS Timers, Processes, Tcps

MCHandles == Timers \cup Processes \cup Tcps

MCType ==
  [h \in MCHandles |-> CASE h \in Timers -> "timer"
                         [] h \in Processes -> "process"
                         [] OTHER -> "tcp"]

Symmetry == Permutations(Coros)
=============================================================================
