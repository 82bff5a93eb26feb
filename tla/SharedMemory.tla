---------------------------- MODULE SharedMemory ----------------------------
(***************************************************************************)
(* What counting references is to achieve: memory that users share, that   *)
(* is given back in the step in which the last of them lets go of it, and  *)
(* never while an operation works in it.                                   *)
(***************************************************************************)
CONSTANTS
  Users,  \* who may hold a block
  Mems,   \* the blocks
  Ops,    \* the operations that work in blocks held by others
  None    \* not a block

VARIABLES
  live,   \* the blocks that are allocated
  holds,  \* holds[u]: the block u holds, or None
  lent    \* lent[o]: the blocks operation o works in

vars == <<live, holds, lent>>

Init ==
  /\ live = {}
  /\ holds = [u \in Users |-> None]
  /\ lent = [o \in Ops |-> {}]

Alloc(u, m) ==
  /\ holds[u] = None /\ m \notin live
  /\ live' = live \cup {m}
  /\ holds' = [holds EXCEPT ![u] = m]
  /\ UNCHANGED lent

\* u comes to hold what v holds
Share(u, v) ==
  /\ holds[u] = None /\ holds[v] # None
  /\ holds' = [holds EXCEPT ![u] = holds[v]]
  /\ UNCHANGED <<live, lent>>

\* u passes what it holds on to v
Move(u, v) ==
  /\ holds[u] # None /\ holds[v] = None
  /\ holds' = [holds EXCEPT ![u] = None, ![v] = holds[u]]
  /\ UNCHANGED <<live, lent>>

LastHolder(u) == \A v \in Users \ {u} : holds[v] # holds[u]

InUse(m) == \E o \in Ops : m \in lent[o]

\* u lets go of its block: a block that somebody else holds stays, one that
\* nobody else does is freed, which must not be in use
Release(u) ==
  /\ holds[u] # None
  /\ IF LastHolder(u)
       THEN ~InUse(holds[u]) /\ live' = live \ {holds[u]}
       ELSE UNCHANGED live
  /\ holds' = [holds EXCEPT ![u] = None]
  /\ UNCHANGED lent

\* an operation begins to work in blocks that are held
Lend(o, S) ==
  /\ lent[o] = {} /\ S # {}
  /\ \A m \in S : \E u \in Users : holds[u] = m
  /\ lent' = [lent EXCEPT ![o] = S]
  /\ UNCHANGED <<live, holds>>

Return(o) ==
  /\ lent' = [lent EXCEPT ![o] = {}]
  /\ UNCHANGED <<live, holds>>

Next ==
  \/ \E u \in Users : Release(u) \/ \E m \in Mems : Alloc(u, m)
  \/ \E u, v \in Users : Share(u, v) \/ Move(u, v)
  \/ \E o \in Ops : Return(o) \/ \E S \in SUBSET Mems : Lend(o, S)

Spec == Init /\ [][Next]_vars
=============================================================================
