------------------------------ MODULE NgxQueue ------------------------------
(***************************************************************************)
(* The intrusive list behind the input queue of a handle (ngx-queue.h): a  *)
(* ring of prev and next pointers through the queue head hdata->input_queue*)
(* and the nodes that the read callbacks allocate.  A node is allocated    *)
(* for one input and never queued again.                                   *)
(***************************************************************************)
EXTENDS Naturals, Sequences

CONSTANTS
  Root,   \* the queue head &hdata->input_queue
  Nodes,  \* the nodes that callbacks allocate
  Nil     \* an uninitialized pointer; no node

ASSUME PointersAssumption == Root \notin Nodes /\ Nil \notin Nodes \cup {Root}

VARIABLES
  next, prev,  \* the pointers of the queue head and of the nodes
  last,        \* the node that was removed last
  order        \* the queued nodes in order of arrival (history)

vars == <<next, prev, last, order>>

Cells == Nodes \cup {Root}

TypeOK ==
  /\ next \in [Cells -> Cells \cup {Nil}]
  /\ prev \in [Cells -> Cells \cup {Nil}]
  /\ last \in Nodes \cup {Nil}
  /\ order \in Seq(Nodes)

\* ngx_queue_init
Init ==
  /\ next = [x \in Cells |-> IF x = Root THEN Root ELSE Nil]
  /\ prev = [x \in Cells |-> IF x = Root THEN Root ELSE Nil]
  /\ last = Nil
  /\ order = <<>>

Empty == Root = prev[Root]

\* Faulty variant: ngx_queue_last.
LastNode == prev[Root]

HeadNode == next[Root]

\* Faulty variant: the last statement of the macro comes first.
InsertTailReordered(x) ==
  /\ next[x] = Nil
  /\ prev' = [prev EXCEPT ![x] = x, ![Root] = x]
  /\ next' = [next EXCEPT ![x] = Root]
  /\ order' = Append(order, x)
  /\ UNCHANGED last

\* ngx_queue_insert_tail of a node that was just allocated
InsertTail(x) ==
  /\ next[x] = Nil
  /\ prev' = [prev EXCEPT ![x] = prev[Root], ![Root] = x]
  /\ next' = [next EXCEPT ![prev[Root]] = x, ![x] = Root]
  /\ order' = Append(order, x)
  /\ UNCHANGED last

\* Faulty variant: the node after x still points back to it.
UnlinkForwards(x) ==
  /\ next' = [next EXCEPT ![prev[x]] = next[x]]
  /\ UNCHANGED prev

Unlink(x) ==
  /\ prev' = [prev EXCEPT ![next[x]] = prev[x]]
  /\ next' = [next EXCEPT ![prev[x]] = next[x]]

\* a reader that does not find the queue empty removes its head
TakeHead ==
  /\ ~Empty
  /\ Unlink(HeadNode)
  /\ last' = HeadNode
  /\ order' = Tail(order)

Next == TakeHead \/ \E x \in Nodes : InsertTail(x)

Spec == Init /\ [][Next]_vars

(***************************************************************************)
(* Properties.                                                             *)
(***************************************************************************)
\* the i-th cell of the ring
At(i) == IF i \in 1 .. Len(order) THEN order[i] ELSE Root

\* The pointers form one ring through the queue head and the queued nodes in
\* their order of arrival, forwards and backwards, after any insertions and
\* removals.
Linked == \A i \in 0 .. Len(order) : next[At(i)] = At(i + 1) /\ prev[At(i + 1)] = At(i)

\* The queue is a first-in first-out queue: a reader finds it empty exactly when
\* every input was read, and otherwise takes the oldest.
Queue == INSTANCE Fifo WITH Items <- Nodes, Nothing <- Nil, queue <- order
ImplementsFifo == Queue!Spec

\* A reader never suspends itself while an input is queued.
EmptyIsAccurate == Empty <=> order = <<>>
=============================================================================
