--------------------------- MODULE NgxQueueProofs ---------------------------
(***************************************************************************)
(* Proofs about NgxQueue, for any set of nodes.                            *)
(***************************************************************************)
EXTENDS NgxQueue, SequenceTheorems, TLAPS

USE PointersAssumption

\* no node is queued twice
Distinct == \A i, j \in 1 .. Len(order) : order[i] = order[j] => i = j

Inv == TypeOK /\ Linked /\ Distinct

LEMMA AtTyped ==
  ASSUME TypeOK
  PROVE  /\ Len(order) \in Nat
         /\ \A i \in Nat : At(i) \in Cells /\ (At(i) # Root <=> i \in 1 .. Len(order))
BY DEF TypeOK, At, Cells

LEMMA RingDistinct ==
  ASSUME Inv, NEW i \in 0 .. Len(order), NEW j \in 0 .. Len(order), At(i) = At(j)
  PROVE  i = j
<1>1. Len(order) \in Nat
  BY AtTyped DEF Inv
<1>2. \A k \in 1 .. Len(order) : At(k) = order[k] /\ order[k] \in Nodes
  BY DEF Inv, TypeOK, At
<1>3. At(0) = Root
  BY <1>1 DEF At
<1>4. CASE i = 0 \/ j = 0
  BY <1>1, <1>2, <1>3, <1>4
<1>5. CASE i \in 1 .. Len(order) /\ j \in 1 .. Len(order)
  BY <1>2, <1>5 DEF Inv, Distinct
<1>6. QED
  BY <1>1, <1>4, <1>5

LEMMA QueueInit == Init => Inv
<1> SUFFICES ASSUME Init PROVE Inv
  OBVIOUS
<1>1. order = <<>> /\ Len(order) = 0 /\ TypeOK
  BY DEF Init, TypeOK, Cells
<1>2. Linked
  BY <1>1 DEF Init, Linked, At, Cells
<1>3. QED
  BY <1>1, <1>2 DEF Inv, Distinct

\* A node that is inserted becomes the last cell of the ring.
LEMMA InsertKeeps ==
  ASSUME Inv, NEW x \in Nodes, InsertTail(x)
  PROVE  Inv' /\ Queue!Put(x)
<1>0. PICK n \in Nat : n = Len(order)
  BY AtTyped DEF Inv
<1>1. n \in Nat /\ TypeOK
  BY DEF Inv
<1>2. order' \in Seq(Nodes) /\ Len(order') = n + 1 /\ order'[n + 1] = x
      /\ \A i \in 1 .. n : order'[i] = order[i]
  BY <1>0, <1>1 DEF InsertTail, TypeOK
<1>3. prev[Root] = At(n) /\ At(n) \in Cells /\ At(n + 1) = Root
  BY <1>0, <1>1, AtTyped DEF Inv, Linked, At
<1>4. \A i \in 0 .. n : At(i) # x
  BY <1>0, <1>1, AtTyped DEF InsertTail, Inv, Linked, Cells
<1>5. /\ \A i \in 0 .. n : At(i)' = At(i)
      /\ At(n + 1)' = x /\ At(n + 2)' = Root
  BY <1>0, <1>1, <1>2 DEF At
<1>6. TypeOK'
  <2>1. x \in Cells /\ Root \in Cells /\ prev[Root] \in Cells
    BY <1>3 DEF Cells
  <2>2. next' \in [Cells -> Cells \cup {Nil}] /\ prev' \in [Cells -> Cells \cup {Nil}]
    BY <1>1, <2>1 DEF InsertTail, TypeOK
  <2>3. QED
    BY <1>1, <1>2, <2>2 DEF InsertTail, TypeOK
<1>7. /\ next'[x] = Root /\ prev'[Root] = x /\ prev'[x] = At(n) /\ next'[At(n)] = x
      /\ \A c \in Cells : c # x /\ c # At(n) => next'[c] = next[c]
      /\ \A c \in Cells : c # x /\ c # Root => prev'[c] = prev[c]
  BY <1>0, <1>1, <1>3, <1>4 DEF InsertTail, TypeOK, Cells
<1>8. Linked'
  <2> SUFFICES ASSUME NEW i \in 0 .. n + 1
               PROVE  next'[At(i)'] = At(i + 1)' /\ prev'[At(i + 1)'] = At(i)'
    BY <1>2 DEF Linked
  <2>1. CASE i = n + 1
    BY <1>0, <1>1, <1>5, <1>7, <2>1
  <2>2. CASE i = n
    BY <1>0, <1>1, <1>5, <1>7, <2>2
  <2>3. CASE i \in 0 .. n - 1
    <3>1. At(i) # At(n) /\ At(i) # x /\ At(i + 1) # x /\ At(i + 1) # Root
      BY <1>0, <1>1, <1>4, <2>3, RingDistinct, AtTyped
    <3>2. next[At(i)] = At(i + 1) /\ prev[At(i + 1)] = At(i)
      BY <1>0, <1>1, <2>3 DEF Inv, Linked
    <3>3. At(i) \in Cells /\ At(i + 1) \in Cells
      BY <1>0, <1>1, <2>3, AtTyped
    <3>4. At(i)' = At(i) /\ At(i + 1)' = At(i + 1)
      BY <1>0, <1>1, <1>5, <2>3
    <3>5. QED
      BY <1>7, <3>1, <3>2, <3>3, <3>4
  <2>4. QED
    BY <1>0, <1>1, <2>1, <2>2, <2>3
<1>9. Distinct'
  <2>1. \A i \in 1 .. n : order[i] # x
    BY <1>0, <1>1, <1>4 DEF At
  <2>2. QED
    BY <1>0, <1>1, <1>2, <2>1 DEF Inv, Distinct
<1>10. QED
  BY <1>6, <1>8, <1>9 DEF Inv, InsertTail, Queue!Put

\* The queue is found empty exactly when the ring holds the queue head alone.
LEMMA EmptyCorrect == Inv => EmptyIsAccurate
<1> SUFFICES ASSUME Inv PROVE EmptyIsAccurate
  OBVIOUS
<1>1. Len(order) \in Nat /\ order \in Seq(Nodes)
  BY AtTyped DEF Inv, TypeOK
<1>2. prev[Root] = At(Len(order))
  BY <1>1 DEF Inv, Linked, At
<1>3. At(Len(order)) = Root <=> Len(order) = 0
  BY <1>1, AtTyped DEF Inv
<1>4. QED
  BY <1>1, <1>2, <1>3 DEF EmptyIsAccurate, Empty

\* Unlinking the head closes the ring around it, and it was the oldest node.
LEMMA TakeKeeps ==
  ASSUME Inv, TakeHead
  PROVE  Inv' /\ Queue!Take
<1> DEFINE n == Len(order)
           x == next[Root]
<1>1. n \in Nat /\ TypeOK /\ n >= 1 /\ order # <<>>
  BY AtTyped, EmptyCorrect DEF Inv, TakeHead, EmptyIsAccurate, TypeOK
<1>2. x = At(1) /\ At(0) = Root /\ x = order[1] /\ x \in Nodes
  BY <1>1, AtTyped DEF Inv, Linked, At, TypeOK
<1>3. prev[x] = Root /\ next[x] = At(2) /\ At(2) \in Cells
  BY <1>1, <1>2, AtTyped DEF Inv, Linked
<1>4. order' \in Seq(Nodes) /\ Len(order') = n - 1
      /\ \A i \in 1 .. n - 1 : order'[i] = order[i + 1]
  BY <1>1 DEF TakeHead, TypeOK
<1>5. At(0)' = Root /\ \A i \in 1 .. n : At(i)' = At(i + 1)
  BY <1>1, <1>4 DEF At
<1>6. /\ next'[Root] = At(2) /\ prev'[At(2)] = Root
      /\ \A c \in Cells : c # Root => next'[c] = next[c]
      /\ \A c \in Cells : c # At(2) => prev'[c] = prev[c]
  BY <1>1, <1>2, <1>3 DEF TakeHead, Unlink, HeadNode, TypeOK, Cells
<1>7. TypeOK'
  BY <1>1, <1>2, <1>3, <1>4 DEF TakeHead, Unlink, HeadNode, TypeOK, Cells
<1>8. Linked'
  <2> SUFFICES ASSUME NEW i \in 0 .. n - 1
               PROVE  next'[At(i)'] = At(i + 1)' /\ prev'[At(i + 1)'] = At(i)'
    BY <1>4 DEF Linked
  <2>1. CASE i = 0
    BY <1>1, <1>5, <1>6, <2>1
  <2>2. CASE i \in 1 .. n - 1
    <3>1. At(i)' = At(i + 1) /\ At(i + 1)' = At(i + 2)
      BY <1>1, <1>5, <2>2
    <3>2. next[At(i + 1)] = At(i + 2) /\ prev[At(i + 2)] = At(i + 1)
      BY <1>1, <2>2 DEF Inv, Linked
    <3>3. At(i + 1) \in Cells /\ At(i + 1) # Root /\ At(i + 2) \in Cells
      BY <1>1, <2>2, AtTyped
    <3>4. At(i + 2) # At(2)
      <4>1. CASE i = n - 1
        BY <1>1, <2>2, <4>1, AtTyped
      <4>2. CASE i < n - 1
        BY <1>1, <2>2, <4>2, RingDistinct
      <4>3. QED
        BY <1>1, <2>2, <4>1, <4>2
    <3>5. QED
      BY <1>6, <3>1, <3>2, <3>3, <3>4
  <2>3. QED
    BY <1>1, <2>1, <2>2
<1>9. Distinct'
  <2> SUFFICES ASSUME NEW i \in 1 .. n - 1, NEW j \in 1 .. n - 1, order'[i] = order'[j]
               PROVE  i = j
    BY <1>4 DEF Distinct
  <2>1. order[i + 1] = order[j + 1] /\ i + 1 \in 1 .. n /\ j + 1 \in 1 .. n
    BY <1>1, <1>4
  <2>2. QED
    BY <1>1, <2>1 DEF Inv, Distinct
<1>10. Queue!Take
  BY <1>1, <1>2 DEF TakeHead, HeadNode, Queue!Take, TypeOK
<1>11. QED
  BY <1>7, <1>8, <1>9, <1>10 DEF Inv

LEMMA QueueNext ==
  ASSUME Inv, [Next]_vars
  PROVE  Inv' /\ [Queue!Next]_(Queue!vars)
<1>1. CASE UNCHANGED vars
  BY <1>1 DEF vars, Inv, TypeOK, Linked, Distinct, At, Queue!vars
<1>2. CASE Next
  BY <1>2, InsertKeeps, TakeKeeps DEF Next, Queue!Next
<1>3. QED
  BY <1>1, <1>2

-----------------------------------------------------------------------------
\* The pointers of the queue always form one ring, in the order of arrival.
THEOREM RingKept == Spec => []Linked
<1>1. Inv /\ [Next]_vars => Inv'
  BY QueueNext
<1>2. Inv => Linked
  BY DEF Inv
<1>3. QED
  BY QueueInit, <1>1, <1>2, PTL DEF Spec

\* ngx_queue_empty, which looks at prev, answers whether the readers, which follow
\* next, will find an input.
THEOREM EmptyIsRight == Spec => []EmptyIsAccurate
<1>1. Inv /\ [Next]_vars => Inv'
  BY QueueNext
<1>2. QED
  BY QueueInit, EmptyCorrect, <1>1, PTL DEF Spec

\* The pointer ring implements a first-in first-out queue.
THEOREM QueueImplementsFifo == Spec => ImplementsFifo
<1>1. Inv /\ [Next]_vars => Inv' /\ [Queue!Next]_(Queue!vars)
  BY QueueNext
<1>2. Init => Queue!Init
  BY DEF Init, Queue!Init
<1>3. QED
  BY QueueInit, <1>1, <1>2, PTL DEF Spec, ImplementsFifo, Queue!Spec
=============================================================================
