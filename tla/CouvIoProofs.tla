---------------------------- MODULE CouvIoProofs ----------------------------
(***************************************************************************)
(* Theorems about CouvIo, for every number of coroutines, handles and      *)
(* blocks.                                                                 *)
(***************************************************************************)
EXTENDS CouvIo, SequenceTheorems, TLAPS

-----------------------------------------------------------------------------
(***************************************************************************)
(* The steps of the system, each by the helper that does its work.         *)
(***************************************************************************)
RequestSteps ==
  \E c \in Coros, h \in Handles, r \in Reqs :
    \/ \E kind \in HandleReqKinds : Request(c, h, r, kind)
    \/ PipeConnect(c, h, r)

BlockCb ==
  \E r \in Reqs :
    \/ \E kind \in HandleReqKinds : HandleReqCb(r, kind)
    \/ GetaddrinfoCb(r) \/ SleepCb(r) \/ SleepCloseCb(r)

\* Every step of Next is a step of one of these helpers, under the guards the
\* helper has itself.
LEMMA StepCases ==
  ASSUME Next
  PROVE  \/ \E c \in Coros : Start(c) \/ Finish(c)
         \/ \E c \in Coros, h \in Handles :
              NewHandle(c, h) \/ NewHandleFails(c, h) \/ TakeInput(c, h) \/ Close(c, h)
         \/ \E l \in Actors, h \in Handles :
              TtyNew(l, h) \/ TcpOpen(l, h) \/ Listen(l, h)
                \/ \E on \in BOOLEAN : SetReading(l, h, on)
         \/ \E h \in Handles : MainClose(h) \/ Deliver(h) \/ CloseCb(h)
         \/ RequestSteps
         \/ \E c \in Coros, r \in Reqs : Getaddrinfo(c, r) \/ Sleep(c, r)
         \/ BlockCb
<1>1. CASE MainStep
  BY <1>1 DEF MainStep, HandleCall, ReadStart, Read2Start, RecvStart, ReadStop, RecvStop, Actors
<1>2. CASE \E c \in Coros : CoroutineStep(c)
  <2>1. PICK c \in Coros : CoroutineStep(c)
    BY <1>2
  <2>2. CASE \E h \in Handles : HandleCall(c, h)
    BY <2>2 DEF HandleCall, ReadStart, Read2Start, RecvStart, ReadStop, RecvStop, Actors
  <2>3. CASE \E h \in Handles : CoroutineCall(c, h)
    BY <2>3 DEF CoroutineCall, TcpNew, PipeNew, UdpNew, Read, Read2, Recv
  <2>4. CASE \E h \in Handles, r \in Reqs : RequestCall(c, h, r)
    BY <2>4 DEF RequestCall, RequestSteps, TcpConnect, Write, Write2, Shutdown, UdpSend, HandleReqKinds
  <2>5. QED
    BY <2>1, <2>2, <2>3, <2>4 DEF CoroutineStep
<1>3. CASE \E r \in Reqs : RequestCb(r)
  <2>1. PICK r \in Reqs : RequestCb(r)
    BY <1>3
  <2>2. CASE TcpConnectCb(r) \/ PipeConnectCb(r)
    BY <2>2 DEF TcpConnectCb, PipeConnectCb, On, BlockCb, HandleReqKinds
  <2>3. CASE WriteCb(r) \/ ShutdownCb(r) \/ UdpSendCb(r)
    BY <2>3 DEF WriteCb, ShutdownCb, UdpSendCb, BlockCb, HandleReqKinds
  <2>4. QED
    BY <2>1, <2>2, <2>3 DEF RequestCb, BlockCb
<1>4. CASE \E h \in Handles : InputCb(h) \/ CloseCb(h)
  BY <1>4 DEF InputCb, ReadCb, Read2Cb, UdpRecvCb
<1>5. QED
  BY <1>1, <1>2, <1>3, <1>4 DEF Next

-----------------------------------------------------------------------------
(***************************************************************************)
(* Type correctness.                                                       *)
(***************************************************************************)
\* Resuming a thread keeps the types of what it changes.
LEMMA ResumeType ==
  ASSUME TypeOK, NEW l, NEW value \in BOOLEAN, NEW q \in [Handles -> Seq(Nat)],
         Resume(l, value, q)
  PROVE  /\ co' \in [Coros -> {"fresh", "running", "yielded", "dead"}]
         /\ wait' \in [Coros -> Waits]
         /\ input' \in [Handles -> Seq(Nat)]
         /\ taken' \in [Handles -> Seq(Nat)]
<1> USE DEF TypeOK, Waits, NoWait, Suspended, ReturnFromCall
<1>1. CASE input' = q /\ UNCHANGED <<co, wait, taken>>
  BY <1>1
<1>2. CASE ReturnFromCall(l) /\ input' = q /\ UNCHANGED taken
  BY <1>2
<1>3. ASSUME NEW h \in Handles, q[h] # <<>>, ReturnFromCall(l), TakeHead(h, q)
      PROVE  /\ co' \in [Coros -> {"fresh", "running", "yielded", "dead"}]
             /\ wait' \in [Coros -> Waits]
             /\ input' \in [Handles -> Seq(Nat)]
             /\ taken' \in [Handles -> Seq(Nat)]
  <2>1. Tail(q[h]) \in Seq(Nat) /\ Head(q[h]) \in Nat
    BY <1>3
  <2>2. Append(taken[h], Head(q[h])) \in Seq(Nat)
    BY <2>1
  <2>3. QED
    BY <1>3, <2>1, <2>2 DEF TakeHead
<1>4. QED
  BY <1>1, <1>2, <1>3 DEF Resume

LEMMA WaitsTyped ==
  /\ NoWait \in Waits
  /\ \A r \in Reqs : Suspended("req", r) \in Waits
  /\ \A h \in Handles : Suspended("read", h) \in Waits /\ Suspended("close", h) \in Waits
BY DEF Waits, NoWait, Suspended

LEMMA BlocksTyped ==
  /\ FreeBlock \in Blocks
  /\ \A kind \in ReqKinds :
       /\ [FreeBlock EXCEPT !.kind = kind, !.st = "leaked"] \in Blocks
       /\ \A h \in Handles \cup {Nil}, c \in Coros :
            [kind |-> kind, on |-> h, by |-> c, st |-> "pending"] \in Blocks
  /\ \A b \in Blocks : [b EXCEPT !.st = "closing"] \in Blocks
BY DEF Blocks, FreeBlock

\* A coroutine that yields, and one whose block libuv takes or refuses.
LEMMA YieldType ==
  ASSUME TypeOK, NEW c \in Coros, NEW w \in Waits, YieldIn(c, w)
  PROVE  /\ co' \in [Coros -> {"fresh", "running", "yielded", "dead"}]
         /\ wait' \in [Coros -> Waits]
BY DEF TypeOK, YieldIn

LEMMA IssueType ==
  ASSUME TypeOK, NEW c \in Coros, NEW r \in Reqs, NEW kind \in ReqKinds,
         NEW h \in Handles \cup {Nil}, Issue(c, r, kind, h),
         thread' \in [Handles \cup Reqs -> Coros \cup {Nil}]
  PROVE  TypeOK'
<1>1. YieldIn(c, Suspended("req", r)) /\ Suspended("req", r) \in Waits
  BY WaitsTyped DEF Issue
<1>2. req' \in [Reqs -> Blocks]
  BY BlocksTyped DEF Issue, TypeOK
<1>3. QED
  BY <1>1, <1>2, YieldType DEF Issue, TypeOK

LEMMA RefuseType ==
  ASSUME TypeOK, NEW r \in Reqs, NEW kind \in ReqKinds, Refuse(r, kind),
         thread' \in [Handles \cup Reqs -> Coros \cup {Nil}]
  PROVE  TypeOK'
BY BlocksTyped DEF Refuse, TypeOK

LEMMA TypeInit == Init => TypeOK
BY DEF Init, TypeOK, Waits, NoWait, Suspended, Blocks, FreeBlock

LEMMA TypeNext == TypeOK /\ [Next]_vars => TypeOK'
<1> SUFFICES ASSUME TypeOK, [Next]_vars PROVE TypeOK'
  OBVIOUS
<1> USE ActorsAssumption, ParametersAssumption
<1>1. CASE UNCHANGED vars
  BY <1>1 DEF vars, TypeOK
<1>2. CASE Next
  <2>1. CASE \E c \in Coros : Start(c) \/ Finish(c)
    BY <2>1 DEF Start, Finish, TypeOK
  <2>2. CASE \E c \in Coros, h \in Handles :
               NewHandle(c, h) \/ NewHandleFails(c, h) \/ TakeInput(c, h) \/ Close(c, h)
    <3>1. PICK c \in Coros, h \in Handles :
            NewHandle(c, h) \/ NewHandleFails(c, h) \/ TakeInput(c, h) \/ Close(c, h)
      BY <2>2
    <3>2. CASE NewHandle(c, h)
      BY <3>2 DEF NewHandle, InitHandle, TypeOK, Actors
    <3>3. CASE NewHandleFails(c, h)
      BY <3>3 DEF NewHandleFails, TypeOK
    <3>4. CASE TakeInput(c, h)
      <4>1. CASE input[h] = <<>>
        BY <3>4, <4>1, WaitsTyped, YieldType DEF TakeInput, TypeOK
      <4>2. CASE input[h] # <<>>
        <5>1. Tail(input[h]) \in Seq(Nat) /\ Head(input[h]) \in Nat
          BY <4>2 DEF TypeOK
        <5>2. Append(taken[h], Head(input[h])) \in Seq(Nat)
          BY <5>1 DEF TypeOK
        <5>3. UNCHANGED <<co, wait>> /\ TakeHead(h, input)
          BY <3>4, <4>2 DEF TakeInput
        <5>4. input' \in [Handles -> Seq(Nat)] /\ taken' \in [Handles -> Seq(Nat)]
          BY <5>1, <5>2, <5>3 DEF TakeHead, TypeOK
        <5>5. QED
          BY <3>4, <5>3, <5>4 DEF TakeInput, TypeOK
      <4>3. QED
        BY <4>1, <4>2
    <3>5. CASE Close(c, h)
      BY <3>5 DEF Close, StartClose, YieldIn, TypeOK, Waits, Suspended
    <3>6. QED
      BY <3>1, <3>2, <3>3, <3>4, <3>5
  <2>3. CASE \E l \in Actors, h \in Handles :
               TtyNew(l, h) \/ TcpOpen(l, h) \/ Listen(l, h)
                 \/ \E on \in BOOLEAN : SetReading(l, h, on)
    <3>1. PICK l \in Actors, h \in Handles :
            TtyNew(l, h) \/ TcpOpen(l, h) \/ Listen(l, h) \/ \E on \in BOOLEAN : SetReading(l, h, on)
      BY <2>3
    <3>2. CASE TtyNew(l, h)
      BY <3>1, <3>2 DEF TtyNew, InitHandle, TypeOK, Actors
    <3>3. CASE TcpOpen(l, h)
      BY <3>1, <3>3 DEF TcpOpen, TypeOK
    <3>4. CASE Listen(l, h)
      BY <3>1, <3>4 DEF Listen, TypeOK
    <3>5. CASE \E on \in BOOLEAN : SetReading(l, h, on)
      BY <3>1, <3>5 DEF SetReading, TypeOK
    <3>6. QED
      BY <3>1, <3>2, <3>3, <3>4, <3>5
  <2>4. CASE \E h \in Handles : MainClose(h) \/ Deliver(h) \/ CloseCb(h)
    <3>1. PICK h \in Handles : MainClose(h) \/ Deliver(h) \/ CloseCb(h)
      BY <2>4
    <3>2. CASE MainClose(h)
      BY <3>2 DEF MainClose, StartClose, TypeOK
    <3>3. CASE Deliver(h)
      <4>1. [input EXCEPT ![h] = Append(@, recvd[h] + 1)] \in [Handles -> Seq(Nat)]
        BY DEF TypeOK
      <4>2. Resume(owner[h], FALSE, [input EXCEPT ![h] = Append(@, recvd[h] + 1)])
        BY <3>3 DEF Deliver, ResumeIfYielded
      <4>3. recvd' \in [Handles -> Nat]
        BY <3>3 DEF Deliver, TypeOK
      <4>4. /\ co' \in [Coros -> {"fresh", "running", "yielded", "dead"}]
            /\ wait' \in [Coros -> Waits]
            /\ input' \in [Handles -> Seq(Nat)]
            /\ taken' \in [Handles -> Seq(Nat)]
        BY <4>1, <4>2, ResumeType
      <4>5. QED
        BY <3>3, <4>3, <4>4 DEF Deliver, TypeOK
    <3>4. CASE CloseCb(h)
      <4>1. Resume(owner[h], FALSE, input)
        BY <3>4 DEF CloseCb, ResumeIfYielded
      <4>2. slots' \subseteq slots
        BY <3>4 DEF CloseCb, CleanTcp, CleanUdp, CleanTty
      <4>3. input \in [Handles -> Seq(Nat)]
        BY DEF TypeOK
      <4>4. QED
        BY <3>4, <4>1, <4>2, <4>3, ResumeType DEF CloseCb, TypeOK
    <3>5. QED
      BY <3>1, <3>2, <3>3, <3>4
  <2>5. CASE RequestSteps
    <3>1. PICK c \in Coros, h \in Handles, r \in Reqs :
            (\E kind \in HandleReqKinds : Request(c, h, r, kind)) \/ PipeConnect(c, h, r)
      BY <2>5 DEF RequestSteps
    <3>2. CASE PipeConnect(c, h, r)
      BY <3>2, IssueType DEF PipeConnect, ReqKinds, HandleReqKinds, TypeOK
    <3>3. ASSUME NEW kind \in HandleReqKinds, Request(c, h, r, kind)
          PROVE  TypeOK'
      BY <3>3, IssueType, RefuseType DEF Request, ReqKinds, TypeOK
    <3>4. QED
      BY <3>1, <3>2, <3>3
  <2>6. CASE \E c \in Coros, r \in Reqs : Getaddrinfo(c, r) \/ Sleep(c, r)
    <3>1. PICK c \in Coros, r \in Reqs : Getaddrinfo(c, r) \/ Sleep(c, r)
      BY <2>6
    <3>2. thread' \in [Handles \cup Reqs -> Coros \cup {Nil}]
      BY <3>1 DEF Getaddrinfo, Sleep, TypeOK
    <3>3. CASE Issue(c, r, "getaddrinfo", Nil) \/ Issue(c, r, "sleep", Nil)
      BY <3>2, <3>3, IssueType DEF ReqKinds
    <3>4. CASE UNCHANGED <<co, wait, hstate, owner, opened, reading, input, recvd, taken, slots, req>>
      BY <3>2, <3>4 DEF TypeOK
    <3>5. CASE Refuse(r, "sleep")
      BY <3>2, <3>5, RefuseType DEF ReqKinds
    <3>6. QED
      BY <3>1, <3>3, <3>4, <3>5 DEF Getaddrinfo, Sleep
  <2>7. CASE BlockCb
    <3>1. PICK r \in Reqs : \/ \E kind \in HandleReqKinds : HandleReqCb(r, kind)
                            \/ GetaddrinfoCb(r) \/ SleepCb(r) \/ SleepCloseCb(r)
      BY <2>7 DEF BlockCb
    <3>2. input \in [Handles -> Seq(Nat)] /\ FreeBlock \in Blocks
      BY BlocksTyped DEF TypeOK
    <3>3. CASE SleepCb(r)
      BY <3>3, BlocksTyped DEF SleepCb, TypeOK
    <3>4. CASE \E kind \in HandleReqKinds : HandleReqCb(r, kind)
      <4>1. Resume(owner[req[r].on], TRUE, input) \/ Resume(owner[req[r].on], FALSE, input)
        BY <3>4 DEF HandleReqCb
      <4>2. /\ co' \in [Coros -> {"fresh", "running", "yielded", "dead"}]
            /\ wait' \in [Coros -> Waits]
            /\ input' \in [Handles -> Seq(Nat)]
            /\ taken' \in [Handles -> Seq(Nat)]
        BY <3>2, <4>1, ResumeType
      <4>3. /\ req' = [req EXCEPT ![r] = FreeBlock]
            /\ UNCHANGED <<hstate, owner, opened, reading, recvd, thread, slots>>
        BY <3>4 DEF HandleReqCb
      <4>4. QED
        BY <3>2, <4>2, <4>3 DEF TypeOK
    <3>5. CASE GetaddrinfoCb(r)
      <4>1. Resume(req[r].by, TRUE, input) \/ Resume(req[r].by, FALSE, input)
        BY <3>5 DEF GetaddrinfoCb
      <4>2. QED
        BY <3>5, <4>1, <3>2, ResumeType DEF GetaddrinfoCb, TypeOK
    <3>6. CASE SleepCloseCb(r)
      BY <3>6, <3>2, ResumeType DEF SleepCloseCb, TypeOK
    <3>7. QED
      BY <3>1, <3>3, <3>4, <3>5, <3>6
  <2>8. QED
    BY <1>2, StepCases, <2>1, <2>2, <2>3, <2>4, <2>5, <2>6, <2>7
<1>3. QED
  BY <1>1, <1>2

\* Every variable keeps its type.
THEOREM TypeCorrect == Spec => []TypeOK
BY TypeInit, TypeNext, PTL DEF Spec

-----------------------------------------------------------------------------
(***************************************************************************)
(* Reads return the input in the order of its arrival.  What a read takes  *)
(* from the queue is what it adds to taken, so that their concatenation    *)
(* changes only when libuv delivers.                                       *)
(***************************************************************************)
LEMMA MoveHead ==
  ASSUME NEW s \in Seq(Nat), NEW t \in Seq(Nat), t # <<>>
  PROVE  Append(s, Head(t)) \o Tail(t) = s \o t
<1>1. Head(t) \in Nat /\ Tail(t) \in Seq(Nat) /\ <<Head(t)>> \in Seq(Nat)
  BY HeadTailProperties
<1>2. Append(s, Head(t)) = s \o <<Head(t)>>
  BY <1>1, AppendIsConcat
<1>3. <<Head(t)>> \o Tail(t) = t
  BY <1>1
<1>4. (s \o <<Head(t)>>) \o Tail(t) = s \o (<<Head(t)>> \o Tail(t))
  BY <1>1, ConcatAssociative
<1>5. QED
  BY <1>2, <1>3, <1>4

LEMMA AppendToConcat ==
  ASSUME NEW s \in Seq(Nat), NEW t \in Seq(Nat), NEW n \in Nat
  PROVE  s \o Append(t, n) = Append(s \o t, n)
<1>1. <<n>> \in Seq(Nat) /\ s \o t \in Seq(Nat)
  OBVIOUS
<1>2. Append(t, n) = t \o <<n>>
  BY AppendIsConcat
<1>3. Append(s \o t, n) = (s \o t) \o <<n>>
  BY <1>1, AppendIsConcat
<1>4. (s \o t) \o <<n>> = s \o (t \o <<n>>)
  BY <1>1, ConcatAssociative
<1>5. QED
  BY <1>2, <1>3, <1>4

LEMMA TakeHeadFifo ==
  ASSUME TypeOK, NEW h \in Handles, NEW q \in [Handles -> Seq(Nat)],
         q[h] # <<>>, TakeHead(h, q)
  PROVE  \A g \in Handles : taken'[g] \o input'[g] = taken[g] \o q[g]
<1> TAKE g \in Handles
<1>1. CASE g = h
  <2>1. taken'[h] = Append(taken[h], Head(q[h])) /\ input'[h] = Tail(q[h])
    BY DEF TakeHead, TypeOK
  <2>2. QED
    BY <1>1, <2>1, MoveHead DEF TypeOK
<1>2. CASE g # h
  BY <1>2 DEF TakeHead, TypeOK
<1>3. QED
  BY <1>1, <1>2

LEMMA ResumeFifo ==
  ASSUME TypeOK, NEW l, NEW value \in BOOLEAN, NEW q \in [Handles -> Seq(Nat)],
         Resume(l, value, q)
  PROVE  \A g \in Handles : taken'[g] \o input'[g] = taken[g] \o q[g]
<1>1. CASE input' = q /\ UNCHANGED taken
  BY <1>1
<1>2. CASE \E h \in Handles : q[h] # <<>> /\ TakeHead(h, q)
  BY <1>2, TakeHeadFifo
<1>3. QED
  BY <1>1, <1>2 DEF Resume

Arrived(n) == [i \in 1 .. n |-> i]

LEMMA ArrivedNext ==
  ASSUME NEW n \in Nat
  PROVE  Append(Arrived(n), n + 1) = Arrived(n + 1)
<1>1. Arrived(n) \in Seq(Nat) /\ Len(Arrived(n)) = n
  BY DEF Arrived
<1>2. /\ Append(Arrived(n), n + 1) \in Seq(Nat)
      /\ Len(Append(Arrived(n), n + 1)) = n + 1
      /\ \A i \in 1 .. n : Append(Arrived(n), n + 1)[i] = Arrived(n)[i]
      /\ Append(Arrived(n), n + 1)[n + 1] = n + 1
  BY <1>1, AppendProperties
<1>3. Arrived(n + 1) \in Seq(Nat) /\ Len(Arrived(n + 1)) = n + 1
  BY DEF Arrived
<1>4. \A i \in 1 .. n + 1 : Append(Arrived(n), n + 1)[i] = Arrived(n + 1)[i]
  BY <1>2 DEF Arrived
<1>5. QED
  BY <1>2, <1>3, <1>4, SeqEqual

\* The inductive invariant: libuv reads only from handles that were created.
FifoInv ==
  /\ TypeOK
  /\ ReadFifo
  /\ \A h \in Handles : hstate[h] = "none" => recvd[h] = 0 /\ ~reading[h]

\* A step that moves input only from the queues to the readers keeps the order.
LEMMA FifoFrame ==
  ASSUME FifoInv, UNCHANGED recvd,
         \A g \in Handles : taken'[g] \o input'[g] = taken[g] \o input[g]
  PROVE  ReadFifo'
BY DEF FifoInv, ReadFifo

\* A handle that did not exist starts with an empty queue.
LEMMA InitFifo ==
  ASSUME FifoInv, NEW l \in Actors, NEW h \in Handles, hstate[h] = "none", InitHandle(l, h)
  PROVE  /\ ReadFifo'
         /\ \A g \in Handles : hstate'[g] = "none" => recvd'[g] = 0 /\ ~reading'[g]
<1>1. taken[h] \in Seq(Nat) /\ input[h] \in Seq(Nat)
  BY DEF FifoInv, TypeOK
<1>2. taken[h] \o input[h] = <<>>
  <2>1. recvd[h] = 0 /\ taken[h] \o input[h] = [i \in 1 .. recvd[h] |-> i]
    BY DEF FifoInv, ReadFifo
  <2>2. [i \in 1 .. 0 |-> i] = <<>>
    OBVIOUS
  <2>3. QED
    BY <2>1, <2>2
<1>3. input[h] = <<>>
  BY <1>1, <1>2
<1>4. UNCHANGED <<input, taken, recvd, reading>>
  BY <1>3 DEF InitHandle, FifoInv, TypeOK
<1>5. \A g \in Handles : hstate'[g] = "none" => hstate[g] = "none"
  BY DEF InitHandle, FifoInv, TypeOK
<1>6. QED
  BY <1>4, <1>5, FifoFrame DEF FifoInv

LEMMA FifoInit == Init => FifoInv
<1> SUFFICES ASSUME Init PROVE FifoInv
  OBVIOUS
<1>1. <<>> \o <<>> = [i \in 1 .. 0 |-> i]
  OBVIOUS
<1>2. QED
  BY <1>1, TypeInit DEF Init, FifoInv, ReadFifo

LEMMA FifoNext == FifoInv /\ [Next]_vars => FifoInv'
<1> SUFFICES ASSUME FifoInv, [Next]_vars PROVE FifoInv'
  OBVIOUS
<1> USE ActorsAssumption DEF FifoInv
<1>1. TypeOK /\ TypeOK'
  BY TypeNext
<1>2. input \in [Handles -> Seq(Nat)]
  BY DEF TypeOK
<1>3. CASE UNCHANGED vars
  BY <1>1, <1>3, FifoFrame DEF vars
<1>4. CASE Next
  <2>1. CASE \E c \in Coros : Start(c) \/ Finish(c)
    BY <1>1, <2>1, FifoFrame DEF Start, Finish
  <2>2. CASE \E c \in Coros, h \in Handles :
               NewHandle(c, h) \/ NewHandleFails(c, h) \/ TakeInput(c, h) \/ Close(c, h)
    <3>1. PICK c \in Coros, h \in Handles :
            NewHandle(c, h) \/ NewHandleFails(c, h) \/ TakeInput(c, h) \/ Close(c, h)
      BY <2>2
    <3>2. CASE NewHandle(c, h)
      BY <1>1, <3>2, InitFifo DEF NewHandle, Actors
    <3>3. CASE NewHandleFails(c, h)
      BY <1>1, <3>3, FifoFrame DEF NewHandleFails
    <3>4. CASE TakeInput(c, h)
      <4>1. \A g \in Handles : taken'[g] \o input'[g] = taken[g] \o input[g]
        BY <1>1, <1>2, <3>4, TakeHeadFifo DEF TakeInput
      <4>2. QED
        BY <1>1, <3>4, <4>1, FifoFrame DEF TakeInput
    <3>5. CASE Close(c, h)
      <4>1. UNCHANGED <<input, taken, recvd>>
        BY <3>5 DEF Close, StartClose
      <4>2. QED
        BY <1>1, <3>5, <4>1, FifoFrame DEF Close, StartClose, TypeOK
    <3>6. QED
      BY <3>1, <3>2, <3>3, <3>4, <3>5
  <2>3. CASE \E l \in Actors, h \in Handles :
               TtyNew(l, h) \/ TcpOpen(l, h) \/ Listen(l, h)
                 \/ \E on \in BOOLEAN : SetReading(l, h, on)
    <3>1. PICK l \in Actors, h \in Handles :
            TtyNew(l, h) \/ TcpOpen(l, h) \/ Listen(l, h) \/ \E on \in BOOLEAN : SetReading(l, h, on)
      BY <2>3
    <3>2. CASE TtyNew(l, h)
      BY <1>1, <3>2, InitFifo DEF TtyNew
    <3>3. CASE TcpOpen(l, h) \/ Listen(l, h)
      BY <1>1, <3>3, FifoFrame DEF TcpOpen, Listen
    <3>4. CASE \E on \in BOOLEAN : SetReading(l, h, on)
      <4>1. UNCHANGED <<hstate, input, taken, recvd>> /\ hstate[h] = "open"
        BY <3>4 DEF SetReading
      <4>2. \A g \in Handles : g # h => reading'[g] = reading[g]
        BY <3>4 DEF SetReading, TypeOK
      <4>3. QED
        BY <1>1, <4>1, <4>2, FifoFrame
    <3>5. QED
      BY <3>1, <3>2, <3>3, <3>4
  <2>4. CASE \E h \in Handles : MainClose(h) \/ Deliver(h) \/ CloseCb(h)
    <3>1. PICK h \in Handles : MainClose(h) \/ Deliver(h) \/ CloseCb(h)
      BY <2>4
    <3>2. CASE MainClose(h)
      <4>1. UNCHANGED <<input, taken, recvd>>
        BY <3>2 DEF MainClose, StartClose
      <4>2. QED
        BY <1>1, <3>2, <4>1, FifoFrame DEF MainClose, StartClose, TypeOK
    <3>3. CASE Deliver(h)
      <4> DEFINE q == [input EXCEPT ![h] = Append(@, recvd[h] + 1)]
      <4>1. q \in [Handles -> Seq(Nat)]
        BY DEF TypeOK
      <4>2. Resume(owner[h], FALSE, q)
        BY <3>3 DEF Deliver, ResumeIfYielded
      <4>3. \A g \in Handles : taken'[g] \o input'[g] = taken[g] \o q[g]
        BY <1>1, <4>1, <4>2, ResumeFifo
      <4>4. taken[h] \o q[h] = Arrived(recvd[h] + 1)
        <5>1. taken[h] \in Seq(Nat) /\ input[h] \in Seq(Nat) /\ recvd[h] \in Nat
          BY <1>1 DEF TypeOK
        <5>2. q[h] = Append(input[h], recvd[h] + 1)
          BY <1>2
        <5>3. taken[h] \o Append(input[h], recvd[h] + 1) = Append(taken[h] \o input[h], recvd[h] + 1)
          <6>1. recvd[h] + 1 \in Nat
            BY <5>1
          <6>2. QED
            BY <5>1, <6>1, AppendToConcat
        <5>4. taken[h] \o input[h] = Arrived(recvd[h])
          BY DEF ReadFifo, Arrived
        <5>5. QED
          BY <5>1, <5>2, <5>3, <5>4, ArrivedNext
      <4>5. /\ recvd' = [recvd EXCEPT ![h] = recvd[h] + 1]
            /\ reading[h] /\ UNCHANGED <<hstate, reading>>
        BY <3>3 DEF Deliver
      <4>6. ReadFifo'
        <5> SUFFICES ASSUME NEW g \in Handles
                     PROVE  taken'[g] \o input'[g] = Arrived(recvd'[g])
          BY DEF ReadFifo, Arrived
        <5>1. CASE g = h
          BY <1>1, <4>3, <4>4, <4>5, <5>1 DEF TypeOK
        <5>2. CASE g # h
          BY <1>1, <4>3, <4>5, <5>2 DEF TypeOK, ReadFifo, Arrived
        <5>3. QED
          BY <5>1, <5>2
      <4>7. \A g \in Handles : hstate'[g] = "none" => recvd'[g] = 0 /\ ~reading'[g]
        BY <1>1, <4>5 DEF TypeOK
      <4>8. QED
        BY <1>1, <4>6, <4>7
    <3>4. CASE CloseCb(h)
      <4>1. Resume(owner[h], FALSE, input)
        BY <3>4 DEF CloseCb, ResumeIfYielded
      <4>2. \A g \in Handles : taken'[g] \o input'[g] = taken[g] \o input[g]
        BY <1>1, <1>2, <4>1, ResumeFifo
      <4>3. hstate' = [hstate EXCEPT ![h] = "closed"] /\ UNCHANGED <<recvd, reading>>
        BY <3>4 DEF CloseCb
      <4>4. QED
        BY <1>1, <4>2, <4>3, FifoFrame DEF TypeOK
    <3>5. QED
      BY <3>1, <3>2, <3>3, <3>4
  <2>5. CASE RequestSteps
    <3>1. UNCHANGED <<hstate, reading, input, taken, recvd>>
      BY <2>5 DEF RequestSteps, Request, PipeConnect, Issue, Refuse
    <3>2. QED
      BY <1>1, <3>1, FifoFrame
  <2>6. CASE \E c \in Coros, r \in Reqs : Getaddrinfo(c, r) \/ Sleep(c, r)
    <3>1. UNCHANGED <<hstate, reading, input, taken, recvd>>
      BY <2>6 DEF Getaddrinfo, Sleep, Issue, Refuse
    <3>2. QED
      BY <1>1, <3>1, FifoFrame
  <2>7. CASE BlockCb
    <3>1. PICK r \in Reqs : \/ \E kind \in HandleReqKinds : HandleReqCb(r, kind)
                            \/ GetaddrinfoCb(r) \/ SleepCb(r) \/ SleepCloseCb(r)
      BY <2>7 DEF BlockCb
    <3>2. UNCHANGED <<hstate, reading, recvd>>
      BY <3>1 DEF HandleReqCb, GetaddrinfoCb, SleepCb, SleepCloseCb
    <3>3. CASE SleepCb(r)
      BY <1>1, <3>2, <3>3, FifoFrame DEF SleepCb
    <3>4. CASE ~SleepCb(r)
      <4>1. \E l : Resume(l, TRUE, input) \/ Resume(l, FALSE, input)
        BY <3>1, <3>4 DEF HandleReqCb, GetaddrinfoCb, SleepCloseCb
      <4>2. \A g \in Handles : taken'[g] \o input'[g] = taken[g] \o input[g]
        BY <1>1, <1>2, <4>1, ResumeFifo
      <4>3. QED
        BY <1>1, <3>2, <4>2, FifoFrame
    <3>5. QED
      BY <3>3, <3>4
  <2>8. QED
    BY <1>4, StepCases, <2>1, <2>2, <2>3, <2>4, <2>5, <2>6, <2>7
<1>5. QED
  BY <1>3, <1>4

\* Every input of a handle is returned by the reads of it in the order in which
\* it arrived, or still queued in that order: read_cb and the read functions
\* lose, repeat and reorder nothing.
THEOREM FifoCorrect == Spec => []ReadFifo
<1>1. FifoInv => ReadFifo
  BY DEF FifoInv
<1>2. QED
  BY FifoInit, FifoNext, <1>1, PTL DEF Spec

-----------------------------------------------------------------------------
(***************************************************************************)
(* No wake-up is lost.                                                     *)
(***************************************************************************)
\* What a resumption does to the coroutines: it suspends none, it concerns only
\* the resumed one, which goes on unless it reads from a queue that is empty.
LEMMA ResumeEffect ==
  ASSUME TypeOK, NEW l, NEW value \in BOOLEAN, NEW q \in [Handles -> Seq(Nat)],
         Resume(l, value, q)
  PROVE  /\ \A c \in Coros : c # l => co'[c] = co[c] /\ wait'[c] = wait[c]
         /\ \A c \in Coros : co'[c] = "yielded" => co[c] = "yielded" /\ wait'[c] = wait[c]
         /\ Yielded(l) /\ wait[l].on # "read" => co'[l] = "running"
         /\ \A h \in Handles : Yielded(l) /\ Reading(l, h) /\ q[h] # <<>> => co'[l] = "running"
         /\ \A h \in Handles : q[h] = <<>> => input'[h] = <<>>
<1> USE DEF Yielded, Reading, Suspended
<1>1. CASE ~Yielded(l) /\ input' = q /\ UNCHANGED <<co, wait, taken>>
  BY <1>1
<1>2. CASE Yielded(l) /\ ReturnFromCall(l) /\ input' = q
  BY <1>2 DEF ReturnFromCall, TypeOK
<1>3. CASE \E h \in Handles :
             /\ Yielded(l) /\ wait[l] = Suspended("read", h) /\ q[h] = <<>>
             /\ input' = q /\ UNCHANGED <<co, wait, taken>>
  BY <1>3
<1>4. CASE \E h \in Handles :
             /\ Yielded(l) /\ wait[l] = Suspended("read", h)
             /\ q[h] # <<>> /\ ReturnFromCall(l) /\ TakeHead(h, q)
  BY <1>4 DEF ReturnFromCall, TakeHead, TypeOK
<1>5. QED
  BY <1>1, <1>2, <1>3, <1>4 DEF Resume

\* A callback that resumes a thread while the queues are q and that leaves the
\* owners alone: the queues may have grown only where the resumed thread owns.
LEMMA ResumeKeepsReaders ==
  ASSUME TypeOK, NoLostWakeup, NEW l, NEW value \in BOOLEAN,
         NEW q \in [Handles -> Seq(Nat)], Resume(l, value, q), UNCHANGED owner,
         \A h \in Handles : q[h] = input[h] \/ owner[h] = l
  PROVE  NoLostWakeup'
<1> SUFFICES ASSUME NEW h \in Handles, NEW c \in Coros, owner'[h] = c, Reading(c, h)'
             PROVE  input'[h] = <<>>
  BY DEF NoLostWakeup
<1>1. co'[c] = "yielded" /\ Reading(c, h) /\ owner[h] = c
  BY ResumeEffect DEF Reading
<1>2. q[h] = <<>>
  <2>1. CASE q[h] = input[h]
    BY <1>1, <2>1 DEF NoLostWakeup
  <2>2. CASE q[h] # <<>> /\ c = l
    BY <1>1, <2>2, ResumeEffect DEF Yielded, Reading
  <2>3. QED
    BY <1>1, <2>1, <2>2
<1>3. QED
  BY <1>2, ResumeEffect

\* A step that suspends nobody in a read, and leaves the queues and owners.
LEMMA ReadersFrame ==
  ASSUME NoLostWakeup, UNCHANGED <<owner, input>>,
         \A c \in Coros : co'[c] = "yielded" => 
           \/ co[c] = "yielded" /\ wait'[c] = wait[c]
           \/ wait'[c].on # "read"
  PROVE  NoLostWakeup'
<1> SUFFICES ASSUME NEW h \in Handles, NEW c \in Coros, owner'[h] = c, Reading(c, h)'
             PROVE  input'[h] = <<>>
  BY DEF NoLostWakeup
<1>1. co[c] = "yielded" /\ wait'[c] = wait[c]
  BY DEF Reading, Suspended
<1>2. QED
  BY <1>1 DEF NoLostWakeup, Reading

\* The coroutine that yields is the only one that changes.
LEMMA YieldEffect ==
  ASSUME TypeOK, NEW c \in Coros, NEW w, YieldIn(c, w)
  PROVE  /\ co'[c] = "yielded" /\ wait'[c] = w
         /\ \A d \in Coros : d # c => co'[d] = co[d] /\ wait'[d] = wait[d]
BY DEF TypeOK, YieldIn

WakeupInv == TypeOK /\ NoLostWakeup

LEMMA WakeupInit == Init => WakeupInv
BY TypeInit DEF Init, WakeupInv, NoLostWakeup, Reading

LEMMA WakeupNext == WakeupInv /\ [Next]_vars => WakeupInv'
<1> SUFFICES ASSUME WakeupInv, [Next]_vars PROVE NoLostWakeup'
  BY TypeNext DEF WakeupInv
<1> USE ActorsAssumption DEF WakeupInv
<1>1. TypeOK /\ NoLostWakeup /\ input \in [Handles -> Seq(Nat)]
  BY DEF TypeOK
<1>2. CASE UNCHANGED vars
  BY <1>1, <1>2, ReadersFrame DEF vars
<1>3. CASE Next
  <2>1. CASE \E c \in Coros : Start(c) \/ Finish(c)
    <3>1. PICK c \in Coros : Start(c) \/ Finish(c)
      BY <2>1
    <3>2. UNCHANGED <<owner, input, wait>> /\ \A d \in Coros : co'[d] = "yielded" => co[d] = "yielded"
      BY <3>1, <1>1 DEF Start, Finish, TypeOK
    <3>3. QED
      BY <1>1, <3>2, ReadersFrame
  <2>2. CASE \E c \in Coros, h \in Handles :
               NewHandle(c, h) \/ NewHandleFails(c, h) \/ TakeInput(c, h) \/ Close(c, h)
    <3>1. PICK c \in Coros, h \in Handles :
            NewHandle(c, h) \/ NewHandleFails(c, h) \/ TakeInput(c, h) \/ Close(c, h)
      BY <2>2
    <3>2. CASE NewHandle(c, h)
      BY <1>1, <3>2 DEF NewHandle, InitHandle, NoLostWakeup, Reading, TypeOK
    <3>3. CASE NewHandleFails(c, h)
      BY <1>1, <3>3, ReadersFrame DEF NewHandleFails
    <3>4. CASE TakeInput(c, h)
      <4>1. CASE input[h] = <<>>
        BY <1>1, <3>4, <4>1, YieldEffect DEF TakeInput, NoLostWakeup, Reading, Suspended
      <4>2. CASE input[h] # <<>>
        BY <1>1, <3>4, <4>2 DEF TakeInput, TakeHead, NoLostWakeup, Reading, TypeOK
      <4>3. QED
        BY <4>1, <4>2
    <3>5. CASE Close(c, h)
      <4>1. UNCHANGED <<owner, input>> /\ YieldIn(c, Suspended("close", h))
        BY <3>5 DEF Close, StartClose
      <4>2. QED
        BY <1>1, <4>1, YieldEffect, ReadersFrame DEF Suspended
    <3>6. QED
      BY <3>1, <3>2, <3>3, <3>4, <3>5
  <2>3. CASE \E l \in Actors, h \in Handles :
               TtyNew(l, h) \/ TcpOpen(l, h) \/ Listen(l, h)
                 \/ \E on \in BOOLEAN : SetReading(l, h, on)
    <3>1. PICK l \in Actors, h \in Handles :
            TtyNew(l, h) \/ TcpOpen(l, h) \/ Listen(l, h) \/ \E on \in BOOLEAN : SetReading(l, h, on)
      BY <2>3
    <3>2. CASE TtyNew(l, h)
      BY <1>1, <3>2 DEF TtyNew, InitHandle, NoLostWakeup, Reading, TypeOK
    <3>3. CASE TcpOpen(l, h)
      <4>1. UNCHANGED <<co, wait, input>> /\ Runs(l) /\ owner' = [owner EXCEPT ![h] = l]
        BY <3>3 DEF TcpOpen
      <4>2. \A c \in Coros : c = l => co[c] # "yielded"
        BY <3>1, <4>1 DEF Runs
      <4>3. QED
        BY <1>1, <4>1, <4>2 DEF NoLostWakeup, Reading, TypeOK
    <3>4. CASE Listen(l, h) \/ \E on \in BOOLEAN : SetReading(l, h, on)
      BY <1>1, <3>4, ReadersFrame DEF Listen, SetReading
    <3>5. QED
      BY <3>1, <3>2, <3>3, <3>4
  <2>4. CASE \E h \in Handles : MainClose(h) \/ Deliver(h) \/ CloseCb(h)
    <3>1. PICK h \in Handles : MainClose(h) \/ Deliver(h) \/ CloseCb(h)
      BY <2>4
    <3>2. CASE MainClose(h)
      BY <1>1, <3>2, ReadersFrame DEF MainClose, StartClose
    <3>3. CASE Deliver(h)
      <4> DEFINE q == [input EXCEPT ![h] = Append(@, recvd[h] + 1)]
      <4>1. q \in [Handles -> Seq(Nat)] /\ \A g \in Handles : q[g] = input[g] \/ g = h
        BY <1>1 DEF TypeOK
      <4>2. Resume(owner[h], FALSE, q) /\ UNCHANGED owner
        BY <3>3 DEF Deliver, ResumeIfYielded
      <4>3. QED
        BY <1>1, <4>1, <4>2, ResumeKeepsReaders
    <3>4. CASE CloseCb(h)
      <4>1. Resume(owner[h], FALSE, input) /\ UNCHANGED owner
        BY <3>4 DEF CloseCb, ResumeIfYielded
      <4>2. QED
        BY <1>1, <4>1, ResumeKeepsReaders
    <3>5. QED
      BY <3>1, <3>2, <3>3, <3>4
  <2>5. CASE RequestSteps \/ \E c \in Coros, r \in Reqs : Getaddrinfo(c, r) \/ Sleep(c, r)
    <3>1. /\ UNCHANGED <<owner, input>>
          /\ \/ UNCHANGED <<co, wait>>
             \/ \E c \in Coros, r \in Reqs : YieldIn(c, Suspended("req", r))
      BY <2>5 DEF RequestSteps, Request, PipeConnect, Getaddrinfo, Sleep, Issue, Refuse
    <3>2. CASE UNCHANGED <<co, wait>>
      BY <1>1, <3>1, <3>2, ReadersFrame
    <3>3. CASE \E c \in Coros, r \in Reqs : YieldIn(c, Suspended("req", r))
      <4>1. PICK c \in Coros, r \in Reqs : YieldIn(c, Suspended("req", r))
        BY <3>3
      <4>2. Suspended("req", r).on # "read"
        BY DEF Suspended
      <4>3. QED
        BY <1>1, <3>1, <4>1, <4>2, YieldEffect, ReadersFrame
    <3>4. QED
      BY <3>1, <3>2, <3>3
  <2>6. CASE BlockCb
    <3>1. PICK r \in Reqs : \/ \E kind \in HandleReqKinds : HandleReqCb(r, kind)
                            \/ GetaddrinfoCb(r) \/ SleepCb(r) \/ SleepCloseCb(r)
      BY <2>6 DEF BlockCb
    <3>2. CASE SleepCb(r)
      BY <1>1, <3>2, ReadersFrame DEF SleepCb
    <3>3. CASE ~SleepCb(r)
      <4>1. UNCHANGED owner /\ \E l : Resume(l, TRUE, input) \/ Resume(l, FALSE, input)
        BY <3>1, <3>3 DEF HandleReqCb, GetaddrinfoCb, SleepCloseCb
      <4>2. QED
        BY <1>1, <4>1, ResumeKeepsReaders
    <3>4. QED
      BY <3>2, <3>3
  <2>7. QED
    BY <1>3, StepCases, <2>1, <2>2, <2>3, <2>4, <2>5, <2>6
<1>4. QED
  BY <1>2, <1>3

\* The owner of a handle never sleeps in a read of it while the queue holds
\* input, although read_cb resumes it without knowing what it waits for and
\* every other callback may wake it in between.
THEOREM NoWakeupLost == Spec => []NoLostWakeup
<1>1. WakeupInv => NoLostWakeup
  BY DEF WakeupInv
<1>2. QED
  BY WakeupInit, WakeupNext, <1>1, PTL DEF Spec
=============================================================================
