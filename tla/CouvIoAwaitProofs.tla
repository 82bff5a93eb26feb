------------------------- MODULE CouvIoAwaitProofs -------------------------
(***************************************************************************)
(* Theorems about who is resumed by what: for programs in which a handle   *)
(* is used only by its creator, nobody is left behind by an answer that    *)
(* has come; if moreover a coroutine awaits other things than reads only   *)
(* while none of its handles is being read from, every answer goes to the  *)
(* call that it belongs to.                                                *)
(***************************************************************************)
EXTENDS CouvIoProofs

-----------------------------------------------------------------------------
(***************************************************************************)
(* Nobody is left behind.                                                  *)
(***************************************************************************)
BlocksWellFormed ==
  \A r \in Reqs :
    /\ Outstanding(r) /\ req[r].kind \in HandleReqKinds =>
         req[r].on \in Handles /\ hstate[req[r].on] # "none"
    /\ Outstanding(r) /\ req[r].kind \notin HandleReqKinds => req[r].by \in Coros
    /\ req[r].st = "closing" => req[r].kind = "sleep"

OrphanInv == TypeOK /\ BlocksWellFormed /\ NoOrphanAwait

\* A step that suspends nobody, and takes from nobody what it awaits.
LEMMA AwaitFrame ==
  ASSUME NoOrphanAwait,
         \A c \in Coros : co'[c] = "yielded" => co[c] = "yielded" /\ wait'[c] = wait[c],
         \A c \in Coros, r \in Reqs :
           co'[c] = "yielded" /\ wait[c] = Suspended("req", r) /\ Outstanding(r) /\ Target(r) = c
             => Outstanding(r)' /\ Target(r)' = c,
         \A c \in Coros, h \in Handles :
           co'[c] = "yielded" /\ wait[c] = Suspended("close", h) /\ hstate[h] = "closing" /\ owner[h] = c
             => hstate'[h] = "closing" /\ owner'[h] = c
  PROVE  NoOrphanAwait'
BY DEF NoOrphanAwait

\* The blocks and owners stay, and a handle that exists does not vanish.
LEMMA BlocksFrame ==
  ASSUME BlocksWellFormed, UNCHANGED req,
         \A h \in Handles : hstate[h] # "none" => hstate'[h] # "none"
  PROVE  BlocksWellFormed'
BY DEF BlocksWellFormed, Outstanding

LEMMA TargetFrame ==
  ASSUME BlocksWellFormed, UNCHANGED req,
         \A h \in Handles : hstate[h] # "none" => owner'[h] = owner[h]
  PROVE  \A r \in Reqs : Outstanding(r) => Outstanding(r)' /\ Target(r)' = Target(r)
BY DEF BlocksWellFormed, Outstanding, Target

\* A running coroutine has libuv take a block for it and yields in it.
LEMMA IssueOrphan ==
  ASSUME OrphanInv, NEW c \in Coros, NEW r \in Reqs, NEW kind \in ReqKinds,
         NEW h \in Handles \cup {Nil}, Issue(c, r, kind, h), req[r].st = "free",
         kind \in HandleReqKinds => h \in Handles /\ owner[h] = c /\ hstate[h] # "none"
  PROVE  BlocksWellFormed' /\ NoOrphanAwait'
<1>1. TypeOK /\ UNCHANGED <<hstate, owner>> /\ YieldIn(c, Suspended("req", r))
  BY DEF OrphanInv, Issue
<1>2. /\ req'[r] = [kind |-> kind, on |-> h, by |-> c, st |-> "pending"]
      /\ \A s \in Reqs : s # r => req'[s] = req[s]
  BY <1>1 DEF Issue, TypeOK
<1>3. BlocksWellFormed'
  BY <1>1, <1>2 DEF BlocksWellFormed, Outstanding, OrphanInv
<1>4. Outstanding(r)' /\ Target(r)' = c
  BY <1>1, <1>2 DEF Outstanding, Target
<1>5. \A s \in Reqs : Outstanding(s) => s # r /\ Outstanding(s)' /\ Target(s)' = Target(s)
  BY <1>1, <1>2 DEF Outstanding, Target
<1>6. NoOrphanAwait'
  <2> SUFFICES ASSUME NEW d \in Coros, co'[d] = "yielded"
      PROVE /\ \A s \in Reqs : wait'[d] = Suspended("req", s) => Outstanding(s)' /\ Target(s)' = d
            /\ \A g \in Handles : wait'[d] = Suspended("close", g) => hstate'[g] = "closing" /\ owner'[g] = d
    BY DEF NoOrphanAwait
  <2>1. CASE d = c
    BY <1>1, <1>4, <2>1, YieldEffect DEF Suspended
  <2>2. CASE d # c
    BY <1>1, <1>5, <2>2, YieldEffect DEF NoOrphanAwait, OrphanInv
  <2>3. QED
    BY <2>1, <2>2
<1>7. QED
  BY <1>3, <1>6

\* The callback of block r resumes its target and frees the block.
LEMMA AnswerOrphan ==
  ASSUME OrphanInv, NEW r \in Reqs, Outstanding(r),
         Resume(Target(r), TRUE, input) \/ Resume(Target(r), FALSE, input),
         UNCHANGED <<hstate, owner>>,
         req' = [req EXCEPT ![r] = FreeBlock]
  PROVE  BlocksWellFormed' /\ NoOrphanAwait'
<1>1. TypeOK /\ input \in [Handles -> Seq(Nat)]
  BY DEF OrphanInv, TypeOK
<1>2. req'[r] = FreeBlock /\ \A s \in Reqs : s # r => req'[s] = req[s]
  BY <1>1 DEF TypeOK
<1>3. BlocksWellFormed'
  BY <1>2 DEF BlocksWellFormed, Outstanding, OrphanInv, FreeBlock
<1>4. \A s \in Reqs : s # r /\ Outstanding(s) => Outstanding(s)' /\ Target(s)' = Target(s)
  BY <1>2 DEF Outstanding, Target
<1>5. \A c \in Coros : co'[c] = "yielded" /\ wait[c] = Suspended("req", r) => Target(r) # c
  <2> SUFFICES ASSUME NEW c \in Coros, co'[c] = "yielded", wait[c] = Suspended("req", r), Target(r) = c
               PROVE  FALSE
    OBVIOUS
  <2>1. Resume(c, TRUE, input) \/ Resume(c, FALSE, input)
    OBVIOUS
  <2>2. co[c] = "yielded"
    BY <1>1, <2>1, ResumeEffect
  <2>3. Yielded(c) /\ wait[c].on # "read"
    BY <2>2 DEF Yielded, Suspended
  <2>4. co'[c] = "running"
    BY <1>1, <2>1, <2>3, ResumeEffect
  <2>5. QED
    BY <2>4
<1>6. NoOrphanAwait'
  <2>1. \A c \in Coros : co'[c] = "yielded" => co[c] = "yielded" /\ wait'[c] = wait[c]
    BY <1>1, ResumeEffect
  <2>2. NoOrphanAwait
    BY DEF OrphanInv
  <2>3. \A c \in Coros, s \in Reqs :
          co'[c] = "yielded" /\ wait[c] = Suspended("req", s) /\ Outstanding(s) /\ Target(s) = c
            => Outstanding(s)' /\ Target(s)' = c
    BY <1>4, <1>5
  <2>4. \A c \in Coros, h \in Handles :
          co'[c] = "yielded" /\ wait[c] = Suspended("close", h) /\ hstate[h] = "closing" /\ owner[h] = c
            => hstate'[h] = "closing" /\ owner'[h] = c
    OBVIOUS
  <2>5. QED
    BY <2>1, <2>2, <2>3, <2>4, AwaitFrame
<1>7. QED
  BY <1>3, <1>6

LEMMA OrphanInit == Init => OrphanInv
BY TypeInit DEF Init, OrphanInv, BlocksWellFormed, NoOrphanAwait, Outstanding, FreeBlock

\* A step that changes no block, suspends nobody, takes no existing handle away
\* from its owner and closes none.
LEMMA IdleOrphan ==
  ASSUME OrphanInv, UNCHANGED req,
         \A c \in Coros : co'[c] = "yielded" => co[c] = "yielded" /\ wait'[c] = wait[c],
         \A h \in Handles : hstate[h] # "none" => hstate'[h] # "none" /\ owner'[h] = owner[h],
         \A h \in Handles : hstate[h] = "closing" =>
           \/ hstate'[h] = "closing"
           \/ \A c \in Coros : co'[c] = "yielded" => ~(wait[c] = Suspended("close", h) /\ owner[h] = c)
  PROVE  BlocksWellFormed' /\ NoOrphanAwait'
<1>1. \A r \in Reqs : Outstanding(r) => Outstanding(r)' /\ Target(r)' = Target(r)
  BY TargetFrame DEF OrphanInv
<1>2. BlocksWellFormed'
  BY BlocksFrame DEF OrphanInv
<1>3. NoOrphanAwait'
  <2>1. NoOrphanAwait
    BY DEF OrphanInv
  <2>2. \A c \in Coros, h \in Handles :
          co'[c] = "yielded" /\ wait[c] = Suspended("close", h) /\ hstate[h] = "closing" /\ owner[h] = c
            => hstate'[h] = "closing" /\ owner'[h] = c
    OBVIOUS
  <2>3. QED
    BY <1>1, <2>1, <2>2, AwaitFrame
<1>4. QED
  BY <1>2, <1>3

\* A coroutine yields in a read or in the close of a handle of its own.
LEMMA YieldOrphan ==
  ASSUME OrphanInv, NEW c \in Coros, NEW w, YieldIn(c, w), UNCHANGED <<owner, req>>,
         \A h \in Handles : hstate[h] # "none" => hstate'[h] # "none",
         \A h \in Handles : hstate[h] = "closing" => hstate'[h] = "closing",
         \A r \in Reqs : w # Suspended("req", r),
         \A h \in Handles : w = Suspended("close", h) => hstate'[h] = "closing" /\ owner[h] = c
  PROVE  BlocksWellFormed' /\ NoOrphanAwait'
<1>1. BlocksWellFormed'
  BY BlocksFrame DEF OrphanInv
<1>2. \A r \in Reqs : Outstanding(r) => Outstanding(r)' /\ Target(r)' = Target(r)
  BY TargetFrame DEF OrphanInv
<1>3. \A d \in Coros : d # c => co'[d] = co[d] /\ wait'[d] = wait[d]
  BY YieldEffect DEF OrphanInv
<1>4. wait'[c] = w
  BY YieldEffect DEF OrphanInv
<1>5. NoOrphanAwait'
  <2> SUFFICES ASSUME NEW d \in Coros, co'[d] = "yielded"
      PROVE /\ \A s \in Reqs : wait'[d] = Suspended("req", s) => Outstanding(s)' /\ Target(s)' = d
            /\ \A g \in Handles : wait'[d] = Suspended("close", g) => hstate'[g] = "closing" /\ owner'[g] = d
    BY DEF NoOrphanAwait
  <2>1. CASE d = c
    BY <1>4, <2>1
  <2>2. CASE d # c
    BY <1>2, <1>3, <2>2 DEF NoOrphanAwait, OrphanInv
  <2>3. QED
    BY <2>1, <2>2
<1>6. QED
  BY <1>1, <1>5

\* A block that libuv refuses was nobody's.
LEMMA RefuseOrphan ==
  ASSUME OrphanInv, NEW r \in Reqs, NEW kind \in ReqKinds, Refuse(r, kind), req[r].st = "free"
  PROVE  BlocksWellFormed' /\ NoOrphanAwait'
<1>1. UNCHANGED <<co, wait, hstate, owner>>
  BY DEF Refuse
<1>2. req'[r].st = "leaked" /\ \A s \in Reqs : s # r => req'[s] = req[s]
  BY DEF Refuse, FreeBlock, OrphanInv, TypeOK
<1>3. \A s \in Reqs : Outstanding(s) => Outstanding(s)' /\ Target(s)' = Target(s)
  BY <1>1, <1>2 DEF Outstanding, Target
<1>4. BlocksWellFormed'
  BY <1>1, <1>2 DEF OrphanInv, BlocksWellFormed, Outstanding
<1>5. QED
  BY <1>1, <1>3, <1>4, AwaitFrame DEF OrphanInv

\* The callbacks of blocks resume the target of the block.
LEMMA TargetResumed ==
  ASSUME OrphanInv, NEW r \in Reqs,
         \/ \E kind \in HandleReqKinds : HandleReqCb(r, kind)
         \/ GetaddrinfoCb(r) \/ SleepCloseCb(r)
  PROVE  Resume(Target(r), TRUE, input) \/ Resume(Target(r), FALSE, input)
<1>1. CASE \E kind \in HandleReqKinds : HandleReqCb(r, kind)
  <2>1. Target(r) = owner[req[r].on]
    BY <1>1 DEF HandleReqCb, Target
  <2>2. QED
    BY <1>1, <2>1 DEF HandleReqCb
<1>2. CASE GetaddrinfoCb(r) \/ SleepCloseCb(r)
  <2>1. Target(r) = req[r].by
    BY <1>2 DEF GetaddrinfoCb, SleepCloseCb, Target, HandleReqKinds, OrphanInv, BlocksWellFormed
  <2>2. QED
    BY <1>2, <2>1 DEF GetaddrinfoCb, SleepCloseCb
<1>3. QED
  BY <1>1, <1>2

LEMMA OrphanNext ==
  ASSUME Discipline # "any"
  PROVE  OrphanInv /\ [Next]_vars => OrphanInv'
<1> SUFFICES ASSUME OrphanInv, [Next]_vars PROVE BlocksWellFormed' /\ NoOrphanAwait'
  BY TypeNext DEF OrphanInv
<1> USE ActorsAssumption
<1>1. TypeOK /\ input \in [Handles -> Seq(Nat)]
  BY DEF OrphanInv, TypeOK
<1>2. CASE UNCHANGED vars
  BY <1>2, IdleOrphan DEF vars
<1>3. CASE Next
  <2>1. CASE \E c \in Coros : Start(c) \/ Finish(c)
    <3>1. /\ UNCHANGED <<wait, hstate, owner, req>>
          /\ \A d \in Coros : co'[d] = "yielded" => co[d] = "yielded"
      BY <2>1, <1>1 DEF Start, Finish, TypeOK
    <3>2. QED
      BY <3>1, IdleOrphan
  <2>2. CASE \E c \in Coros, h \in Handles :
               NewHandle(c, h) \/ NewHandleFails(c, h) \/ TakeInput(c, h) \/ Close(c, h)
    <3>1. PICK c \in Coros, h \in Handles :
            NewHandle(c, h) \/ NewHandleFails(c, h) \/ TakeInput(c, h) \/ Close(c, h)
      BY <2>2
    <3>2. CASE NewHandle(c, h)
      BY <1>1, <3>2, IdleOrphan DEF NewHandle, InitHandle, TypeOK
    <3>3. CASE NewHandleFails(c, h)
      BY <3>3, IdleOrphan DEF NewHandleFails
    <3>4. CASE TakeInput(c, h)
      <4>1. UNCHANGED <<hstate, owner, req>>
        BY <3>4 DEF TakeInput
      <4>2. CASE UNCHANGED <<co, wait>>
        BY <4>1, <4>2, IdleOrphan
      <4>3. CASE YieldIn(c, Suspended("read", h))
        BY <1>1, <4>1, <4>3, YieldOrphan DEF Suspended
      <4>4. QED
        BY <3>4, <4>2, <4>3 DEF TakeInput
    <3>5. CASE Close(c, h)
      <4>1. /\ YieldIn(c, Suspended("close", h)) /\ UNCHANGED <<owner, req>>
            /\ hstate[h] = "open" /\ hstate' = [hstate EXCEPT ![h] = "closing"]
            /\ owner[h] = c
        BY <3>5 DEF Close, StartClose, MayUse
      <4>2. \A g \in Handles : hstate[g] # "none" => hstate'[g] # "none" 
        BY <1>1, <4>1 DEF TypeOK
      <4>3. \A g \in Handles : hstate[g] = "closing" \/ g = h => hstate'[g] = "closing"
        BY <1>1, <4>1 DEF TypeOK
      <4>4. QED
        BY <1>1, <4>1, <4>2, <4>3, YieldOrphan DEF Suspended
    <3>6. QED
      BY <3>1, <3>2, <3>3, <3>4, <3>5
  <2>3. CASE \E l \in Actors, h \in Handles :
               TtyNew(l, h) \/ TcpOpen(l, h) \/ Listen(l, h)
                 \/ \E on \in BOOLEAN : SetReading(l, h, on)
    <3>1. PICK l \in Actors, h \in Handles :
            TtyNew(l, h) \/ TcpOpen(l, h) \/ Listen(l, h) \/ \E on \in BOOLEAN : SetReading(l, h, on)
      BY <2>3
    <3>2. CASE TtyNew(l, h)
      BY <1>1, <3>2, IdleOrphan DEF TtyNew, InitHandle, TypeOK
    <3>3. CASE TcpOpen(l, h)
      <4>1. UNCHANGED <<co, wait, hstate, owner, req>>
        BY <1>1, <3>3 DEF TcpOpen, MayUse, TypeOK
      <4>2. QED
        BY <4>1, IdleOrphan
    <3>4. CASE Listen(l, h) \/ \E on \in BOOLEAN : SetReading(l, h, on)
      BY <3>4, IdleOrphan DEF Listen, SetReading
    <3>5. QED
      BY <3>1, <3>2, <3>3, <3>4
  <2>4. CASE \E h \in Handles : MainClose(h) \/ Deliver(h) \/ CloseCb(h)
    <3>1. PICK h \in Handles : MainClose(h) \/ Deliver(h) \/ CloseCb(h)
      BY <2>4
    <3>2. CASE MainClose(h)
      BY <1>1, <3>2, IdleOrphan DEF MainClose, StartClose, TypeOK
    <3>3. CASE Deliver(h)
      <4> DEFINE q == [input EXCEPT ![h] = Append(@, recvd[h] + 1)]
      <4>1. q \in [Handles -> Seq(Nat)]
        BY <1>1 DEF TypeOK
      <4>2. Resume(owner[h], FALSE, q) /\ UNCHANGED <<hstate, owner, req>>
        BY <3>3 DEF Deliver, ResumeIfYielded
      <4>3. QED
        BY <1>1, <4>1, <4>2, ResumeEffect, IdleOrphan
    <3>4. CASE CloseCb(h)
      <4>1. /\ Resume(owner[h], FALSE, input) /\ UNCHANGED <<owner, req>>
            /\ hstate[h] = "closing" /\ hstate' = [hstate EXCEPT ![h] = "closed"]
        BY <3>4 DEF CloseCb, ResumeIfYielded
      <4>2. \A c \in Coros : co'[c] = "yielded" => co[c] = "yielded" /\ wait'[c] = wait[c]
        BY <1>1, <4>1, ResumeEffect
      <4>3. \A c \in Coros : co'[c] = "yielded" => ~(wait[c] = Suspended("close", h) /\ owner[h] = c)
        <5> SUFFICES ASSUME NEW c \in Coros, co'[c] = "yielded",
                            wait[c] = Suspended("close", h), owner[h] = c
                     PROVE  FALSE
          OBVIOUS
        <5>1. Yielded(c) /\ wait[c].on # "read"
          BY <4>2 DEF Yielded, Suspended
        <5>2. co'[c] = "running"
          BY <1>1, <4>1, <5>1, ResumeEffect
        <5>3. QED
          BY <5>2
      <4>4. \A g \in Handles : /\ hstate[g] # "none" => hstate'[g] # "none"
                               /\ hstate[g] = "closing" /\ g # h => hstate'[g] = "closing"
        BY <1>1, <4>1 DEF TypeOK
      <4>5. QED
        BY <4>1, <4>2, <4>3, <4>4, IdleOrphan
    <3>5. QED
      BY <3>1, <3>2, <3>3, <3>4
  <2>5. CASE RequestSteps
    <3>1. PICK c \in Coros, h \in Handles, r \in Reqs :
            (\E kind \in HandleReqKinds : Request(c, h, r, kind)) \/ PipeConnect(c, h, r)
      BY <2>5 DEF RequestSteps
    <3>2. MayIssue(c, h, r)
      BY <3>1 DEF Request, PipeConnect
    <3>3. \A kind \in HandleReqKinds : Issue(c, r, kind, h) => BlocksWellFormed' /\ NoOrphanAwait'
      BY <3>2, IssueOrphan DEF MayIssue, MayUse, ReqKinds
    <3>4. \A kind \in HandleReqKinds : Refuse(r, kind) => BlocksWellFormed' /\ NoOrphanAwait'
      BY <3>2, RefuseOrphan DEF MayIssue, ReqKinds
    <3>5. QED
      BY <3>1, <3>3, <3>4 DEF Request, PipeConnect, HandleReqKinds
  <2>6. CASE \E c \in Coros, r \in Reqs : Getaddrinfo(c, r) \/ Sleep(c, r)
    <3>1. PICK c \in Coros, r \in Reqs : Getaddrinfo(c, r) \/ Sleep(c, r)
      BY <2>6
    <3>2. CASE Issue(c, r, "getaddrinfo", Nil) \/ Issue(c, r, "sleep", Nil)
      BY <3>1, <3>2, IssueOrphan DEF Getaddrinfo, Sleep, ReqKinds, HandleReqKinds
    <3>3. CASE UNCHANGED <<co, wait, hstate, owner, req>>
      BY <3>3, IdleOrphan
    <3>4. CASE req[r].st = "free" /\ Refuse(r, "sleep")
      BY <3>4, RefuseOrphan DEF ReqKinds
    <3>5. QED
      BY <3>1, <3>2, <3>3, <3>4 DEF Getaddrinfo, Sleep
  <2>7. CASE BlockCb
    <3>1. PICK r \in Reqs : \/ \E kind \in HandleReqKinds : HandleReqCb(r, kind)
                            \/ GetaddrinfoCb(r) \/ SleepCb(r) \/ SleepCloseCb(r)
      BY <2>7 DEF BlockCb
    <3>2. CASE SleepCb(r)
      <4>1. /\ UNCHANGED <<co, wait, hstate, owner>> /\ Outstanding(r)
            /\ req[r].kind = "sleep" /\ req[r] \in Blocks
            /\ req' = [req EXCEPT ![r].st = "closing"]
        BY <1>1, <3>2 DEF SleepCb, Outstanding, TypeOK
      <4>2. /\ req'[r].kind = "sleep" /\ req'[r].st = "closing" /\ req'[r].by = req[r].by
            /\ \A s \in Reqs : s # r => req'[s] = req[s]
        BY <1>1, <4>1 DEF TypeOK, Blocks
      <4>3. \A s \in Reqs : Outstanding(s) => Outstanding(s)' /\ Target(s)' = Target(s)
        BY <4>1, <4>2 DEF Outstanding, Target, HandleReqKinds
      <4>4. BlocksWellFormed'
        BY <4>1, <4>2 DEF BlocksWellFormed, OrphanInv, Outstanding, HandleReqKinds
      <4>5. QED
        BY <4>1, <4>3, <4>4, AwaitFrame DEF OrphanInv
    <3>3. CASE ~SleepCb(r)
      <4>1. /\ Outstanding(r) /\ UNCHANGED <<hstate, owner>>
            /\ req' = [req EXCEPT ![r] = FreeBlock]
        BY <3>1, <3>3 DEF HandleReqCb, GetaddrinfoCb, SleepCloseCb, Outstanding
      <4>2. Resume(Target(r), TRUE, input) \/ Resume(Target(r), FALSE, input)
        BY <3>1, <3>3, TargetResumed
      <4>3. QED
        BY <4>1, <4>2, AnswerOrphan
    <3>4. QED
      BY <3>2, <3>3
  <2>8. QED
    BY <1>3, StepCases, <2>1, <2>2, <2>3, <2>4, <2>5, <2>6, <2>7
<1>4. QED
  BY <1>2, <1>3

\* As long as a handle is used only by its creator, a coroutine suspended in a
\* request or a close is so because its callback is still to come, and that
\* callback resumes this very coroutine: the callbacks' lookup of handle->data
\* leaves nobody hanging.
THEOREM NobodyLeftBehind ==
  ASSUME Discipline # "any"
  PROVE  Spec => []NoOrphanAwait
<1>1. OrphanInv /\ [Next]_vars => OrphanInv'
  BY OrphanNext
<1>2. OrphanInv => NoOrphanAwait
  BY DEF OrphanInv
<1>3. QED
  BY OrphanInit, <1>1, <1>2, PTL DEF Spec

-----------------------------------------------------------------------------
(***************************************************************************)
(* Every step does what LooseAwait allows.                                 *)
(***************************************************************************)
LooseStep == [LoosePromise!Next]_(LoosePromise!vars)

LEMMA AwaitedFrame ==
  ASSUME \A c \in Coros : co[c] = "yielded" /\ wait[c].on # "read" =>
           co'[c] = "yielded" /\ wait'[c] = wait[c],
         \A c \in Coros : co'[c] = "yielded" =>
           (co[c] = "yielded" /\ wait'[c] = wait[c]) \/ wait'[c].on = "read"
  PROVE  \A c \in Coros : AwaitedOp(c)' = AwaitedOp(c)
BY DEF AwaitedOp

LEMMA OpsFrame ==
  ASSUME \A r \in Reqs : Outstanding(r)' <=> Outstanding(r),
         \A h \in Handles : hstate'[h] = "closing" <=> hstate[h] = "closing"
  PROVE  OutstandingOps' = OutstandingOps
BY DEF OutstandingOps

\* A resumed thread awaits no operation any more, or did not before.
LEMMA ResumeGoesOn ==
  ASSUME TypeOK, NEW l, NEW value \in BOOLEAN, NEW q \in [Handles -> Seq(Nat)],
         Resume(l, value, q)
  PROVE  \A c \in Coros : AwaitedOp(c)' = IF c = l THEN NoWait ELSE AwaitedOp(c)
<1>1. \A c \in Coros : c # l => AwaitedOp(c)' = AwaitedOp(c)
  BY ResumeEffect DEF AwaitedOp
<1>2. ASSUME l \in Coros PROVE AwaitedOp(l)' = NoWait
  <2>1. CASE Yielded(l) /\ wait[l].on # "read"
    <3>1. co'[l] = "running"
      BY <2>1, ResumeEffect
    <3>2. QED
      BY <3>1 DEF AwaitedOp
  <2>2. CASE ~(Yielded(l) /\ wait[l].on # "read")
    <3>1. co'[l] = "yielded" => co[l] = "yielded" /\ wait'[l] = wait[l]
      BY <1>2, ResumeEffect
    <3>2. QED
      BY <1>2, <2>2, <3>1 DEF AwaitedOp, Yielded
  <2>3. QED
    BY <2>1, <2>2
<1>3. QED
  BY <1>1, <1>2

LEMMA LooseStutter ==
  ASSUME \A c \in Coros : AwaitedOp(c)' = AwaitedOp(c), OutstandingOps' = OutstandingOps
  PROVE  LooseStep
BY DEF LooseStep, LoosePromise!vars

LEMMA LooseCall ==
  ASSUME TypeOK, NEW c \in Coros, NEW w \in AllOps, co[c] = "running", YieldIn(c, w),
         w \notin OutstandingOps, OutstandingOps' = OutstandingOps \cup {w}
  PROVE  LooseStep
<1>1. AwaitedOp(c) = NoWait /\ AwaitedOp(c)' = w
  BY YieldEffect DEF AwaitedOp, AllOps
<1>2. \A d \in Coros : d # c => AwaitedOp(d)' = AwaitedOp(d)
  BY YieldEffect DEF AwaitedOp
<1>3. LoosePromise!Call(c, w)
  BY <1>1, <1>2 DEF LoosePromise!Call
<1>4. QED
  BY <1>3 DEF LooseStep, LoosePromise!Next

\* The operation w is over, and thread l, which is a coroutine or Main, is resumed.
LEMMA LooseOver ==
  ASSUME NEW w \in AllOps, NEW l, w \in OutstandingOps, OutstandingOps' = OutstandingOps \ {w},
         \A c \in Coros : AwaitedOp(c)' = IF c = l THEN NoWait ELSE AwaitedOp(c),
         \A c \in Coros : AwaitedOp(c) = w => c = l
  PROVE  LooseStep
<1>1. CASE l \in Coros
  <2>1. LoosePromise!GoesOn(l)
    BY DEF LoosePromise!GoesOn
  <2>2. LoosePromise!Over(w)
    BY <1>1, <2>1 DEF LoosePromise!Over
  <2>3. QED
    BY <2>2 DEF LooseStep, LoosePromise!Next
<1>2. CASE l \notin Coros
  <2>1. \A c \in Coros : AwaitedOp(c)' = AwaitedOp(c) /\ AwaitedOp(c) # w
    BY <1>2
  <2>2. LoosePromise!Over(w)
    BY <2>1 DEF LoosePromise!Over
  <2>3. QED
    BY <2>2 DEF LooseStep, LoosePromise!Next
<1>3. QED
  BY <1>1, <1>2

\* Thread l is resumed, and no operation is over.
LEMMA LooseEarly ==
  ASSUME NEW l, OutstandingOps' = OutstandingOps,
         \A c \in Coros : AwaitedOp(c)' = IF c = l THEN NoWait ELSE AwaitedOp(c)
  PROVE  LooseStep
<1>1. CASE l \in Coros
  <2>1. LoosePromise!GoesOnEarly(l)
    BY DEF LoosePromise!GoesOnEarly, LoosePromise!GoesOn
  <2>2. QED
    BY <1>1, <2>1 DEF LooseStep, LoosePromise!Next
<1>2. CASE l \notin Coros
  BY <1>2, LooseStutter
<1>3. QED
  BY <1>1, <1>2

LEMMA LooseIssue ==
  ASSUME OrphanInv, NEW c \in Coros, NEW r \in Reqs, NEW kind \in ReqKinds, NEW h,
         co[c] = "running", req[r].st = "free", Issue(c, r, kind, h)
  PROVE  LooseStep
<1> DEFINE w == Suspended("req", r)
<1>1. TypeOK /\ YieldIn(c, w) /\ UNCHANGED hstate
  BY DEF OrphanInv, Issue
<1>2. ~Outstanding(r) /\ Outstanding(r)' /\ \A s \in Reqs : s # r => (Outstanding(s)' <=> Outstanding(s))
  BY <1>1 DEF Issue, TypeOK, Outstanding
<1>3. w \in AllOps /\ w \notin OutstandingOps /\ OutstandingOps' = OutstandingOps \cup {w}
  BY <1>1, <1>2 DEF OutstandingOps, Suspended, AllOps
<1>4. QED
  BY <1>1, <1>3, LooseCall

LEMMA LooseRefuse ==
  ASSUME OrphanInv, NEW r \in Reqs, NEW kind \in ReqKinds, Refuse(r, kind), req[r].st = "free"
  PROVE  LooseStep
<1>1. UNCHANGED <<co, wait, hstate>>
  BY DEF Refuse
<1>2. \A s \in Reqs : Outstanding(s)' <=> Outstanding(s)
  BY DEF Refuse, FreeBlock, OrphanInv, TypeOK, Outstanding
<1>3. QED
  BY <1>1, <1>2, OpsFrame, LooseStutter DEF AwaitedOp

\* The callback of block r resumes its target, the only one that may await it.
LEMMA LooseBlock ==
  ASSUME OrphanInv, NEW r \in Reqs, Outstanding(r),
         Resume(Target(r), TRUE, input) \/ Resume(Target(r), FALSE, input),
         UNCHANGED hstate, req' = [req EXCEPT ![r] = FreeBlock]
  PROVE  LooseStep
<1> DEFINE w == Suspended("req", r)
<1>1. TypeOK /\ input \in [Handles -> Seq(Nat)]
  BY DEF OrphanInv, TypeOK
<1>2. ~Outstanding(r)' /\ \A s \in Reqs : s # r => (Outstanding(s)' <=> Outstanding(s))
  BY <1>1 DEF TypeOK, Outstanding, FreeBlock
<1>3. w \in AllOps /\ w \in OutstandingOps /\ OutstandingOps' = OutstandingOps \ {w}
  BY <1>2 DEF OutstandingOps, Suspended, AllOps
<1>4. \A c \in Coros : AwaitedOp(c) = w => c = Target(r)
  BY DEF AwaitedOp, OrphanInv, NoOrphanAwait, NoWait, Suspended
<1>5. \A c \in Coros : AwaitedOp(c)' = IF c = Target(r) THEN NoWait ELSE AwaitedOp(c)
  BY <1>1, ResumeGoesOn
<1>6. QED
  BY <1>3, <1>4, <1>5, LooseOver

\* close_cb resumes the owner of the handle, the only one that may await the close.
LEMMA LooseCloseCb ==
  ASSUME OrphanInv, NEW h \in Handles, CloseCb(h)
  PROVE  LooseStep
<1> DEFINE w == Suspended("close", h)
<1>1. TypeOK /\ input \in [Handles -> Seq(Nat)]
  BY DEF OrphanInv, TypeOK
<1>2. /\ Resume(owner[h], FALSE, input) /\ UNCHANGED req
      /\ hstate[h] = "closing" /\ hstate' = [hstate EXCEPT ![h] = "closed"]
  BY DEF CloseCb, ResumeIfYielded
<1>3. hstate'[h] = "closed" /\ \A g \in Handles : g # h => hstate'[g] = hstate[g]
  BY <1>1, <1>2 DEF TypeOK
<1>4. w \in AllOps /\ w \in OutstandingOps /\ OutstandingOps' = OutstandingOps \ {w}
  BY <1>2, <1>3 DEF OutstandingOps, Suspended, Outstanding, AllOps
<1>5. \A c \in Coros : AwaitedOp(c) = w => c = owner[h]
  BY DEF AwaitedOp, OrphanInv, NoOrphanAwait, NoWait, Suspended
<1>6. \A c \in Coros : AwaitedOp(c)' = IF c = owner[h] THEN NoWait ELSE AwaitedOp(c)
  BY <1>1, <1>2, ResumeGoesOn
<1>7. QED
  BY <1>4, <1>5, <1>6, LooseOver

LEMMA LooseClose ==
  ASSUME OrphanInv, NEW h \in Handles, StartClose(h),
         \/ UNCHANGED <<co, wait>>
         \/ \E c \in Coros : co[c] = "running" /\ YieldIn(c, Suspended("close", h))
  PROVE  LooseStep
<1> DEFINE w == Suspended("close", h)
<1>1. TypeOK /\ UNCHANGED req
  BY DEF OrphanInv, StartClose
<1>2. hstate[h] = "open" /\ hstate'[h] = "closing" /\ \A g \in Handles : g # h => hstate'[g] = hstate[g]
  BY <1>1 DEF StartClose, TypeOK
<1>3. w \in AllOps /\ w \notin OutstandingOps /\ OutstandingOps' = OutstandingOps \cup {w}
  BY <1>1, <1>2 DEF OutstandingOps, Suspended, Outstanding, AllOps
<1>4. CASE UNCHANGED <<co, wait>>
  <2>1. LoosePromise!Post(w)
    BY <1>3, <1>4 DEF LoosePromise!Post, AwaitedOp
  <2>2. QED
    BY <1>3, <2>1 DEF LooseStep, LoosePromise!Next
<1>5. CASE \E c \in Coros : co[c] = "running" /\ YieldIn(c, w)
  BY <1>1, <1>3, <1>5, LooseCall
<1>6. QED
  BY <1>4, <1>5

LEMMA LooseNext ==
  ASSUME OrphanInv, [Next]_vars
  PROVE  LooseStep
<1> USE ActorsAssumption
<1>1. TypeOK /\ input \in [Handles -> Seq(Nat)]
  BY DEF OrphanInv, TypeOK
<1>2. CASE UNCHANGED <<co, wait, req>> /\ \A h \in Handles : hstate'[h] = "closing" <=> hstate[h] = "closing"
  BY <1>2, OpsFrame, LooseStutter DEF AwaitedOp, Outstanding
<1>3. CASE Next
  <2>1. CASE \E c \in Coros : Start(c) \/ Finish(c)
    <3>1. UNCHANGED <<wait, hstate, req>> /\ \A c \in Coros : co'[c] = "yielded" <=> co[c] = "yielded"
      BY <1>1, <2>1 DEF Start, Finish, TypeOK
    <3>2. QED
      BY <3>1, OpsFrame, LooseStutter DEF AwaitedOp, Outstanding
  <2>2. CASE \E c \in Coros, h \in Handles :
               NewHandle(c, h) \/ NewHandleFails(c, h) \/ TakeInput(c, h) \/ Close(c, h)
    <3>1. PICK c \in Coros, h \in Handles :
            NewHandle(c, h) \/ NewHandleFails(c, h) \/ TakeInput(c, h) \/ Close(c, h)
      BY <2>2
    <3>2. CASE NewHandle(c, h) \/ NewHandleFails(c, h)
      BY <1>1, <1>2, <3>2 DEF NewHandle, InitHandle, NewHandleFails, TypeOK
    <3>3. CASE TakeInput(c, h)
      <4>1. UNCHANGED <<hstate, req>> /\ co[c] = "running"
        BY <3>3 DEF TakeInput
      <4>2. UNCHANGED <<co, wait>> \/ YieldIn(c, Suspended("read", h))
        BY <3>3 DEF TakeInput
      <4>3. ASSUME YieldIn(c, Suspended("read", h)) PROVE \A d \in Coros : AwaitedOp(d)' = AwaitedOp(d)
        BY <1>1, <4>1, <4>3, YieldEffect DEF AwaitedOp, Suspended
      <4>4. QED
        BY <1>2, <4>1, <4>2, <4>3, OpsFrame, LooseStutter DEF Outstanding
    <3>4. CASE Close(c, h)
      BY <3>4, LooseClose DEF Close
    <3>5. QED
      BY <3>1, <3>2, <3>3, <3>4
  <2>3. CASE \E l \in Actors, h \in Handles :
               TtyNew(l, h) \/ TcpOpen(l, h) \/ Listen(l, h)
                 \/ \E on \in BOOLEAN : SetReading(l, h, on)
    BY <1>1, <1>2, <2>3 DEF TtyNew, InitHandle, TcpOpen, Listen, SetReading, TypeOK
  <2>4. CASE \E h \in Handles : MainClose(h) \/ Deliver(h) \/ CloseCb(h)
    <3>1. PICK h \in Handles : MainClose(h) \/ Deliver(h) \/ CloseCb(h)
      BY <2>4
    <3>2. CASE MainClose(h)
      BY <3>2, LooseClose DEF MainClose
    <3>3. CASE Deliver(h)
      <4> DEFINE q == [input EXCEPT ![h] = Append(@, recvd[h] + 1)]
      <4>1. q \in [Handles -> Seq(Nat)]
        BY <1>1 DEF TypeOK
      <4>2. Resume(owner[h], FALSE, q) /\ UNCHANGED <<hstate, req>>
        BY <3>3 DEF Deliver, ResumeIfYielded
      <4>3. OutstandingOps' = OutstandingOps
        BY <4>2, OpsFrame DEF Outstanding
      <4>4. QED
        BY <1>1, <4>1, <4>2, <4>3, ResumeGoesOn, LooseEarly
    <3>4. QED
      BY <3>1, <3>2, <3>3, LooseCloseCb
  <2>5. CASE RequestSteps
    <3>1. PICK c \in Coros, h \in Handles, r \in Reqs :
            (\E kind \in HandleReqKinds : Request(c, h, r, kind)) \/ PipeConnect(c, h, r)
      BY <2>5 DEF RequestSteps
    <3>2. co[c] = "running" /\ req[r].st = "free"
      BY <3>1 DEF Request, PipeConnect, MayIssue
    <3>3. \A kind \in HandleReqKinds : Issue(c, r, kind, h) \/ Refuse(r, kind) => LooseStep
      BY <3>2, LooseIssue, LooseRefuse DEF ReqKinds
    <3>4. QED
      BY <3>1, <3>3 DEF Request, PipeConnect, HandleReqKinds
  <2>6. CASE \E c \in Coros, r \in Reqs : Getaddrinfo(c, r) \/ Sleep(c, r)
    <3>1. PICK c \in Coros, r \in Reqs : Getaddrinfo(c, r) \/ Sleep(c, r)
      BY <2>6
    <3>2. \/ \E kind \in ReqKinds : Issue(c, r, kind, Nil) \/ Refuse(r, kind)
          \/ UNCHANGED <<co, wait, hstate, req>>
      BY <3>1 DEF Getaddrinfo, Sleep, ReqKinds
    <3>3. co[c] = "running" /\ req[r].st = "free"
      BY <3>1 DEF Getaddrinfo, Sleep
    <3>4. QED
      BY <1>2, <3>2, <3>3, LooseIssue, LooseRefuse
  <2>7. CASE BlockCb
    <3>1. PICK r \in Reqs : \/ \E kind \in HandleReqKinds : HandleReqCb(r, kind)
                            \/ GetaddrinfoCb(r) \/ SleepCb(r) \/ SleepCloseCb(r)
      BY <2>7 DEF BlockCb
    <3>2. CASE SleepCb(r)
      <4>1. UNCHANGED <<co, wait, hstate>> /\ \A s \in Reqs : Outstanding(s)' <=> Outstanding(s)
        BY <1>1, <3>2 DEF SleepCb, TypeOK, Outstanding, Blocks
      <4>2. QED
        BY <4>1, OpsFrame, LooseStutter DEF AwaitedOp
    <3>3. CASE ~SleepCb(r)
      <4>1. Outstanding(r) /\ UNCHANGED hstate /\ req' = [req EXCEPT ![r] = FreeBlock]
        BY <3>1, <3>3 DEF HandleReqCb, GetaddrinfoCb, SleepCloseCb, Outstanding
      <4>2. Resume(Target(r), TRUE, input) \/ Resume(Target(r), FALSE, input)
        BY <3>1, <3>3, TargetResumed
      <4>3. QED
        BY <4>1, <4>2, LooseBlock
    <3>4. QED
      BY <3>2, <3>3
  <2>8. QED
    BY <1>3, StepCases, <2>1, <2>2, <2>3, <2>4, <2>5, <2>6, <2>7
<1>4. QED
  BY <1>2, <1>3 DEF vars

\* As long as coroutines use their own handles only, CouvIo implements LooseAwait:
\* input and late completions may wake a coroutine early, but the callback that it
\* still waits for wakes it, in the very step in which the operation is over.
THEOREM CouvIoImplementsLooseAwait ==
  ASSUME Discipline # "any"
  PROVE  Spec => KeepsLoosePromise
<1>1. OrphanInv /\ [Next]_vars => OrphanInv'
  BY OrphanNext
<1>2. Init => LoosePromise!Init
  BY DEF Init, LoosePromise!Init, AwaitedOp, OutstandingOps, Outstanding, FreeBlock
<1>3. OrphanInv /\ [Next]_vars => [LoosePromise!Next]_(LoosePromise!vars)
  BY LooseNext DEF LooseStep
<1>4. QED
  BY OrphanInit, <1>1, <1>2, <1>3, PTL DEF Spec, KeepsLoosePromise, LoosePromise!Spec

-----------------------------------------------------------------------------
(***************************************************************************)
(* The registry.  Every step is described by what it does to the slots of  *)
(* the handles (thread and slots), to their life cycle, and to the blocks. *)
(***************************************************************************)
Live(h) == hstate[h] \in {"open", "closing"}

\* Only what can listen has a listen slot, and a clean-up that empties it.
ListenSlots == \A h \in Handles : <<"listen", h>> \in slots => Type[h] \in StreamTypes

ReleasedInv == TypeOK /\ ListenSlots /\ RegistryReleased

\* Slots are filled for handles that are not closed, and the thread slots of the
\* closed ones stay as they are.
LEMMA ReleasedFrame ==
  ASSUME ReleasedInv,
         \A h \in Handles : hstate'[h] = "closed" =>
           /\ hstate[h] = "closed"
           /\ thread'[h] = thread[h]
           /\ <<"user", h>> \in slots' => <<"user", h>> \in slots
           /\ <<"listen", h>> \in slots' => <<"listen", h>> \in slots,
         \A h \in Handles : <<"listen", h>> \in slots' /\ <<"listen", h>> \notin slots => Type[h] \in StreamTypes
  PROVE  ListenSlots' /\ RegistryReleased'
BY DEF ReleasedInv, ListenSlots, RegistryReleased

LEMMA ReleasedNext == ReleasedInv /\ [Next]_vars => ReleasedInv'
<1> SUFFICES ASSUME ReleasedInv, [Next]_vars PROVE ListenSlots' /\ RegistryReleased'
  BY TypeNext DEF ReleasedInv
<1> USE ActorsAssumption, ParametersAssumption
<1>1. TypeOK
  BY DEF ReleasedInv
<1>2. CASE UNCHANGED <<hstate, thread, slots>>
  BY <1>2, ReleasedFrame
<1>3. CASE Next
  <2>1. CASE \E c \in Coros : Start(c) \/ Finish(c)
    BY <2>1, <1>2 DEF Start, Finish
  <2>2. CASE \E c \in Coros, h \in Handles :
               NewHandle(c, h) \/ NewHandleFails(c, h) \/ TakeInput(c, h) \/ Close(c, h)
    <3>1. PICK c \in Coros, h \in Handles :
            NewHandle(c, h) \/ NewHandleFails(c, h) \/ TakeInput(c, h) \/ Close(c, h)
      BY <2>2
    <3>2. CASE NewHandle(c, h)
      BY <1>1, <3>2, ReleasedFrame DEF NewHandle, InitHandle, TypeOK
    <3>3. CASE NewHandleFails(c, h)
      BY <1>1, <3>3, ReleasedFrame DEF NewHandleFails, TypeOK
    <3>4. CASE TakeInput(c, h)
      BY <3>4, <1>2 DEF TakeInput
    <3>5. CASE Close(c, h)
      BY <1>1, <3>5, ReleasedFrame DEF Close, StartClose, TypeOK
    <3>6. QED
      BY <3>1, <3>2, <3>3, <3>4, <3>5
  <2>3. CASE \E l \in Actors, h \in Handles :
               TtyNew(l, h) \/ TcpOpen(l, h) \/ Listen(l, h)
                 \/ \E on \in BOOLEAN : SetReading(l, h, on)
    <3>1. PICK l \in Actors, h \in Handles :
            TtyNew(l, h) \/ TcpOpen(l, h) \/ Listen(l, h) \/ \E on \in BOOLEAN : SetReading(l, h, on)
      BY <2>3
    <3>2. CASE TtyNew(l, h)
      BY <1>1, <3>2, ReleasedFrame DEF TtyNew, InitHandle, TypeOK
    <3>3. CASE Listen(l, h)
      BY <1>1, <3>3, ReleasedFrame DEF Listen, TypeOK
    <3>4. CASE TcpOpen(l, h) \/ \E on \in BOOLEAN : SetReading(l, h, on)
      BY <3>4, <1>2 DEF TcpOpen, SetReading
    <3>5. QED
      BY <3>1, <3>2, <3>3, <3>4
  <2>4. CASE \E h \in Handles : MainClose(h) \/ Deliver(h) \/ CloseCb(h)
    <3>1. PICK h \in Handles : MainClose(h) \/ Deliver(h) \/ CloseCb(h)
      BY <2>4
    <3>2. CASE MainClose(h)
      BY <1>1, <3>2, ReleasedFrame DEF MainClose, StartClose, TypeOK
    <3>3. CASE Deliver(h)
      BY <3>3, <1>2 DEF Deliver
    <3>4. CASE CloseCb(h)
      <4>1. /\ hstate' = [hstate EXCEPT ![h] = "closed"]
            /\ slots' = CASE Type[h] = "tcp" -> CleanTcp(h)
                          [] Type[h] = "udp" -> CleanUdp(h)
                          [] Type[h] = "tty" -> CleanTty(h)
                          [] OTHER -> slots
            /\ thread' = IF Type[h] = "pipe" THEN thread ELSE [thread EXCEPT ![h] = Nil]
        BY <3>4 DEF CloseCb
      <4>2. slots' \subseteq slots
        BY <4>1 DEF CleanTcp, CleanUdp, CleanTty
      <4>3. Type[h] # "pipe" => <<"user", h>> \notin slots' /\ <<"listen", h>> \notin slots'
        BY <4>1 DEF CleanTcp, CleanUdp, CleanTty, ReleasedInv, ListenSlots, StreamTypes, HandleTypes
      <4>4. Type[h] # "pipe" => thread'[h] = Nil
        BY <1>1, <4>1 DEF TypeOK
      <4>5. \A g \in Handles : g # h => hstate'[g] = hstate[g] /\ thread'[g] = thread[g]
        BY <1>1, <4>1 DEF TypeOK
      <4>6. RegistryReleased'
        BY <4>2, <4>3, <4>4, <4>5 DEF ReleasedInv, RegistryReleased
      <4>7. ListenSlots'
        BY <4>2 DEF ReleasedInv, ListenSlots
      <4>8. QED
        BY <4>6, <4>7
    <3>5. QED
      BY <3>1, <3>2, <3>3, <3>4
  <2>5. CASE RequestSteps
    BY <2>5, <1>2 DEF RequestSteps, Request, PipeConnect, Issue, Refuse
  <2>6. CASE \E c \in Coros, r \in Reqs : Getaddrinfo(c, r) \/ Sleep(c, r)
    <3>1. UNCHANGED <<hstate, slots>> /\ \A h \in Handles : thread'[h] = thread[h]
      BY <1>1, <2>6 DEF Getaddrinfo, Sleep, Issue, Refuse, TypeOK
    <3>2. QED
      BY <3>1, ReleasedFrame
  <2>7. CASE BlockCb
    <3>1. UNCHANGED <<hstate, slots>> /\ \A h \in Handles : thread'[h] = thread[h]
      BY <1>1, <2>7 DEF BlockCb, HandleReqCb, GetaddrinfoCb, SleepCb, SleepCloseCb, TypeOK
    <3>2. QED
      BY <3>1, ReleasedFrame
  <2>8. QED
    BY <1>3, StepCases, <2>1, <2>2, <2>3, <2>4, <2>5, <2>6, <2>7
<1>4. QED
  BY <1>2, <1>3 DEF vars

\* In every program, and in whatever order handles are opened, listened on and
\* closed, a closed handle that is no pipe has left the registry.
THEOREM ClosedIsReleased == Spec => []RegistryReleased
<1>1. Init => ReleasedInv
  BY TypeInit DEF Init, ReleasedInv, ListenSlots, RegistryReleased
<1>2. ReleasedInv => RegistryReleased
  BY DEF ReleasedInv
<1>3. QED
  BY ReleasedNext, <1>1, <1>2, PTL DEF Spec

-----------------------------------------------------------------------------
(***************************************************************************)
(* What callbacks use is anchored.  The slot of a handle holds its owner,  *)
(* the slot of a request that is on no handle its caller; a request on a   *)
(* handle is over before that handle is closed.  All this holds in every   *)
(* program but for the slot of a handle that tcp_open has handed over: it  *)
(* holds the creator, who had been the owner until then.                   *)
(***************************************************************************)
BlocksInv == TypeOK /\ BlocksWellFormed

HandlesAnchored ==
  \A h \in Handles :
    /\ hstate[h] = "none" => opened[h] = Nil
    /\ Live(h) =>
         /\ <<"user", h>> \in slots
         /\ IF opened[h] = Nil
              THEN /\ owner[h] \in Coros => thread[h] = owner[h]
                   /\ Type[h] = "tcp" => owner[h] \in Coros
              ELSE Type[h] = "tcp" /\ Discipline = "any" /\ thread[h] = opened[h]

BlocksAnchored ==
  \A r \in Reqs : Outstanding(r) =>
    IF req[r].kind \in HandleReqKinds THEN Live(req[r].on) ELSE thread[r] = req[r].by

AnchorInv == BlocksInv /\ HandlesAnchored /\ BlocksAnchored

\* A block is handed to libuv with its caller, and on a handle that exists if it
\* is for one.
LEMMA IssueBlocks ==
  ASSUME BlocksInv, NEW c \in Coros, NEW r \in Reqs, NEW kind \in ReqKinds,
         NEW h \in Handles \cup {Nil}, Issue(c, r, kind, h),
         kind \in HandleReqKinds => h \in Handles /\ hstate[h] # "none"
  PROVE  BlocksWellFormed'
<1>1. /\ req'[r] = [kind |-> kind, on |-> h, by |-> c, st |-> "pending"]
      /\ \A s \in Reqs : s # r => req'[s] = req[s]
      /\ UNCHANGED hstate
  BY DEF Issue, BlocksInv, TypeOK
<1>2. QED
  BY <1>1 DEF BlocksInv, BlocksWellFormed, Outstanding

\* In every program the blocks that libuv holds are what their callbacks expect.
LEMMA BlocksNext == BlocksInv /\ [Next]_vars => BlocksInv'
<1> SUFFICES ASSUME BlocksInv, [Next]_vars PROVE BlocksWellFormed'
  BY TypeNext DEF BlocksInv
<1>1. TypeOK /\ BlocksWellFormed
  BY DEF BlocksInv
<1>2. CASE UNCHANGED <<hstate, req>>
  BY <1>1, <1>2, BlocksFrame
<1>3. CASE Next
  <2>1. CASE \E c \in Coros : Start(c) \/ Finish(c)
    BY <1>2, <2>1 DEF Start, Finish
  <2>2. CASE \E c \in Coros, h \in Handles :
               NewHandle(c, h) \/ NewHandleFails(c, h) \/ TakeInput(c, h) \/ Close(c, h)
    <3>1. UNCHANGED req /\ \A g \in Handles : hstate[g] # "none" => hstate'[g] # "none"
      BY <1>1, <2>2 DEF NewHandle, InitHandle, NewHandleFails, TakeInput, Close, StartClose, TypeOK
    <3>2. QED
      BY <1>1, <3>1, BlocksFrame
  <2>3. CASE \E l \in Actors, h \in Handles :
               TtyNew(l, h) \/ TcpOpen(l, h) \/ Listen(l, h)
                 \/ \E on \in BOOLEAN : SetReading(l, h, on)
    <3>1. UNCHANGED req /\ \A g \in Handles : hstate[g] # "none" => hstate'[g] # "none"
      BY <1>1, <2>3 DEF TtyNew, InitHandle, TcpOpen, Listen, SetReading, TypeOK
    <3>2. QED
      BY <1>1, <3>1, BlocksFrame
  <2>4. CASE \E h \in Handles : MainClose(h) \/ Deliver(h) \/ CloseCb(h)
    <3>1. UNCHANGED req /\ \A g \in Handles : hstate[g] # "none" => hstate'[g] # "none"
      BY <1>1, <2>4 DEF MainClose, StartClose, Deliver, CloseCb, TypeOK
    <3>2. QED
      BY <1>1, <3>1, BlocksFrame
  <2>5. CASE RequestSteps
    <3>1. PICK c \in Coros, h \in Handles, r \in Reqs :
            (\E kind \in HandleReqKinds : Request(c, h, r, kind)) \/ PipeConnect(c, h, r)
      BY <2>5 DEF RequestSteps
    <3>2. hstate[h] # "none"
      BY <3>1 DEF Request, PipeConnect, MayIssue
    <3>3. \A kind \in HandleReqKinds : Issue(c, r, kind, h) => BlocksWellFormed'
      BY <3>2, IssueBlocks DEF ReqKinds
    <3>4. \A kind \in HandleReqKinds : Refuse(r, kind) => BlocksWellFormed'
      BY <1>1 DEF Refuse, FreeBlock, TypeOK, BlocksWellFormed, Outstanding
    <3>5. QED
      BY <3>1, <3>3, <3>4 DEF Request, PipeConnect, HandleReqKinds
  <2>6. CASE \E c \in Coros, r \in Reqs : Getaddrinfo(c, r) \/ Sleep(c, r)
    <3>1. PICK c \in Coros, r \in Reqs : Getaddrinfo(c, r) \/ Sleep(c, r)
      BY <2>6
    <3>2. CASE Issue(c, r, "getaddrinfo", Nil) \/ Issue(c, r, "sleep", Nil)
      BY <3>2, IssueBlocks DEF ReqKinds, HandleReqKinds
    <3>3. CASE UNCHANGED <<hstate, req>>
      BY <1>2, <3>3
    <3>4. CASE Refuse(r, "sleep")
      BY <1>1, <3>4 DEF Refuse, FreeBlock, TypeOK, BlocksWellFormed, Outstanding
    <3>5. QED
      BY <3>1, <3>2, <3>3, <3>4 DEF Getaddrinfo, Sleep
  <2>7. CASE BlockCb
    <3>1. PICK r \in Reqs : \/ \E kind \in HandleReqKinds : HandleReqCb(r, kind)
                            \/ GetaddrinfoCb(r) \/ SleepCb(r) \/ SleepCloseCb(r)
      BY <2>7 DEF BlockCb
    <3>2. CASE SleepCb(r)
      <4>1. /\ UNCHANGED hstate /\ Outstanding(r) /\ req[r].kind = "sleep" /\ req[r] \in Blocks
            /\ req' = [req EXCEPT ![r].st = "closing"]
        BY <1>1, <3>2 DEF SleepCb, Outstanding, TypeOK
      <4>2. /\ req'[r].kind = "sleep" /\ req'[r].st = "closing" /\ req'[r].by = req[r].by
            /\ \A s \in Reqs : s # r => req'[s] = req[s]
        BY <1>1, <4>1 DEF TypeOK, Blocks
      <4>3. QED
        BY <1>1, <4>1, <4>2 DEF BlocksWellFormed, Outstanding, HandleReqKinds
    <3>3. CASE ~SleepCb(r)
      <4>1. UNCHANGED hstate /\ req' = [req EXCEPT ![r] = FreeBlock]
        BY <3>1, <3>3 DEF HandleReqCb, GetaddrinfoCb, SleepCloseCb
      <4>2. QED
        BY <1>1, <4>1 DEF BlocksWellFormed, Outstanding, FreeBlock, TypeOK
    <3>4. QED
      BY <3>2, <3>3
  <2>8. QED
    BY <1>3, StepCases, <2>1, <2>2, <2>3, <2>4, <2>5, <2>6, <2>7
<1>4. QED
  BY <1>2, <1>3 DEF vars

\* Handles stay live with what anchors them, or no request is on them any more;
\* the blocks that stay outstanding are what they were.
LEMMA AnchorFrame ==
  ASSUME AnchorInv, UNCHANGED opened,
         \A h \in Handles : hstate'[h] = "none" => hstate[h] = "none",
         \A h \in Handles : Live(h)' =>
           /\ Live(h) /\ owner'[h] = owner[h] /\ thread'[h] = thread[h]
           /\ <<"user", h>> \in slots => <<"user", h>> \in slots',
         \A r \in Reqs : Outstanding(r)' =>
           /\ Outstanding(r) /\ thread'[r] = thread[r]
           /\ req'[r].kind = req[r].kind /\ req'[r].on = req[r].on /\ req'[r].by = req[r].by
           /\ req[r].kind \in HandleReqKinds => Live(req[r].on)'
  PROVE  HandlesAnchored' /\ BlocksAnchored'
BY DEF AnchorInv, HandlesAnchored, BlocksAnchored

\* The blocks stay, and so do the handles they are on.
LEMMA SameBlocks ==
  ASSUME AnchorInv, UNCHANGED req, \A r \in Reqs : thread'[r] = thread[r],
         \A h \in Handles : Live(h) => Live(h)'
  PROVE  \A r \in Reqs : Outstanding(r)' =>
           /\ Outstanding(r) /\ thread'[r] = thread[r]
           /\ req'[r].kind = req[r].kind /\ req'[r].on = req[r].on /\ req'[r].by = req[r].by
           /\ req[r].kind \in HandleReqKinds => Live(req[r].on)'
BY DEF AnchorInv, BlocksAnchored, BlocksInv, BlocksWellFormed, Outstanding

\* A handle is created, and its owner anchored unless that is the main thread,
\* which creates no tcp handle.
LEMMA InitAnchored ==
  ASSUME AnchorInv, NEW l \in Actors, NEW h \in Handles, hstate[h] = "none", InitHandle(l, h),
         l \in Coros \/ Type[h] # "tcp",
         thread' = IF l \in Coros THEN [thread EXCEPT ![h] = l] ELSE thread
  PROVE  HandlesAnchored' /\ BlocksAnchored'
<1> USE ActorsAssumption
<1>1. TypeOK
  BY DEF AnchorInv, BlocksInv
<1>2. /\ hstate'[h] = "open" /\ owner'[h] = l /\ <<"user", h>> \in slots'
      /\ slots \subseteq slots' /\ UNCHANGED <<req, opened>>
      /\ \A g \in Handles : g # h => hstate'[g] = hstate[g] /\ owner'[g] = owner[g]
  BY <1>1 DEF InitHandle, TypeOK
<1>3. /\ l \in Coros => thread'[h] = l
      /\ \A k \in Handles \cup Reqs : k # h => thread'[k] = thread[k]
  BY <1>1 DEF TypeOK
<1>4. HandlesAnchored'
  BY <1>2, <1>3 DEF AnchorInv, HandlesAnchored, Live
<1>5. BlocksAnchored'
  <2>1. \A r \in Reqs : thread'[r] = thread[r]
    BY <1>3
  <2>2. \A g \in Handles : Live(g) => Live(g)'
    BY <1>2 DEF Live
  <2>3. QED
    BY <1>2, <2>1, <2>2, SameBlocks DEF AnchorInv, BlocksAnchored
<1>6. QED
  BY <1>4, <1>5

\* A block is handed to libuv, on an open handle or with its caller in its slot.
LEMMA IssueAnchored ==
  ASSUME AnchorInv, NEW c \in Coros, NEW r \in Reqs, NEW kind \in ReqKinds,
         NEW h \in Handles \cup {Nil}, Issue(c, r, kind, h),
         kind \in HandleReqKinds => h \in Handles /\ hstate[h] = "open",
         \A k \in Handles \cup Reqs : k # r => thread'[k] = thread[k],
         kind \notin HandleReqKinds => thread'[r] = c
  PROVE  HandlesAnchored' /\ BlocksAnchored'
<1> USE ActorsAssumption
<1>1. TypeOK /\ UNCHANGED <<hstate, owner, opened, slots>>
  BY DEF AnchorInv, BlocksInv, Issue
<1>2. /\ req'[r] = [kind |-> kind, on |-> h, by |-> c, st |-> "pending"]
      /\ \A s \in Reqs : s # r => req'[s] = req[s]
  BY <1>1 DEF Issue, TypeOK
<1>3. HandlesAnchored'
  BY <1>1 DEF AnchorInv, HandlesAnchored, Live
<1>4. BlocksAnchored'
  <2> SUFFICES ASSUME NEW s \in Reqs, Outstanding(s)'
               PROVE  (IF req[s].kind \in HandleReqKinds THEN Live(req[s].on) ELSE thread[s] = req[s].by)'
    BY DEF BlocksAnchored
  <2>1. CASE s = r
    BY <1>1, <1>2, <2>1 DEF Live
  <2>2. CASE s # r
    BY <1>1, <1>2, <2>2 DEF AnchorInv, BlocksAnchored, Outstanding, Live
  <2>3. QED
    BY <2>1, <2>2
<1>5. QED
  BY <1>3, <1>4

\* A block that libuv refuses is not outstanding.
LEMMA RefuseAnchored ==
  ASSUME AnchorInv, NEW r \in Reqs, NEW kind \in ReqKinds, Refuse(r, kind),
         \A k \in Handles \cup Reqs : k # r => thread'[k] = thread[k]
  PROVE  HandlesAnchored' /\ BlocksAnchored'
<1> USE ActorsAssumption
<1>1. /\ UNCHANGED <<hstate, owner, opened, slots>> /\ req'[r].st = "leaked"
      /\ \A s \in Reqs : s # r => req'[s] = req[s]
  BY DEF Refuse, AnchorInv, BlocksInv, TypeOK, FreeBlock
<1>2. QED
  BY <1>1 DEF AnchorInv, HandlesAnchored, BlocksAnchored, Outstanding, Live

\* tcp_open: the slot of the handle still holds its creator.
LEMMA OpenAnchored ==
  ASSUME AnchorInv, NEW l \in Actors, NEW h \in Handles, TcpOpen(l, h)
  PROVE  HandlesAnchored' /\ BlocksAnchored'
<1> USE ActorsAssumption
<1>1. /\ UNCHANGED <<hstate, thread, slots, req>> /\ Type[h] = "tcp" /\ Live(h)
      /\ \A g \in Handles : g # h => owner'[g] = owner[g] /\ opened'[g] = opened[g]
  BY DEF TcpOpen, AnchorInv, BlocksInv, TypeOK, Live
<1>2. CASE l = owner[h] \/ opened[h] # Nil
  <2>1. opened'[h] = opened[h] /\ (opened[h] = Nil => owner'[h] = owner[h])
    BY <1>2 DEF TcpOpen, AnchorInv, BlocksInv, TypeOK
  <2>2. HandlesAnchored'
    BY <1>1, <2>1 DEF AnchorInv, HandlesAnchored, Live
  <2>3. QED
    BY <1>1, <2>2 DEF AnchorInv, BlocksAnchored, Outstanding, Live
<1>3. CASE l # owner[h] /\ opened[h] = Nil
  <2>1. opened'[h] = owner[h] /\ Discipline = "any"
    BY <1>3, ParametersAssumption DEF TcpOpen, MayUse, AnchorInv, BlocksInv, TypeOK
  <2>2. owner[h] \in Coros /\ thread[h] = owner[h]
    BY <1>1, <1>3 DEF AnchorInv, HandlesAnchored
  <2>3. HandlesAnchored'
    BY <1>1, <2>1, <2>2 DEF AnchorInv, HandlesAnchored, Live
  <2>4. QED
    BY <1>1, <2>3 DEF AnchorInv, BlocksAnchored, Outstanding, Live
<1>4. QED
  BY <1>2, <1>3

LEMMA AnchorNext == AnchorInv /\ [Next]_vars => AnchorInv'
<1> SUFFICES ASSUME AnchorInv, [Next]_vars PROVE HandlesAnchored' /\ BlocksAnchored'
  BY BlocksNext DEF AnchorInv
<1> USE ActorsAssumption
<1>1. TypeOK
  BY DEF AnchorInv, BlocksInv
<1>2. CASE UNCHANGED <<hstate, owner, opened, thread, slots, req>>
  BY <1>2, AnchorFrame, SameBlocks DEF Live
<1>3. CASE Next
  <2>1. CASE \E c \in Coros : Start(c) \/ Finish(c)
    BY <2>1, <1>2 DEF Start, Finish
  <2>2. CASE \E c \in Coros, h \in Handles :
               NewHandle(c, h) \/ NewHandleFails(c, h) \/ TakeInput(c, h) \/ Close(c, h)
    <3>1. PICK c \in Coros, h \in Handles :
            NewHandle(c, h) \/ NewHandleFails(c, h) \/ TakeInput(c, h) \/ Close(c, h)
      BY <2>2
    <3>2. CASE NewHandle(c, h)
      BY <3>2, InitAnchored DEF NewHandle, Actors
    <3>3. CASE NewHandleFails(c, h)
      <4>1. /\ hstate[h] = "none" /\ UNCHANGED <<hstate, owner, opened, slots, req>>
            /\ \A k \in Handles \cup Reqs : k # h => thread'[k] = thread[k]
        BY <1>1, <3>3 DEF NewHandleFails, TypeOK
      <4>2. QED
        BY <4>1, AnchorFrame, SameBlocks DEF Live
    <3>4. CASE TakeInput(c, h)
      BY <3>4, <1>2 DEF TakeInput
    <3>5. CASE Close(c, h)
      <4>1. /\ UNCHANGED <<owner, opened, thread, slots, req>>
            /\ \A g \in Handles : (Live(g) <=> Live(g)') /\ (hstate'[g] = "none" => hstate[g] = "none")
        BY <1>1, <3>5 DEF Close, StartClose, TypeOK, Live
      <4>2. QED
        BY <4>1, AnchorFrame, SameBlocks
    <3>6. QED
      BY <3>1, <3>2, <3>3, <3>4, <3>5
  <2>3. CASE \E l \in Actors, h \in Handles :
               TtyNew(l, h) \/ TcpOpen(l, h) \/ Listen(l, h)
                 \/ \E on \in BOOLEAN : SetReading(l, h, on)
    <3>1. PICK l \in Actors, h \in Handles :
            TtyNew(l, h) \/ TcpOpen(l, h) \/ Listen(l, h) \/ \E on \in BOOLEAN : SetReading(l, h, on)
      BY <2>3
    <3>2. CASE TtyNew(l, h)
      BY <3>1, <3>2, InitAnchored DEF TtyNew, Actors
    <3>3. CASE TcpOpen(l, h)
      BY <3>3, OpenAnchored
    <3>4. CASE Listen(l, h)
      BY <3>4, AnchorFrame, SameBlocks DEF Listen, Live
    <3>5. CASE \E on \in BOOLEAN : SetReading(l, h, on)
      BY <3>5, <1>2 DEF SetReading
    <3>6. QED
      BY <3>1, <3>2, <3>3, <3>4, <3>5
  <2>4. CASE \E h \in Handles : MainClose(h) \/ Deliver(h) \/ CloseCb(h)
    <3>1. PICK h \in Handles : MainClose(h) \/ Deliver(h) \/ CloseCb(h)
      BY <2>4
    <3>2. CASE MainClose(h)
      <4>1. /\ UNCHANGED <<owner, opened, thread, slots, req>>
            /\ \A g \in Handles : (Live(g) <=> Live(g)') /\ (hstate'[g] = "none" => hstate[g] = "none")
        BY <1>1, <3>2 DEF MainClose, StartClose, TypeOK, Live
      <4>2. QED
        BY <4>1, AnchorFrame, SameBlocks
    <3>3. CASE Deliver(h)
      BY <3>3, <1>2 DEF Deliver
    <3>4. CASE CloseCb(h)
      <4>1. /\ UNCHANGED <<owner, opened, req>> /\ Pending(h) = {}
            /\ hstate' = [hstate EXCEPT ![h] = "closed"]
            /\ thread' = IF Type[h] = "pipe" THEN thread ELSE [thread EXCEPT ![h] = Nil]
        BY <3>4 DEF CloseCb
      <4>2. \A g \in Handles : g # h /\ <<"user", g>> \in slots => <<"user", g>> \in slots'
        BY <3>4 DEF CloseCb, CleanTcp, CleanUdp, CleanTty
      <4>3. /\ ~Live(h)'
            /\ \A g \in Handles : g # h => (Live(g) <=> Live(g)')
            /\ \A g \in Handles : hstate'[g] = "none" => hstate[g] = "none"
            /\ \A k \in Handles \cup Reqs : k # h => thread'[k] = thread[k]
        BY <1>1, <4>1 DEF TypeOK, Live
      <4>4. \A r \in Reqs : Outstanding(r) /\ req[r].kind \in HandleReqKinds =>
              req[r].on \in Handles /\ req[r].on # h
        BY <4>1 DEF AnchorInv, BlocksInv, BlocksWellFormed, Outstanding, Pending, HandleReqKinds
      <4>5. \A r \in Reqs : Outstanding(r)' =>
              /\ Outstanding(r) /\ thread'[r] = thread[r]
              /\ req[r].kind \in HandleReqKinds => Live(req[r].on)'
        BY <4>1, <4>3, <4>4 DEF AnchorInv, BlocksAnchored, Outstanding
      <4>6. QED
        BY <4>1, <4>2, <4>3, <4>5, AnchorFrame
    <3>5. QED
      BY <3>1, <3>2, <3>3, <3>4
  <2>5. CASE RequestSteps
    <3>1. PICK c \in Coros, h \in Handles, r \in Reqs :
            (\E kind \in HandleReqKinds : Request(c, h, r, kind)) \/ PipeConnect(c, h, r)
      BY <2>5 DEF RequestSteps
    <3>2. \A kind \in HandleReqKinds :
            Issue(c, r, kind, h) /\ UNCHANGED thread /\ Accepts(h, kind) => HandlesAnchored' /\ BlocksAnchored'
      BY IssueAnchored DEF Accepts, ReqKinds
    <3>3. \A kind \in HandleReqKinds :
            Refuse(r, kind) /\ UNCHANGED thread => HandlesAnchored' /\ BlocksAnchored'
      BY RefuseAnchored DEF ReqKinds
    <3>4. QED
      BY <3>1, <3>2, <3>3 DEF Request, PipeConnect, HandleReqKinds
  <2>6. CASE \E c \in Coros, r \in Reqs : Getaddrinfo(c, r) \/ Sleep(c, r)
    <3>1. PICK c \in Coros, r \in Reqs : Getaddrinfo(c, r) \/ Sleep(c, r)
      BY <2>6
    <3>2. /\ req[r].st = "free" /\ thread'[r] = c
          /\ \A k \in Handles \cup Reqs : k # r => thread'[k] = thread[k]
      BY <1>1, <3>1 DEF Getaddrinfo, Sleep, TypeOK
    <3>3. CASE Issue(c, r, "getaddrinfo", Nil) \/ Issue(c, r, "sleep", Nil)
      BY <3>2, <3>3, IssueAnchored DEF ReqKinds, HandleReqKinds
    <3>4. CASE UNCHANGED <<hstate, owner, opened, slots, req>>
      BY <3>2, <3>4 DEF AnchorInv, HandlesAnchored, BlocksAnchored, Outstanding, Live
    <3>5. CASE Refuse(r, "sleep")
      BY <3>2, <3>5, RefuseAnchored DEF ReqKinds
    <3>6. QED
      BY <3>1, <3>3, <3>4, <3>5 DEF Getaddrinfo, Sleep
  <2>7. CASE BlockCb
    <3>1. PICK r \in Reqs : \/ \E kind \in HandleReqKinds : HandleReqCb(r, kind)
                            \/ GetaddrinfoCb(r) \/ SleepCb(r) \/ SleepCloseCb(r)
      BY <2>7 DEF BlockCb
    <3>2. /\ UNCHANGED <<hstate, owner, opened, slots>> /\ Outstanding(r)
          /\ \A k \in Handles \cup Reqs : k # r => thread'[k] = thread[k]
          /\ \A s \in Reqs : s # r => req'[s] = req[s]
      BY <1>1, <3>1 DEF HandleReqCb, GetaddrinfoCb, SleepCb, SleepCloseCb, Outstanding, TypeOK
    <3>3. \/ req'[r].st = "free"
          \/ /\ req'[r].kind = req[r].kind /\ req'[r].on = req[r].on /\ req'[r].by = req[r].by
             /\ thread'[r] = thread[r]
      <4>1. CASE \E kind \in HandleReqKinds : HandleReqCb(r, kind)
        BY <1>1, <4>1 DEF HandleReqCb, TypeOK, FreeBlock
      <4>2. CASE GetaddrinfoCb(r)
        BY <1>1, <4>2 DEF GetaddrinfoCb, TypeOK, FreeBlock
      <4>3. CASE SleepCb(r)
        <5>1. req' = [req EXCEPT ![r].st = "closing"] /\ UNCHANGED thread
          BY <4>3 DEF SleepCb
        <5>2. req[r] \in Blocks /\ req'[r] = [req[r] EXCEPT !.st = "closing"]
          BY <1>1, <5>1 DEF TypeOK
        <5>3. QED
          BY <5>1, <5>2 DEF Blocks
      <4>4. CASE SleepCloseCb(r)
        BY <1>1, <4>4 DEF SleepCloseCb, TypeOK, FreeBlock
      <4>5. QED
        BY <3>1, <4>1, <4>2, <4>3, <4>4
    <3>4. HandlesAnchored'
      BY <3>2 DEF AnchorInv, HandlesAnchored, Live
    <3>5. BlocksAnchored'
      <4> SUFFICES ASSUME NEW s \in Reqs, Outstanding(s)'
                   PROVE  (IF req[s].kind \in HandleReqKinds THEN Live(req[s].on) ELSE thread[s] = req[s].by)'
        BY DEF BlocksAnchored
      <4>1. CASE s = r
        BY <3>2, <3>3, <4>1 DEF AnchorInv, BlocksAnchored, Outstanding, Live
      <4>2. CASE s # r
        BY <3>2, <4>2 DEF AnchorInv, BlocksAnchored, Outstanding, Live
      <4>3. QED
        BY <4>1, <4>2
    <3>6. QED
      BY <3>4, <3>5
  <2>8. QED
    BY <1>3, StepCases, <2>1, <2>2, <2>3, <2>4, <2>5, <2>6, <2>7
<1>4. QED
  BY <1>2, <1>3 DEF vars

LEMMA AnchorInit == Init => AnchorInv
BY TypeInit DEF Init, AnchorInv, BlocksInv, BlocksWellFormed, HandlesAnchored, BlocksAnchored,
   Live, Outstanding, FreeBlock

\* As long as a handle is used only by its creator, the registry holds every
\* coroutine that a callback to come will resume, and every handle libuv has the
\* address of.
THEOREM TargetsAnchored ==
  ASSUME Discipline # "any"
  PROVE  Spec => []CallbackTargetsAnchored
<1>1. AnchorInv => CallbackTargetsAnchored
  <2> SUFFICES ASSUME AnchorInv PROVE CallbackTargetsAnchored
    OBVIOUS
  <2>1. \A h \in Handles : Live(h) => Anchored(owner[h]) /\ <<"user", h>> \in slots
    BY ParametersAssumption DEF AnchorInv, HandlesAnchored, Anchored
  <2>2. \A r \in Reqs : Outstanding(r) => Anchored(Target(r))
    BY <2>1 DEF AnchorInv, BlocksInv, BlocksAnchored, BlocksWellFormed, Anchored, Target
  <2>3. QED
    BY <2>1, <2>2 DEF CallbackTargetsAnchored, Live
<1>2. QED
  BY AnchorInit, AnchorNext, <1>1, PTL DEF Spec

\* In every program, however coroutines share their handles, libuv has the address
\* of no handle and of no caller of sleep or getaddrinfo that the registry does not
\* hold, and of no request on a closed handle.  The slot of a handle anchors its
\* owner, or the creator once tcp_open has made another coroutine the owner.
THEOREM AnchoredInEveryProgram == Spec => []AnchoredUnlessOpened
<1>1. AnchorInv => AnchoredUnlessOpened
  <2> SUFFICES ASSUME AnchorInv PROVE AnchoredUnlessOpened
    OBVIOUS
  <2>1. \A h \in Handles : Live(h) =>
          /\ <<"user", h>> \in slots
          /\ IF opened[h] = Nil THEN owner[h] \in Coros => thread[h] = owner[h]
               ELSE Type[h] = "tcp" /\ thread[h] = opened[h]
    BY DEF AnchorInv, HandlesAnchored
  <2>2. \A r \in Reqs : Outstanding(r) =>
          IF req[r].kind \in HandleReqKinds THEN Live(req[r].on) ELSE Anchored(req[r].by)
    BY DEF AnchorInv, BlocksAnchored, Anchored
  <2>3. QED
    BY <2>1, <2>2 DEF AnchoredUnlessOpened, Live
<1>2. QED
  BY AnchorInit, AnchorNext, <1>1, PTL DEF Spec
=============================================================================
