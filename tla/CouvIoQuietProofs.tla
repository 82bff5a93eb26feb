------------------------- MODULE CouvIoQuietProofs -------------------------
(***************************************************************************)
(* Theorems about "quiet" programs: every answer goes to the call that it  *)
(* belongs to, and CouvIo implements Await.                                *)
(***************************************************************************)
EXTENDS CouvIoAwaitProofs

-----------------------------------------------------------------------------
(***************************************************************************)
(* The inductive invariant.  A pending block and a closing handle are what *)
(* their coroutine is suspended in, hence it has only one of them; and the *)
(* owner of a handle that delivers input is suspended, if at all, in a     *)
(* read.  So whoever a callback resumes awaits that callback.              *)
(***************************************************************************)
CallersAwait ==
  \A r \in Reqs : Outstanding(r) =>
    /\ req[r].by \in Coros /\ co[req[r].by] = "yielded"
    /\ wait[req[r].by] = Suspended("req", r)

ClosersAwait ==
  \A h \in Handles : hstate[h] = "closing" /\ owner[h] \in Coros =>
    co[owner[h]] = "yielded" /\ wait[owner[h]] = Suspended("close", h)

ReadersRead ==
  \A h \in Handles : reading[h] =>
    hstate[h] = "open" /\ (Yielded(owner[h]) => wait[owner[h]].on = "read")

Quiet == CallersAwait /\ ClosersAwait /\ ReadersRead

QuietInv == OrphanInv /\ Quiet

\* what a step may do: wake a coroutine only with its own answer
AnswersOwn == \A c \in Coros : Wakes(c) => Answered(wait[c])

\* what a step is in Await: a step or nothing
AwaitStep == Promise!Next \/ UNCHANGED <<[c \in Coros |-> AwaitedOp(c)], OutstandingOps>>

QuietStep == Quiet' /\ AnswersOwn /\ AwaitStep

-----------------------------------------------------------------------------
(***************************************************************************)
(* Steps that concern only running coroutines and readers.                 *)
(***************************************************************************)
LEMMA QuietFrame ==
  ASSUME Quiet,
         \A c \in Coros : co[c] = "yielded" /\ wait[c].on # "read" =>
           co'[c] = "yielded" /\ wait'[c] = wait[c],
         \A c \in Coros : co'[c] = "yielded" =>
           (co[c] = "yielded" /\ wait'[c] = wait[c]) \/ wait'[c].on = "read",
         \A r \in Reqs : Outstanding(r)' => Outstanding(r) /\ req'[r].by = req[r].by,
         \A h \in Handles : hstate'[h] = "closing" /\ owner'[h] \in Coros =>
           hstate[h] = "closing" /\ owner'[h] = owner[h],
         \A h \in Handles : reading'[h] =>
           hstate'[h] = "open" /\ ((reading[h] /\ owner'[h] = owner[h]) \/ ~Yielded(owner[h])')
  PROVE  Quiet'
<1> USE DEF Quiet
<1>1. CallersAwait'
  <2> SUFFICES ASSUME NEW r \in Reqs, Outstanding(r)'
               PROVE  /\ req'[r].by \in Coros /\ co'[req'[r].by] = "yielded"
                      /\ wait'[req'[r].by] = Suspended("req", r)
    BY DEF CallersAwait
  <2>1. Outstanding(r) /\ req'[r].by = req[r].by
    OBVIOUS
  <2>2. /\ req[r].by \in Coros /\ co[req[r].by] = "yielded"
        /\ wait[req[r].by] = Suspended("req", r)
    BY <2>1 DEF CallersAwait
  <2>3. wait[req[r].by].on # "read"
    BY <2>2 DEF Suspended
  <2>4. QED
    BY <2>1, <2>2, <2>3
<1>2. ClosersAwait'
  BY DEF ClosersAwait, Suspended
<1>3. ReadersRead'
  <2> SUFFICES ASSUME NEW h \in Handles, reading'[h]
               PROVE  hstate'[h] = "open" /\ (Yielded(owner[h])' => wait'[owner'[h]].on = "read")
    BY DEF ReadersRead
  <2>1. CASE reading[h] /\ owner'[h] = owner[h]
    <3>1. Yielded(owner[h]) => wait[owner[h]].on = "read"
      BY <2>1 DEF ReadersRead
    <3>2. QED
      BY <2>1, <3>1 DEF Yielded
  <2>2. CASE ~Yielded(owner[h])'
    BY <2>2
  <2>3. QED
    BY <2>1, <2>2
<1>4. QED
  BY <1>1, <1>2, <1>3

\* The same, for a step that also leaves what is under way.
LEMMA QuietStutter ==
  ASSUME Quiet,
         \A c \in Coros : co[c] = "yielded" /\ wait[c].on # "read" =>
           co'[c] = "yielded" /\ wait'[c] = wait[c],
         \A c \in Coros : co'[c] = "yielded" =>
           (co[c] = "yielded" /\ wait'[c] = wait[c]) \/ wait'[c].on = "read",
         \A c \in Coros : Wakes(c) => Answered(wait[c]),
         \A r \in Reqs : /\ Outstanding(r)' <=> Outstanding(r)
                         /\ Outstanding(r)' => req'[r].by = req[r].by,
         \A h \in Handles : hstate'[h] = "closing" <=> hstate[h] = "closing",
         \A h \in Handles : hstate[h] # "none" => owner'[h] = owner[h],
         \A h \in Handles : reading'[h] =>
           hstate'[h] = "open" /\ ((reading[h] /\ owner'[h] = owner[h]) \/ ~Yielded(owner[h])')
  PROVE  QuietStep
<1>1. Quiet'
  BY QuietFrame
<1>2. AwaitStep
  BY AwaitedFrame, OpsFrame DEF AwaitStep
<1>3. QED
  BY <1>1, <1>2 DEF QuietStep, AnswersOwn

-----------------------------------------------------------------------------
(***************************************************************************)
(* Steps that begin or end an operation.                                   *)
(***************************************************************************)
\* Coroutine c yields in an operation that nobody has under way.
LEMMA CallQuiet ==
  ASSUME QuietInv, NEW c \in Coros, NEW w \in AllOps, co[c] = "running", YieldIn(c, w),
         UNCHANGED owner,
         OutstandingOps' = OutstandingOps \cup {w}, w \notin OutstandingOps,
         \A r \in Reqs : Outstanding(r)' =>
           \/ Outstanding(r) /\ req'[r].by = req[r].by
           \/ w = Suspended("req", r) /\ req'[r].by = c,
         \A h \in Handles : hstate'[h] = "closing" =>
           hstate[h] = "closing" \/ (w = Suspended("close", h) /\ owner[h] = c),
         \A h \in Handles : reading'[h] =>
           reading[h] /\ hstate'[h] = "open" /\ owner[h] # c
  PROVE  QuietStep
<1>1. TypeOK /\ Quiet
  BY DEF QuietInv, OrphanInv
<1>2. /\ co'[c] = "yielded" /\ wait'[c] = w
      /\ \A d \in Coros : d # c => co'[d] = co[d] /\ wait'[d] = wait[d]
  BY <1>1, YieldEffect
<1>3. CallersAwait'
  <2> SUFFICES ASSUME NEW r \in Reqs, Outstanding(r)'
               PROVE  /\ req'[r].by \in Coros /\ co'[req'[r].by] = "yielded"
                      /\ wait'[req'[r].by] = Suspended("req", r)
    BY DEF CallersAwait
  <2>1. CASE Outstanding(r) /\ req'[r].by = req[r].by
    <3>1. /\ req[r].by \in Coros /\ co[req[r].by] = "yielded"
          /\ wait[req[r].by] = Suspended("req", r)
      BY <1>1, <2>1 DEF Quiet, CallersAwait
    <3>2. QED
      BY <1>2, <2>1, <3>1
  <2>2. CASE w = Suspended("req", r) /\ req'[r].by = c
    BY <1>2, <2>2
  <2>3. QED
    BY <2>1, <2>2
<1>4. ClosersAwait'
  BY <1>1, <1>2 DEF Quiet, ClosersAwait
<1>5. ReadersRead'
  <2> SUFFICES ASSUME NEW h \in Handles, reading'[h]
               PROVE  hstate'[h] = "open" /\ (Yielded(owner[h])' => wait'[owner[h]].on = "read")
    BY DEF ReadersRead
  <2>1. Yielded(owner[h]) => wait[owner[h]].on = "read"
    BY <1>1 DEF Quiet, ReadersRead
  <2>2. QED
    BY <1>2, <2>1 DEF Yielded
<1>6. AnswersOwn
  BY <1>2 DEF AnswersOwn, Wakes
<1>7. AwaitStep
  <2>1. AwaitedOp(c) = NoWait /\ AwaitedOp(c)' = w
    BY <1>2 DEF AwaitedOp, AllOps
  <2>2. \A d \in Coros : d # c => AwaitedOp(d)' = AwaitedOp(d)
    BY <1>2 DEF AwaitedOp
  <2>3. Promise!Call(c, w)
    BY <2>1, <2>2 DEF Promise!Call
  <2>4. QED
    BY <2>3 DEF AwaitStep, Promise!Next
<1>8. QED
  BY <1>3, <1>4, <1>5, <1>6, <1>7 DEF QuietStep, Quiet

\* Coroutine c, suspended in the operation w under way, goes on, and w is over.
LEMMA AnswerQuiet ==
  ASSUME QuietInv, NEW c \in Coros, NEW w \in AllOps, co[c] = "yielded", wait[c] = w,
         co'[c] = "running",
         \A d \in Coros : d # c => co'[d] = co[d] /\ wait'[d] = wait[d],
         UNCHANGED <<owner, reading>>,
         w \in OutstandingOps, OutstandingOps' = OutstandingOps \ {w}, Answered(w),
         \A r \in Reqs : Outstanding(r)' =>
           Outstanding(r) /\ req'[r].by = req[r].by /\ w # Suspended("req", r),
         \A h \in Handles : hstate'[h] = "closing" =>
           hstate[h] = "closing" /\ w # Suspended("close", h),
         \A h \in Handles : hstate[h] = "open" => hstate'[h] = "open"
  PROVE  QuietStep
<1>1. TypeOK /\ Quiet
  BY DEF QuietInv, OrphanInv
<1>2. CallersAwait'
  <2> SUFFICES ASSUME NEW r \in Reqs, Outstanding(r)'
               PROVE  /\ req'[r].by \in Coros /\ co'[req'[r].by] = "yielded"
                      /\ wait'[req'[r].by] = Suspended("req", r)
    BY DEF CallersAwait
  <2>1. /\ req[r].by \in Coros /\ co[req[r].by] = "yielded"
        /\ wait[req[r].by] = Suspended("req", r) /\ req'[r].by = req[r].by
    BY <1>1 DEF Quiet, CallersAwait
  <2>2. QED
    BY <2>1
<1>3. ClosersAwait'
  <2> SUFFICES ASSUME NEW h \in Handles, hstate'[h] = "closing", owner[h] \in Coros
               PROVE  co'[owner[h]] = "yielded" /\ wait'[owner[h]] = Suspended("close", h)
    BY DEF ClosersAwait
  <2>1. co[owner[h]] = "yielded" /\ wait[owner[h]] = Suspended("close", h)
    BY <1>1 DEF Quiet, ClosersAwait
  <2>2. QED
    BY <2>1
<1>4. ReadersRead'
  <2> SUFFICES ASSUME NEW h \in Handles, reading[h]
               PROVE  hstate'[h] = "open" /\ (Yielded(owner[h])' => wait'[owner[h]].on = "read")
    BY DEF ReadersRead
  <2>1. hstate[h] = "open" /\ (Yielded(owner[h]) => wait[owner[h]].on = "read")
    BY <1>1 DEF Quiet, ReadersRead
  <2>2. QED
    BY <2>1 DEF Yielded
<1>5. AnswersOwn
  BY DEF AnswersOwn, Wakes
<1>6. AwaitStep
  <2>1. AwaitedOp(c) = w /\ AwaitedOp(c)' = NoWait
    BY DEF AwaitedOp, AllOps
  <2>2. \A d \in Coros : d # c => AwaitedOp(d)' = AwaitedOp(d)
    BY DEF AwaitedOp
  <2>3. Promise!Answer(c)
    BY <2>1, <2>2 DEF Promise!Answer
  <2>4. QED
    BY <2>3 DEF AwaitStep, Promise!Next
<1>7. QED
  BY <1>2, <1>3, <1>4, <1>5, <1>6 DEF QuietStep, Quiet

LEMMA QuietInit == Init => QuietInv
<1> SUFFICES ASSUME Init PROVE QuietInv
  OBVIOUS
<1>1. OrphanInv
  BY OrphanInit
<1>2. Quiet
  BY DEF Init, Quiet, CallersAwait, ClosersAwait, ReadersRead, Outstanding, FreeBlock
<1>3. QED
  BY <1>1, <1>2 DEF QuietInv

\* A read that returns because input was delivered has taken one.
LEMMA ResumeReads ==
  ASSUME TypeOK, NEW l, NEW q \in [Handles -> Seq(Nat)], Resume(l, FALSE, q),
         Yielded(l), wait[l].on = "read", co'[l] = "running"
  PROVE  Answered(wait[l])
<1>1. PICK h \in Handles : wait[l] = Suspended("read", h) /\ TakeHead(h, q) /\ q[h] # <<>>
  BY DEF Resume, Yielded, Suspended
<1>2. q[h] \in Seq(Nat) /\ taken[h] \in Seq(Nat)
  BY DEF TypeOK
<1>3. Head(q[h]) \in Nat
  BY <1>1, <1>2, HeadTailProperties
<1>4. Len(Append(taken[h], Head(q[h]))) = Len(taken[h]) + 1
  BY <1>2, <1>3, AppendProperties
<1>5. taken'[h] = Append(taken[h], Head(q[h]))
  BY <1>1 DEF TakeHead, TypeOK
<1>6. QED
  BY <1>1, <1>4, <1>5 DEF Answered, Suspended

\* The callback of a block.
LEMMA BlockQuiet ==
  ASSUME QuietInv, NEW r \in Reqs, Outstanding(r),
         Resume(Target(r), TRUE, input) \/ Resume(Target(r), FALSE, input),
         UNCHANGED <<hstate, owner, reading>>, req' = [req EXCEPT ![r] = FreeBlock]
  PROVE  QuietStep
<1> DEFINE c == req[r].by
<1>1. TypeOK /\ input \in [Handles -> Seq(Nat)]
  BY DEF QuietInv, OrphanInv, TypeOK
<1>2. c \in Coros /\ co[c] = "yielded" /\ wait[c] = Suspended("req", r)
  BY DEF QuietInv, Quiet, CallersAwait
<1>3. Target(r) = c
  BY <1>2 DEF QuietInv, OrphanInv, NoOrphanAwait
<1>4. Yielded(c) /\ wait[c].on # "read"
  BY <1>2 DEF Yielded, Suspended
<1>5. Resume(c, TRUE, input) \/ Resume(c, FALSE, input)
  BY <1>3
<1>6. co'[c] = "running" /\ \A d \in Coros : d # c => co'[d] = co[d] /\ wait'[d] = wait[d]
  BY <1>1, <1>4, <1>5, ResumeEffect
<1>7. req'[r] = FreeBlock /\ \A s \in Reqs : s # r => req'[s] = req[s]
  BY <1>1 DEF TypeOK
<1>8. ~Outstanding(r)' /\ \A s \in Reqs : s # r => (Outstanding(s)' <=> Outstanding(s))
  BY <1>7 DEF Outstanding, FreeBlock
<1>9. /\ Suspended("req", r) \in OutstandingOps
      /\ OutstandingOps' = OutstandingOps \ {Suspended("req", r)}
  BY <1>8 DEF OutstandingOps, Suspended
<1>10. Answered(Suspended("req", r))
  BY <1>7 DEF Answered, Suspended, FreeBlock
<1>11. Suspended("req", r) \in AllOps /\ \A h \in Handles : Suspended("req", r) # Suspended("close", h)
  BY DEF AllOps, Suspended
<1>12. \A s \in Reqs : Outstanding(s)' =>
         Outstanding(s) /\ req'[s].by = req[s].by /\ Suspended("req", r) # Suspended("req", s)
  BY <1>7, <1>8 DEF Suspended
<1>13. QED
  BY <1>2, <1>6, <1>9, <1>10, <1>11, <1>12, AnswerQuiet

\* close_cb, for a handle of a coroutine and for one of the main thread.
LEMMA CloseCbQuiet ==
  ASSUME QuietInv, NEW h \in Handles, CloseCb(h)
  PROVE  QuietStep
<1> DEFINE w == Suspended("close", h)
<1>1. TypeOK /\ input \in [Handles -> Seq(Nat)] /\ Quiet
  BY DEF QuietInv, OrphanInv, TypeOK
<1>2. /\ Resume(owner[h], FALSE, input) /\ UNCHANGED <<owner, reading, req>>
      /\ hstate[h] = "closing" /\ hstate' = [hstate EXCEPT ![h] = "closed"]
  BY DEF CloseCb, ResumeIfYielded
<1>3. hstate'[h] = "closed" /\ \A g \in Handles : g # h => hstate'[g] = hstate[g]
  BY <1>1, <1>2 DEF TypeOK
<1>4. w \in OutstandingOps /\ OutstandingOps' = OutstandingOps \ {w}
  BY <1>2, <1>3 DEF OutstandingOps, Suspended, Outstanding
<1>5. w \in AllOps /\ \A r \in Reqs : w # Suspended("req", r)
  BY DEF AllOps, Suspended
<1>6. CASE owner[h] \in Coros
  <2> DEFINE c == owner[h]
  <2>1. co[c] = "yielded" /\ wait[c] = w
    BY <1>1, <1>2, <1>6 DEF Quiet, ClosersAwait
  <2>2. Yielded(c) /\ wait[c].on # "read"
    BY <1>6, <2>1 DEF Yielded, Suspended
  <2>3. co'[c] = "running" /\ \A d \in Coros : d # c => co'[d] = co[d] /\ wait'[d] = wait[d]
    BY <1>1, <1>2, <2>2, ResumeEffect
  <2>4. Answered(w)
    BY <1>2, <1>3 DEF Answered, Suspended
  <2>5. \A r \in Reqs : Outstanding(r)' =>
          Outstanding(r) /\ req'[r].by = req[r].by /\ w # Suspended("req", r)
    BY <1>2, <1>5 DEF Outstanding
  <2>6. \A g \in Handles : hstate'[g] = "closing" => hstate[g] = "closing" /\ w # Suspended("close", g)
    BY <1>3 DEF Suspended
  <2>7. \A g \in Handles : hstate[g] = "open" => hstate'[g] = "open"
    BY <1>2, <1>3
  <2>8. QED
    BY <1>2, <1>4, <1>5, <1>6, <2>1, <2>3, <2>4, <2>5, <2>6, <2>7, AnswerQuiet
<1>7. CASE owner[h] \notin Coros
  <2>1. UNCHANGED <<co, wait>>
    BY <1>2, <1>7 DEF Resume, Yielded
  <2>2. Quiet'
    <3>1. \A g \in Handles : reading'[g] => hstate'[g] = "open" /\ reading[g]
      BY <1>1, <1>2, <1>3 DEF Quiet, ReadersRead
    <3>2. QED
      BY <1>1, <1>2, <1>3, <2>1, <3>1, QuietFrame DEF Outstanding
  <2>3. AnswersOwn
    BY <2>1 DEF AnswersOwn, Wakes
  <2>4. \A c \in Coros : AwaitedOp(c)' = AwaitedOp(c)
    BY <2>1 DEF AwaitedOp
  <2>5. \A c \in Coros : AwaitedOp(c) # w
    BY <1>7 DEF AwaitedOp, NoWait, Suspended, QuietInv, OrphanInv, NoOrphanAwait
  <2>6. Promise!Expire(w)
    BY <1>4, <2>4, <2>5 DEF Promise!Expire
  <2>7. QED
    BY <1>5, <2>2, <2>3, <2>6 DEF QuietStep, AwaitStep, Promise!Next
<1>8. QED
  BY <1>6, <1>7

\* libuv takes a block, for a coroutine that no delivering handle belongs to.
LEMMA IssueQuiet ==
  ASSUME QuietInv, Discipline = "quiet", NEW c \in Coros, NEW r \in Reqs,
         NEW kind \in ReqKinds, NEW h, co[c] = "running", req[r].st = "free",
         MayAwait(c, {}), Issue(c, r, kind, h)
  PROVE  QuietStep
<1> DEFINE w == Suspended("req", r)
<1>1. TypeOK /\ Quiet /\ YieldIn(c, w) /\ UNCHANGED <<owner, hstate, reading>>
  BY DEF QuietInv, OrphanInv, Issue
<1>2. /\ req'[r] = [kind |-> kind, on |-> h, by |-> c, st |-> "pending"]
      /\ \A s \in Reqs : s # r => req'[s] = req[s]
  BY <1>1 DEF Issue, TypeOK
<1>3. ~Outstanding(r) /\ Outstanding(r)' /\ \A s \in Reqs : s # r => (Outstanding(s)' <=> Outstanding(s))
  BY <1>2 DEF Outstanding
<1>4. OutstandingOps' = OutstandingOps \cup {w} /\ w \notin OutstandingOps
  BY <1>1, <1>3 DEF OutstandingOps, Suspended
<1>5. w \in AllOps
  BY DEF AllOps, Suspended
<1>6. \A s \in Reqs : Outstanding(s)' =>
        \/ Outstanding(s) /\ req'[s].by = req[s].by
        \/ w = Suspended("req", s) /\ req'[s].by = c
  BY <1>2, <1>3
<1>7. \A g \in Handles : reading'[g] => reading[g] /\ hstate'[g] = "open" /\ owner[g] # c
  BY <1>1 DEF MayAwait, Quiet, ReadersRead
<1>8. QED
  BY <1>1, <1>4, <1>5, <1>6, <1>7, CallQuiet

\* A coroutine closes its handle, and libuv stops delivering its input.
LEMMA CloseQuiet ==
  ASSUME QuietInv, Discipline = "quiet", NEW c \in Coros, NEW h \in Handles, Close(c, h)
  PROVE  QuietStep
<1> DEFINE w == Suspended("close", h)
<1>1. /\ TypeOK /\ Quiet /\ co[c] = "running" /\ YieldIn(c, w) /\ UNCHANGED <<owner, req>>
      /\ owner[h] = c /\ hstate[h] = "open" /\ hstate' = [hstate EXCEPT ![h] = "closing"]
      /\ reading' = [reading EXCEPT ![h] = FALSE] /\ MayAwait(c, {h})
  BY DEF QuietInv, OrphanInv, Close, StartClose, MayUse
<1>2. hstate'[h] = "closing" /\ \A g \in Handles : g # h => hstate'[g] = hstate[g]
  BY <1>1 DEF TypeOK
<1>3. OutstandingOps' = OutstandingOps \cup {w} /\ w \notin OutstandingOps
  BY <1>1, <1>2 DEF OutstandingOps, Suspended, Outstanding
<1>4. w \in AllOps
  BY DEF AllOps, Suspended
<1>5. \A g \in Handles : reading'[g] => reading[g] /\ g # h
  BY <1>1 DEF TypeOK
<1>6. \A g \in Handles : reading'[g] => reading[g] /\ hstate'[g] = "open" /\ owner[g] # c
  BY <1>1, <1>2, <1>5 DEF MayAwait, Quiet, ReadersRead
<1>7. \A s \in Reqs : Outstanding(s)' => Outstanding(s) /\ req'[s].by = req[s].by
  BY <1>1 DEF Outstanding
<1>8. \A g \in Handles : hstate'[g] = "closing" =>
        hstate[g] = "closing" \/ (w = Suspended("close", g) /\ owner[g] = c)
  BY <1>1, <1>2
<1>9. QED
  BY <1>1, <1>3, <1>4, <1>6, <1>7, <1>8, CallQuiet

LEMMA MainCloseQuiet ==
  ASSUME QuietInv, Discipline = "quiet", NEW h \in Handles, MainClose(h)
  PROVE  QuietStep
<1> DEFINE w == Suspended("close", h)
<1>1. /\ TypeOK /\ Quiet /\ UNCHANGED <<co, wait, owner, req>>
      /\ owner[h] = Main /\ hstate[h] = "open" /\ hstate' = [hstate EXCEPT ![h] = "closing"]
      /\ reading' = [reading EXCEPT ![h] = FALSE]
  BY DEF QuietInv, OrphanInv, MainClose, StartClose, MayUse
<1>2. hstate'[h] = "closing" /\ \A g \in Handles : g # h => hstate'[g] = hstate[g]
  BY <1>1 DEF TypeOK
<1>3. OutstandingOps' = OutstandingOps \cup {w} /\ w \notin OutstandingOps
  BY <1>1, <1>2 DEF OutstandingOps, Suspended, Outstanding
<1>4. \A g \in Handles : reading'[g] => reading[g] /\ hstate'[g] = "open"
  BY <1>1, <1>2 DEF TypeOK, Quiet, ReadersRead
<1>5. \A g \in Handles : hstate'[g] = "closing" /\ owner'[g] \in Coros => hstate[g] = "closing"
  BY <1>1, <1>2, ActorsAssumption
<1>6. Quiet'
  BY <1>1, <1>4, <1>5, QuietFrame DEF Outstanding
<1>7. AnswersOwn
  BY <1>1 DEF AnswersOwn, Wakes
<1>8. \A c \in Coros : AwaitedOp(c)' = AwaitedOp(c)
  BY <1>1 DEF AwaitedOp
<1>9. w \in AllOps /\ Promise!Post(w)
  BY <1>3, <1>8 DEF Promise!Post, AllOps, Suspended
<1>10. QED
  BY <1>6, <1>7, <1>9 DEF QuietStep, AwaitStep, Promise!Next

\* A block that libuv refuses was nobody's.
LEMMA RefuseQuiet ==
  ASSUME QuietInv, NEW r \in Reqs, NEW kind \in ReqKinds, Refuse(r, kind), req[r].st = "free"
  PROVE  QuietStep
<1>1. TypeOK /\ Quiet /\ UNCHANGED <<co, wait, hstate, owner, reading>>
  BY DEF Refuse, QuietInv, OrphanInv
<1>2. req'[r].st = "leaked" /\ \A s \in Reqs : s # r => req'[s] = req[s]
  BY <1>1 DEF Refuse, FreeBlock, TypeOK
<1>3. \A s \in Reqs : /\ Outstanding(s)' <=> Outstanding(s)
                      /\ Outstanding(s)' => req'[s].by = req[s].by
  BY <1>2 DEF Outstanding
<1>4. \A h \in Handles : reading[h] => hstate[h] = "open"
  BY <1>1 DEF Quiet, ReadersRead
<1>5. QED
  BY <1>1, <1>3, <1>4, QuietStutter DEF Wakes

LEMMA QuietNext ==
  ASSUME Discipline = "quiet"
  PROVE  QuietInv /\ [Next]_vars => QuietInv' /\ (AnswersOwn /\ AwaitStep)
<1> SUFFICES ASSUME QuietInv, [Next]_vars PROVE QuietStep
  BY OrphanNext DEF QuietInv, QuietStep
<1> USE ActorsAssumption
<1>1. TypeOK /\ Quiet /\ input \in [Handles -> Seq(Nat)]
  BY DEF QuietInv, OrphanInv, TypeOK
<1>0. \A h \in Handles : reading[h] => hstate[h] = "open"
  BY <1>1 DEF Quiet, ReadersRead
<1>2. CASE UNCHANGED vars
  BY <1>0, <1>1, <1>2, QuietStutter DEF vars, Wakes, Outstanding
<1>3. CASE Next
  <2>1. CASE \E c \in Coros : Start(c) \/ Finish(c)
    <3>1. PICK c \in Coros : Start(c) \/ Finish(c)
      BY <2>1
    <3>2. /\ UNCHANGED <<wait, hstate, owner, req, reading>> /\ co[c] # "yielded" /\ co'[c] # "yielded"
          /\ \A d \in Coros : d # c => co'[d] = co[d]
      BY <3>1, <1>1 DEF Start, Finish, TypeOK
    <3>3. QED
      BY <1>0, <1>1, <3>2, QuietStutter DEF Wakes, Outstanding
  <2>2. CASE \E c \in Coros, h \in Handles :
               NewHandle(c, h) \/ NewHandleFails(c, h) \/ TakeInput(c, h) \/ Close(c, h)
    <3>1. PICK c \in Coros, h \in Handles :
            NewHandle(c, h) \/ NewHandleFails(c, h) \/ TakeInput(c, h) \/ Close(c, h)
      BY <2>2
    <3>2. CASE NewHandle(c, h)
      <4>1. /\ UNCHANGED <<co, wait, reading, req>> /\ hstate[h] = "none" /\ hstate'[h] = "open"
            /\ \A g \in Handles : g # h => hstate'[g] = hstate[g] /\ owner'[g] = owner[g]
        BY <1>1, <3>2 DEF NewHandle, InitHandle, TypeOK
      <4>2. QED
        BY <1>0, <1>1, <4>1, QuietStutter DEF Wakes, Outstanding
    <3>3. CASE NewHandleFails(c, h)
      BY <1>0, <1>1, <3>3, QuietStutter DEF NewHandleFails, Wakes, Outstanding
    <3>4. CASE TakeInput(c, h)
      <4>1. UNCHANGED <<hstate, owner, req, reading>> /\ co[c] = "running"
        BY <3>4 DEF TakeInput
      <4>2. CASE UNCHANGED <<co, wait>>
        BY <1>0, <1>1, <4>1, <4>2, QuietStutter DEF Wakes, Outstanding
      <4>3. CASE YieldIn(c, Suspended("read", h))
        <5>1. /\ co'[c] = "yielded" /\ wait'[c].on = "read"
              /\ \A d \in Coros : d # c => co'[d] = co[d] /\ wait'[d] = wait[d]
          BY <1>1, <4>3, YieldEffect DEF Suspended
        <5>2. QED
          BY <1>0, <1>1, <4>1, <5>1, QuietStutter DEF Wakes, Outstanding
      <4>4. QED
        BY <3>4, <4>2, <4>3 DEF TakeInput
    <3>5. CASE Close(c, h)
      BY <3>5, CloseQuiet
    <3>6. QED
      BY <3>1, <3>2, <3>3, <3>4, <3>5
  <2>3. CASE \E l \in Actors, h \in Handles :
               TtyNew(l, h) \/ TcpOpen(l, h) \/ Listen(l, h)
                 \/ \E on \in BOOLEAN : SetReading(l, h, on)
    <3>1. PICK l \in Actors, h \in Handles :
            TtyNew(l, h) \/ TcpOpen(l, h) \/ Listen(l, h) \/ \E on \in BOOLEAN : SetReading(l, h, on)
      BY <2>3
    <3>2. CASE TtyNew(l, h)
      <4>1. /\ UNCHANGED <<co, wait, reading, req>> /\ hstate[h] = "none" /\ hstate'[h] = "open"
            /\ \A g \in Handles : g # h => hstate'[g] = hstate[g] /\ owner'[g] = owner[g]
        BY <1>1, <3>2 DEF TtyNew, InitHandle, TypeOK
      <4>2. QED
        BY <1>0, <1>1, <4>1, QuietStutter DEF Wakes, Outstanding
    <3>3. CASE TcpOpen(l, h)
      <4>1. UNCHANGED <<co, wait, hstate, owner, req, reading>>
        BY <1>1, <3>3 DEF TcpOpen, MayUse, TypeOK
      <4>2. QED
        BY <1>0, <1>1, <4>1, QuietStutter DEF Wakes, Outstanding
    <3>4. CASE Listen(l, h)
      BY <1>0, <1>1, <3>4, QuietStutter DEF Listen, Wakes, Outstanding
    <3>5. CASE \E on \in BOOLEAN : SetReading(l, h, on)
      <4>1. /\ UNCHANGED <<co, wait, hstate, owner, req>> /\ Runs(l) /\ owner[h] = l /\ hstate[h] = "open"
            /\ \A g \in Handles : g # h => reading'[g] = reading[g]
        BY <1>1, <3>5 DEF SetReading, MayUse, TypeOK
      <4>2. ~Yielded(owner[h])'
        BY <4>1 DEF Runs, Yielded
      <4>3. QED
        BY <1>0, <1>1, <4>1, <4>2, QuietStutter DEF Wakes, Outstanding
    <3>6. QED
      BY <3>1, <3>2, <3>3, <3>4, <3>5
  <2>4. CASE \E h \in Handles : MainClose(h) \/ Deliver(h) \/ CloseCb(h)
    <3>1. PICK h \in Handles : MainClose(h) \/ Deliver(h) \/ CloseCb(h)
      BY <2>4
    <3>2. CASE Deliver(h)
      <4> DEFINE q == [input EXCEPT ![h] = Append(@, recvd[h] + 1)]
                 l == owner[h]
      <4>1. q \in [Handles -> Seq(Nat)]
        BY <1>1 DEF TypeOK
      <4>2. Resume(l, FALSE, q) /\ reading[h] /\ UNCHANGED <<hstate, owner, req, reading>>
        BY <3>2 DEF Deliver, ResumeIfYielded
      <4>3. Yielded(l) => wait[l].on = "read"
        BY <1>1, <4>2 DEF Quiet, ReadersRead
      <4>4. /\ \A c \in Coros : c # l => co'[c] = co[c] /\ wait'[c] = wait[c]
            /\ \A c \in Coros : co'[c] = "yielded" => co[c] = "yielded" /\ wait'[c] = wait[c]
        BY <1>1, <4>1, <4>2, ResumeEffect
      <4>5. \A c \in Coros : co[c] = "yielded" /\ wait[c].on # "read" =>
              co'[c] = "yielded" /\ wait'[c] = wait[c]
        BY <4>3, <4>4 DEF Yielded
      <4>6. \A c \in Coros : Wakes(c) => Answered(wait[c])
        <5> SUFFICES ASSUME NEW c \in Coros, Wakes(c) PROVE Answered(wait[c])
          OBVIOUS
        <5>1. c = l /\ Yielded(l) /\ co'[l] = "running"
          BY <4>4 DEF Wakes, Yielded
        <5>2. QED
          BY <1>1, <4>1, <4>2, <4>3, <5>1, ResumeReads
      <4>7. \A r \in Reqs : (Outstanding(r)' <=> Outstanding(r)) /\ req'[r].by = req[r].by
        BY <4>2 DEF Outstanding
      <4>8. QED
        BY <1>0, <1>1, <4>2, <4>4, <4>5, <4>6, <4>7, QuietStutter
    <3>3. QED
      BY <3>1, <3>2, MainCloseQuiet, CloseCbQuiet
  <2>5. CASE RequestSteps
    <3>1. PICK c \in Coros, h \in Handles, r \in Reqs :
            (\E kind \in HandleReqKinds : Request(c, h, r, kind)) \/ PipeConnect(c, h, r)
      BY <2>5 DEF RequestSteps
    <3>2. co[c] = "running" /\ req[r].st = "free"
      BY <3>1 DEF Request, PipeConnect, MayIssue
    <3>3. ASSUME NEW kind \in HandleReqKinds, MayAwait(c, {}), Issue(c, r, kind, h)
          PROVE  QuietStep
      BY <3>2, <3>3, IssueQuiet DEF ReqKinds
    <3>4. ASSUME NEW kind \in HandleReqKinds, Refuse(r, kind)
          PROVE  QuietStep
      BY <3>2, <3>4, RefuseQuiet DEF ReqKinds
    <3>5. QED
      BY <3>1, <3>3, <3>4 DEF Request, PipeConnect, HandleReqKinds
  <2>6. CASE \E c \in Coros, r \in Reqs : Getaddrinfo(c, r) \/ Sleep(c, r)
    <3>1. PICK c \in Coros, r \in Reqs : Getaddrinfo(c, r) \/ Sleep(c, r)
      BY <2>6
    <3>2. CASE MayAwait(c, {}) /\ (Issue(c, r, "getaddrinfo", Nil) \/ Issue(c, r, "sleep", Nil))
      BY <3>1, <3>2, IssueQuiet DEF Getaddrinfo, Sleep, ReqKinds
    <3>3. CASE UNCHANGED <<co, wait, hstate, owner, req, reading>>
      BY <1>0, <1>1, <3>3, QuietStutter DEF Wakes, Outstanding
    <3>4. CASE req[r].st = "free" /\ Refuse(r, "sleep")
      BY <3>4, RefuseQuiet DEF ReqKinds
    <3>5. QED
      BY <3>1, <3>2, <3>3, <3>4 DEF Getaddrinfo, Sleep
  <2>7. CASE BlockCb
    <3>1. PICK r \in Reqs : \/ \E kind \in HandleReqKinds : HandleReqCb(r, kind)
                            \/ GetaddrinfoCb(r) \/ SleepCb(r) \/ SleepCloseCb(r)
      BY <2>7 DEF BlockCb
    <3>2. CASE SleepCb(r)
      <4>1. /\ UNCHANGED <<co, wait, hstate, owner, reading>> /\ req[r].st = "pending"
            /\ req' = [req EXCEPT ![r].st = "closing"]
        BY <3>2 DEF SleepCb
      <4>2. /\ req'[r].st = "closing" /\ req'[r].by = req[r].by
            /\ \A s \in Reqs : s # r => req'[s] = req[s]
        BY <1>1, <4>1 DEF TypeOK, Blocks
      <4>3. \A s \in Reqs : (Outstanding(s)' <=> Outstanding(s)) /\ req'[s].by = req[s].by
        BY <4>1, <4>2 DEF Outstanding
      <4>4. QED
        BY <1>0, <1>1, <4>1, <4>3, QuietStutter DEF Wakes
    <3>3. CASE ~SleepCb(r)
      <4>1. /\ Outstanding(r) /\ UNCHANGED <<hstate, owner, reading>>
            /\ req' = [req EXCEPT ![r] = FreeBlock]
        BY <3>1, <3>3 DEF HandleReqCb, GetaddrinfoCb, SleepCloseCb, Outstanding
      <4>2. Resume(Target(r), TRUE, input) \/ Resume(Target(r), FALSE, input)
        BY <3>1, <3>3, TargetResumed DEF QuietInv
      <4>3. QED
        BY <4>1, <4>2, BlockQuiet
    <3>4. QED
      BY <3>2, <3>3
  <2>8. QED
    BY <1>3, StepCases, <2>1, <2>2, <2>3, <2>4, <2>5, <2>6, <2>7
<1>4. QED
  BY <1>2, <1>3

-----------------------------------------------------------------------------
\* In a quiet program a coroutine goes on only in the step that answers the call
\* it is suspended in: no write, sleep, lookup or close returns for another
\* reason, and no read returns the result of another call.
THEOREM OwnAnswerCorrect ==
  ASSUME Discipline = "quiet"
  PROVE  Spec => OwnAnswer
<1>1. QuietInv /\ [Next]_vars => QuietInv' /\ (AnswersOwn /\ AwaitStep)
  BY QuietNext
<1>2. QuietInv /\ [Next]_vars => [\A c \in Coros : Wakes(c) => Answered(wait[c])]_vars
  BY <1>1 DEF AnswersOwn
<1>3. QED
  BY QuietInit, <1>1, <1>2, PTL DEF Spec, OwnAnswer

\* In a quiet program the buffers of a write or send stay referenced from the
\* stack of its caller for as long as libuv may read them.
THEOREM BufsReferenced ==
  ASSUME Discipline = "quiet"
  PROVE  Spec => []BufsStayReferenced
<1>1. QuietInv /\ [Next]_vars => QuietInv' /\ (AnswersOwn /\ AwaitStep)
  BY QuietNext
<1>2. QuietInv => BufsStayReferenced
  BY DEF QuietInv, Quiet, CallersAwait, BufsStayReferenced, Outstanding
<1>3. QED
  BY QuietInit, <1>1, <1>2, PTL DEF Spec

\* A quiet program is kept the promise of Await: CouvIo implements it, with the
\* pending blocks and closing handles as the operations under way.
THEOREM CouvIoImplementsAwait ==
  ASSUME Discipline = "quiet"
  PROVE  Spec => KeepsPromise
<1>1. QuietInv /\ [Next]_vars => QuietInv' /\ (AnswersOwn /\ AwaitStep)
  BY QuietNext
<1>2. Init => Promise!Init
  BY DEF Init, Promise!Init, AwaitedOp, OutstandingOps, Outstanding, FreeBlock
<1>3. QuietInv /\ [Next]_vars => [Promise!Next]_(Promise!vars)
  BY <1>1 DEF AwaitStep, Promise!vars
<1>4. QED
  BY QuietInit, <1>1, <1>2, <1>3, PTL DEF Spec, KeepsPromise, Promise!Spec
=============================================================================
