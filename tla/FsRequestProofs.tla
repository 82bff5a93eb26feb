-------------------------- MODULE FsRequestProofs --------------------------
(***************************************************************************)
(* Proofs about FsRequest, for all coroutines, blocks and operations.      *)
(***************************************************************************)
EXTENDS FsRequest, SequenceTheorems, TLAPS

USE FsActorsAssumption, FsParametersAssumption

\* a request with libuv has a caller, and an outcome exactly when it is done
RequestsWellFormed ==
  \A r \in Reqs : InFlight(r) =>
    /\ req[r].by \in Coros /\ req[r].op \in AllOps
    /\ req[r].st = "done" => req[r].res \in {"ok", "err"}
    /\ req[r].st = "queued" => req[r].res = "unknown"

\* a coroutine that runs, or is suspended elsewhere, awaits no request
AwakeAwaitNothing == \A c \in Coros : wait[c] # Nil => co[c] = "yielded"

FsInv ==
  TypeOK /\ RequestsWellFormed /\ SlotsMatchRequests /\ NoOrphanAwait /\ AwakeAwaitNothing

\* without strays every caller is suspended in its own call
CallersAwait ==
  \A r \in Reqs : InFlight(r) => co[req[r].by] = "yielded" /\ wait[req[r].by] = r

QuietFsInv == FsInv /\ CallersAwait /\ ReturnsOutcome

-----------------------------------------------------------------------------
\* What a step of the module does, whatever the function of uv.fs.
LEMMA FsStepCases ==
  ASSUME Next
  PROVE  \/ \E op \in Ops : SyncCall(op) \/ Refused(op)
         \/ \E c \in Coros, op \in Ops, r \in Reqs :
              co[c] = "running" /\ req[r].st = "free" /\ Submit(c, op, r)
         \/ \E c \in Coros : Start(c) \/ Finish(c) \/ AwaitElsewhere(c)
         \/ \E c \in Coros : ResumeFromElsewhere(c)
         \/ \E r \in Reqs : Perform(r)
         \/ \E r \in Reqs : Complete(r)
<1>1. ASSUME NEW l, FsCall(l)
      PROVE  \E op \in Ops : Call(l, op)
  BY <1>1 DEF FsCall, Chown, Chmod, Close, Exists, Fchmod, Fchown, Fstat, Fsync, Ftruncate,
     Futime, Link, Lstat, Mkdir, Open, Readlink, Rename, Rmdir, Stat, Symlink, Unlink,
     Utime, Read, Readdir, Write, Call
<1>2. CASE FsCall(Main)
  BY <1>1, <1>2 DEF Call
<1>3. CASE \E c \in Coros : FsCall(c)
  <2>1. PICK c \in Coros, op \in Ops : AsyncCall(c, op)
    BY <1>1, <1>3 DEF Call
  <2>2. QED
    BY <2>1 DEF AsyncCall
<1>4. CASE \E c \in Coros : Start(c) \/ Finish(c) \/ AwaitElsewhere(c) \/ ResumeFromElsewhere(c)
  BY <1>4
<1>5. CASE \E r \in Reqs : Perform(r) \/ LoopStep(r)
  BY <1>5 DEF LoopStep, CommonCallback, ExistsCallback
<1>6. QED
  BY <1>2, <1>3, <1>4, <1>5 DEF Next, CoroutineStep

\* What the wrappers of couv.lua make of the values that are pushed.
LEMMA WrappedIsResult ==
  ASSUME NEW op \in AllOps, NEW res \in {"ok", "err"}
  PROVE  /\ res = "err" => Wrapped(op, PushResults(op, res)) =
                             IF op = "exists" THEN "false" ELSE "raises"
         /\ res = "ok" => /\ Wrapped(op, PushResults(op, res)) \in Results
                          /\ Wrapped(op, PushResults(op, res)) \notin
                               {"raises", "nil", "errname", "false"}
                          /\ Wrapped(op, PushResults(op, res)) = "nothing" <=> op \in NoValueOps
<1>1. CASE op \in NoValueOps
  BY <1>1 DEF NoValueOps, OneValueOps, Wrapped, PushResults, PushCommonResults, FsError,
     Error0, Results
<1>2. CASE op \in OneValueOps
  BY <1>2 DEF NoValueOps, OneValueOps, Wrapped, PushResults, PushCommonResults, FsError,
     Error1, Results
<1>3. CASE op = "exists"
  BY <1>3 DEF NoValueOps, OneValueOps, Wrapped, PushResults, PushExistsResults, Results
<1>4. QED
  BY <1>1, <1>2, <1>3 DEF AllOps

\* Whatever values resume a coroutine, its call returns one of the results.
LEMMA WrappedTyped ==
  ASSUME NEW op \in AllOps \cup {"none"}, NEW vals,
         \/ vals = <<>> \/ vals = <<"errname">>
         \/ \E o \in AllOps, res \in Outcomes : vals = PushResults(o, res)
  PROVE  Wrapped(op, vals) \in Results
<1>1. vals \in {<<>>, <<"errname">>, <<"nil", "errname">>, <<"number">>, <<"stat">>,
                <<"string">>, <<"table">>, <<"true">>, <<"false">>}
  BY DEF PushResults, PushCommonResults, PushExistsResults, FsError, Outcomes
<1>2. Error0(vals) \in Results /\ Error1(vals) \in Results
  BY <1>1 DEF Error0, Error1, Results
<1>3. (IF vals = <<>> THEN "nil" ELSE vals[1]) \in Results
  BY <1>1 DEF Results
<1>4. QED
  BY <1>2, <1>3 DEF Wrapped

\* A return of a function of uv.fs keeps the type of ret.
LEMMA ReturnsTyped ==
  ASSUME TypeOK, NEW op \in AllOps \cup {"none"}, NEW res \in Outcomes, NEW vals,
         \/ vals = <<>> \/ vals = <<"errname">>
         \/ \E o \in AllOps, out \in Outcomes : vals = PushResults(o, out),
         Returns(op, res, vals)
  PROVE  ret' \in [op : AllOps \cup {"none"}, res : Outcomes, val : Results]
BY WrappedTyped DEF Returns

-----------------------------------------------------------------------------
\* The inductive invariant, and what the steps of a program without strays do:
\* one lemma per kind of step.
AwaitStep == [Promise!Next]_(Promise!vars)

AnswersOwn ==
  \A c \in Coros : co[c] = "yielded" /\ wait[c] # Nil /\ co'[c] = "running" =>
    req[wait[c]].st = "done" /\ req'[wait[c]].st = "free"

QuietGoal == ~Strays /\ QuietFsInv => QuietFsInv' /\ AnswersOwn /\ AwaitStep

LEMMA FsInit == Init => FsInv /\ QuietFsInv
BY DEF Init, FsInv, QuietFsInv, TypeOK, RequestsWellFormed, SlotsMatchRequests,
   NoOrphanAwait, CallersAwait, AwakeAwaitNothing, ReturnsOutcome, InFlight, FreeReq,
   NoReturn, Outcomes, Results

\* steps that only change which coroutines run
LEMMA FsFrame ==
  ASSUME FsInv, UNCHANGED <<req, thread>>,
         co' \in [Coros -> {"fresh", "running", "yielded", "dead"}],
         wait' \in [Coros -> Reqs \cup {Nil}],
         ret' \in [op : AllOps \cup {"none"}, res : Outcomes, val : Results],
         \A c \in Coros : wait'[c] # Nil =>
           co[c] = "yielded" /\ co'[c] = "yielded" /\ wait'[c] = wait[c]
  PROVE  FsInv'
BY DEF FsInv, AwakeAwaitNothing, TypeOK, RequestsWellFormed, SlotsMatchRequests, NoOrphanAwait, InFlight

\* the main thread, or a coroutine whose request is refused, gets an outcome at once
LEMMA SyncStep ==
  ASSUME FsInv, NEW op \in Ops, SyncCall(op) \/ Refused(op)
  PROVE  FsInv' /\ QuietGoal
<1>1. UNCHANGED <<co, wait, req, thread>>
  BY DEF SyncCall, Refused
<1>2. TypeOK /\ op \in AllOps
  BY DEF FsInv
<1>3. /\ ret' \in [op : AllOps \cup {"none"}, res : Outcomes, val : Results]
      /\ ReturnsOutcome'
  <2>1. CASE SyncCall(op)
    <3>1. PICK res \in {"ok", "err"} : Returns(op, res, PushResults(op, res))
      BY <2>1 DEF SyncCall
    <3>2. QED
      BY <1>2, <3>1, WrappedIsResult, ReturnsTyped DEF Returns, ReturnsOutcome, Outcomes
  <2>2. CASE Refused(op) /\ op = "exists"
    <3>1. PICK res \in {"ok", "err"} : Returns(op, "unknown", PushResults(op, res))
      BY <2>2 DEF Refused, PushResults
    <3>2. QED
      BY <1>2, <3>1, ReturnsTyped DEF Returns, ReturnsOutcome, Outcomes
  <2>3. CASE Refused(op) /\ op # "exists"
    <3>1. Returns(op, "err", FsError(op)) /\ FsError(op) = PushResults(op, "err")
      BY <2>3 DEF Refused, PushResults, PushCommonResults
    <3>2. QED
      BY <1>2, <2>3, <3>1, WrappedIsResult, ReturnsTyped DEF Returns, ReturnsOutcome, Outcomes
  <2>4. QED
    BY <2>1, <2>2, <2>3
<1>4. FsInv'
  BY <1>1, <1>3, FsFrame DEF FsInv, TypeOK, AwakeAwaitNothing
<1>5. QuietGoal
  BY <1>1, <1>3, <1>4 DEF QuietGoal, QuietFsInv, CallersAwait, AnswersOwn,
     AwaitStep, Promise!vars, InFlight, FsInv, TypeOK
<1>6. QED
  BY <1>4, <1>5

\* a request is queued and its caller yields: the Call of Await
LEMMA SubmitStep ==
  ASSUME FsInv, NEW c \in Coros, NEW op \in Ops, NEW r \in Reqs,
         co[c] = "running", req[r].st = "free", Submit(c, op, r)
  PROVE  FsInv' /\ QuietGoal
<1>1. op \in AllOps
  OBVIOUS
<1>2. /\ InFlight(r)' /\ req'[r].by = c /\ req'[r].st = "queued"
      /\ req'[r].op = op /\ req'[r].res = "unknown" /\ ~InFlight(r)
      /\ \A s \in Reqs : s # r => req'[s] = req[s] /\ (InFlight(s)' <=> InFlight(s))
      /\ req' \in [Reqs -> [st : {"free", "queued", "done"}, op : AllOps \cup {"none"},
                            by : Coros \cup {Nil}, res : Outcomes]]
  BY <1>1 DEF Submit, FsInv, TypeOK, InFlight, Outcomes
<1>3. /\ thread'[r] = c /\ co'[c] = "yielded" /\ wait'[c] = r /\ UNCHANGED ret
      /\ \A s \in Reqs : s # r => thread'[s] = thread[s]
      /\ \A d \in Coros : d # c => co'[d] = co[d] /\ wait'[d] = wait[d]
  BY DEF Submit, FsInv, TypeOK
<1>4. TypeOK'
  BY <1>2 DEF Submit, FsInv, TypeOK
<1>5. RequestsWellFormed'
  BY <1>1, <1>2 DEF FsInv, RequestsWellFormed
<1>6. SlotsMatchRequests'
  BY <1>2, <1>3 DEF FsInv, SlotsMatchRequests
<1>7. NoOrphanAwait'
  <2> SUFFICES ASSUME NEW d \in Coros, co'[d] = "yielded", wait'[d] # Nil
               PROVE  req'[wait'[d]].st \in {"queued", "done"} /\ req'[wait'[d]].by = d
    BY DEF NoOrphanAwait, InFlight
  <2>1. CASE d = c
    BY <1>2, <1>3, <2>1 DEF InFlight
  <2>2. CASE d # c
    <3>1. wait[d] \in Reqs /\ InFlight(wait[d]) /\ req[wait[d]].by = d /\ wait'[d] = wait[d]
      BY <1>3, <2>2 DEF FsInv, TypeOK, NoOrphanAwait
    <3>2. wait[d] # r
      BY <1>2, <3>1
    <3>3. QED
      BY <1>2, <3>1, <3>2 DEF InFlight
  <2>3. QED
    BY <2>1, <2>2
<1>8. AwakeAwaitNothing'
  BY <1>3 DEF FsInv, AwakeAwaitNothing
<1>9. ASSUME QuietFsInv
      PROVE  QuietFsInv' /\ AnswersOwn /\ AwaitStep
  <2>1. CallersAwait'
    <3> SUFFICES ASSUME NEW s \in Reqs, InFlight(s)'
                 PROVE  co'[req'[s].by] = "yielded" /\ wait'[req'[s].by] = s
      BY DEF CallersAwait
    <3>1. CASE s = r
      BY <1>2, <1>3, <3>1
    <3>2. CASE s # r
      <4>1. InFlight(s) /\ req'[s] = req[s] /\ req[s].by \in Coros
        BY <1>2, <3>2 DEF FsInv, RequestsWellFormed
      <4>2. co[req[s].by] = "yielded" /\ wait[req[s].by] = s
        BY <1>9, <4>1 DEF QuietFsInv, CallersAwait
      <4>3. QED
        BY <1>3, <4>1, <4>2
    <3>3. QED
      BY <3>1, <3>2
  <2>2. ReturnsOutcome' /\ AnswersOwn
    BY <1>3, <1>9 DEF QuietFsInv, ReturnsOutcome, AnswersOwn
  <2>3. Promise!Call(c, r)
    <3>1. wait[c] = Nil
      BY DEF FsInv, AwakeAwaitNothing
    <3>2. {s \in Reqs : InFlight(s)'} = {s \in Reqs : InFlight(s)} \cup {r}
      BY <1>2
    <3>3. wait' = [wait EXCEPT ![c] = r]
      BY DEF Submit
    <3>4. QED
      BY <1>2, <3>1, <3>2, <3>3 DEF Promise!Call
  <2>4. QED
    BY <1>4, <1>5, <1>6, <1>7, <1>8, <2>1, <2>2, <2>3
       DEF QuietFsInv, FsInv, AwaitStep, Promise!Next
<1>10. QED
  BY <1>4, <1>5, <1>6, <1>7, <1>8, <1>9 DEF QuietGoal, FsInv

\* the steps that change no request: coroutines start, end, yield elsewhere, and
\* are resumed by other modules
LEMMA SchedulingStep ==
  ASSUME FsInv, NEW c \in Coros, Start(c) \/ Finish(c) \/ AwaitElsewhere(c)
  PROVE  FsInv' /\ QuietGoal
<1>1. /\ UNCHANGED <<wait, req, thread, ret>> /\ co[c] \in {"fresh", "running"}
      /\ co'[c] \in {"running", "dead", "yielded"}
      /\ \A d \in Coros : d # c => co'[d] = co[d]
      /\ co' \in [Coros -> {"fresh", "running", "yielded", "dead"}]
  BY DEF Start, Finish, AwaitElsewhere, FsInv, TypeOK
<1>2. wait[c] = Nil
  BY <1>1 DEF FsInv, AwakeAwaitNothing
<1>3. FsInv'
  BY <1>1, <1>2, FsFrame DEF FsInv, TypeOK, AwakeAwaitNothing
<1>4. ASSUME QuietFsInv
      PROVE  QuietFsInv' /\ AnswersOwn /\ AwaitStep
  <2>1. CallersAwait'
    <3> SUFFICES ASSUME NEW r \in Reqs, InFlight(r)
                 PROVE  co'[req[r].by] = "yielded" /\ wait[req[r].by] = r
      BY <1>1 DEF CallersAwait, InFlight
    <3>1. req[r].by \in Coros /\ co[req[r].by] = "yielded" /\ wait[req[r].by] = r
      BY <1>4 DEF QuietFsInv, CallersAwait, FsInv, RequestsWellFormed
    <3>2. QED
      BY <1>1, <3>1
  <2>2. QED
    BY <1>1, <1>2, <1>3, <1>4, <2>1 DEF QuietFsInv, ReturnsOutcome,
       AnswersOwn, AwaitStep, Promise!vars, InFlight
<1>5. QED
  BY <1>3, <1>4 DEF QuietGoal

\* a resumed coroutine: what it awaits, and what it returns
LEMMA ResumeEffect ==
  ASSUME FsInv, NEW c \in Coros, NEW vals,
         \/ vals = <<>> \/ vals = <<"errname">>
         \/ \E o \in AllOps, out \in Outcomes : vals = PushResults(o, out),
         Resume(c, vals)
  PROVE  /\ co' \in [Coros -> {"fresh", "running", "yielded", "dead"}]
         /\ wait' \in [Coros -> Reqs \cup {Nil}]
         /\ ret' \in [op : AllOps \cup {"none"}, res : Outcomes, val : Results]
         /\ \A d \in Coros : d # c => co'[d] = co[d] /\ wait'[d] = wait[d]
         /\ wait'[c] = Nil
         /\ wait' = [wait EXCEPT ![c] = Nil]
         /\ co[c] = "yielded" => co'[c] = "running"
         /\ wait[c] # Nil => Returns(req[wait[c]].op, req[wait[c]].res, vals)
         /\ wait[c] = Nil => UNCHANGED ret
<1>1. TypeOK /\ (wait[c] # Nil => co[c] = "yielded")
  BY DEF FsInv, AwakeAwaitNothing
<1>2. ASSUME wait[c] # Nil
      PROVE  ret' \in [op : AllOps \cup {"none"}, res : Outcomes, val : Results]
  <2>1. req[wait[c]].op \in AllOps \cup {"none"} /\ req[wait[c]].res \in Outcomes
    BY <1>1, <1>2 DEF TypeOK
  <2>2. Returns(req[wait[c]].op, req[wait[c]].res, vals)
    BY <1>1, <1>2 DEF Resume
  <2>3. QED
    BY <1>1, <2>1, <2>2, ReturnsTyped
<1>3. wait[c] = Nil => ret' = ret
  BY DEF Resume
<1>4. QED
  BY <1>1, <1>2, <1>3 DEF Resume, TypeOK, Returns

\* a callback of another module resumes a coroutine
LEMMA ElsewhereStep ==
  ASSUME FsInv, NEW c \in Coros, ResumeFromElsewhere(c)
  PROVE  FsInv' /\ QuietGoal
<1>1. PICK vals \in {<<>>, <<"errname">>} : Resume(c, vals)
  BY DEF ResumeFromElsewhere
<1>2. /\ UNCHANGED <<req, thread>> /\ co[c] = "yielded" /\ (~Strays => wait[c] = Nil)
  BY DEF ResumeFromElsewhere
<1>3. /\ co' \in [Coros -> {"fresh", "running", "yielded", "dead"}]
      /\ wait' \in [Coros -> Reqs \cup {Nil}]
      /\ ret' \in [op : AllOps \cup {"none"}, res : Outcomes, val : Results]
      /\ \A d \in Coros : d # c => co'[d] = co[d] /\ wait'[d] = wait[d]
      /\ wait'[c] = Nil /\ wait' = [wait EXCEPT ![c] = Nil]
      /\ wait[c] = Nil => UNCHANGED ret
  BY <1>1, ResumeEffect
<1>4. FsInv'
  BY <1>2, <1>3, FsFrame DEF FsInv, AwakeAwaitNothing
<1>5. ASSUME QuietFsInv, ~Strays
      PROVE  QuietFsInv' /\ AnswersOwn /\ AwaitStep
  <2>1. wait' = wait /\ wait[c] = Nil /\ UNCHANGED ret
    BY <1>2, <1>3, <1>5 DEF FsInv, TypeOK
  <2>2. CallersAwait'
    <3> SUFFICES ASSUME NEW r \in Reqs, InFlight(r)
                 PROVE  co'[req[r].by] = "yielded" /\ wait[req[r].by] = r
      BY <1>2, <2>1 DEF CallersAwait, InFlight
    <3>1. req[r].by \in Coros /\ co[req[r].by] = "yielded" /\ wait[req[r].by] = r
      BY <1>5 DEF QuietFsInv, CallersAwait, FsInv, RequestsWellFormed
    <3>2. QED
      BY <1>3, <2>1, <3>1
  <2>3. QED
    BY <1>2, <1>3, <1>4, <1>5, <2>1, <2>2 DEF QuietFsInv, ReturnsOutcome,
       AnswersOwn, AwaitStep, Promise!vars, InFlight
<1>6. QED
  BY <1>4, <1>5 DEF QuietGoal

\* the thread pool performs a request
LEMMA PerformStep ==
  ASSUME FsInv, NEW r \in Reqs, Perform(r)
  PROVE  FsInv' /\ QuietGoal
<1>1. /\ req[r].st = "queued" /\ UNCHANGED <<co, wait, thread, ret>>
      /\ req'[r].st = "done" /\ req'[r].res \in {"ok", "err"}
      /\ req'[r].by = req[r].by /\ req'[r].op = req[r].op
      /\ \A s \in Reqs : s # r => req'[s] = req[s]
      /\ req' \in [Reqs -> [st : {"free", "queued", "done"}, op : AllOps \cup {"none"},
                            by : Coros \cup {Nil}, res : Outcomes]]
  BY DEF Perform, FsInv, TypeOK, Outcomes
<1>2. \A s \in Reqs : (InFlight(s)' <=> InFlight(s)) /\ req'[s].by = req[s].by
  BY <1>1 DEF InFlight
<1>3. TypeOK' /\ AwakeAwaitNothing'
  BY <1>1 DEF FsInv, TypeOK, AwakeAwaitNothing
<1>4. RequestsWellFormed'
  <2> SUFFICES ASSUME NEW s \in Reqs, InFlight(s)'
               PROVE  /\ req'[s].by \in Coros /\ req'[s].op \in AllOps
                      /\ req'[s].st = "done" => req'[s].res \in {"ok", "err"}
                      /\ req'[s].st = "queued" => req'[s].res = "unknown"
    BY DEF RequestsWellFormed
  <2>1. InFlight(s) /\ req'[s].by \in Coros
    BY <1>2 DEF FsInv, RequestsWellFormed
  <2>2. CASE s = r
    BY <1>1, <2>1, <2>2 DEF FsInv, RequestsWellFormed
  <2>3. CASE s # r
    BY <1>1, <2>1, <2>3 DEF FsInv, RequestsWellFormed
  <2>4. QED
    BY <2>2, <2>3
<1>5. SlotsMatchRequests'
  BY <1>1, <1>2 DEF FsInv, SlotsMatchRequests
<1>6. NoOrphanAwait'
  <2> SUFFICES ASSUME NEW c \in Coros, co[c] = "yielded", wait[c] # Nil
               PROVE  req'[wait[c]].st \in {"queued", "done"} /\ req'[wait[c]].by = c
    BY <1>1 DEF NoOrphanAwait, InFlight
  <2>1. wait[c] \in Reqs /\ InFlight(wait[c]) /\ req[wait[c]].by = c
    BY DEF FsInv, TypeOK, NoOrphanAwait
  <2>2. QED
    BY <1>2, <2>1 DEF InFlight
<1>7. ASSUME QuietFsInv
      PROVE  CallersAwait' /\ ReturnsOutcome' /\ AnswersOwn /\ AwaitStep
  <2>1. CallersAwait'
    BY <1>1, <1>2, <1>7 DEF QuietFsInv, CallersAwait
  <2>2. {s \in Reqs : InFlight(s)'} = {s \in Reqs : InFlight(s)}
    BY <1>2
  <2>3. QED
    BY <1>1, <1>7, <2>1, <2>2 DEF QuietFsInv, ReturnsOutcome, AnswersOwn, AwaitStep,
       Promise!vars
<1>8. QED
  BY <1>3, <1>4, <1>5, <1>6, <1>7 DEF QuietGoal, QuietFsInv, FsInv

\* the callback of a request: the Answer of Await
LEMMA CompleteStep ==
  ASSUME FsInv, NEW r \in Reqs, Complete(r)
  PROVE  FsInv' /\ QuietGoal
<1> DEFINE c == req[r].by
           vals == PushResults(req[r].op, req[r].res)
<1>1. /\ req[r].st = "done" /\ InFlight(r) /\ c \in Coros /\ req[r].op \in AllOps
      /\ req[r].res \in {"ok", "err"}
  BY DEF Complete, InFlight, FsInv, RequestsWellFormed
<1>2. /\ ~InFlight(r)' /\ thread'[r] = Nil /\ req'[r].st = "free"
      /\ \A s \in Reqs : s # r =>
           req'[s] = req[s] /\ thread'[s] = thread[s] /\ (InFlight(s)' <=> InFlight(s))
      /\ thread' \in [Reqs -> Coros \cup {Nil}]
      /\ req' \in [Reqs -> [st : {"free", "queued", "done"}, op : AllOps \cup {"none"},
                            by : Coros \cup {Nil}, res : Outcomes]]
  BY DEF Complete, FreeReq, InFlight, FsInv, TypeOK, Outcomes
<1>3. /\ co' \in [Coros -> {"fresh", "running", "yielded", "dead"}]
      /\ wait' \in [Coros -> Reqs \cup {Nil}]
      /\ ret' \in [op : AllOps \cup {"none"}, res : Outcomes, val : Results]
      /\ \A d \in Coros : d # c => co'[d] = co[d] /\ wait'[d] = wait[d]
      /\ wait'[c] = Nil /\ wait' = [wait EXCEPT ![c] = Nil]
      /\ co[c] = "yielded" => co'[c] = "running"
      /\ wait[c] # Nil => Returns(req[wait[c]].op, req[wait[c]].res, vals)
      /\ wait[c] = Nil => UNCHANGED ret
  <2>1. Resume(c, vals)
    BY DEF Complete
  <2>2. \E o \in AllOps, out \in Outcomes : vals = PushResults(o, out)
    BY <1>1 DEF Outcomes
  <2> HIDE DEF c, vals
  <2>3. QED
    BY <1>1, <2>1, <2>2, ResumeEffect
<1>4. TypeOK' /\ RequestsWellFormed' /\ SlotsMatchRequests'
  <2>1. TypeOK'
    BY <1>2, <1>3 DEF TypeOK
  <2>2. RequestsWellFormed'
    BY <1>2 DEF FsInv, RequestsWellFormed
  <2>3. SlotsMatchRequests'
    BY <1>2 DEF FsInv, SlotsMatchRequests
  <2>4. QED
    BY <2>1, <2>2, <2>3
<1>5. NoOrphanAwait' /\ AwakeAwaitNothing'
  <2>1. ASSUME NEW d \in Coros, wait'[d] # Nil
        PROVE  /\ co'[d] = "yielded"
               /\ req'[wait'[d]].st \in {"queued", "done"} /\ req'[wait'[d]].by = d
    <3>1. d # c /\ co'[d] = co[d] /\ wait'[d] = wait[d]
      BY <1>3, <2>1
    <3>2. co[d] = "yielded" /\ wait[d] \in Reqs /\ InFlight(wait[d]) /\ req[wait[d]].by = d
      BY <2>1, <3>1 DEF FsInv, TypeOK, NoOrphanAwait, AwakeAwaitNothing
    <3>3. wait[d] # r
      BY <3>1, <3>2
    <3>4. QED
      BY <1>2, <3>1, <3>2, <3>3 DEF InFlight
  <2>2. QED
    BY <2>1 DEF NoOrphanAwait, AwakeAwaitNothing, InFlight
<1>6. ASSUME QuietFsInv
      PROVE  CallersAwait' /\ ReturnsOutcome' /\ AnswersOwn /\ AwaitStep
  <2>1. co[c] = "yielded" /\ wait[c] = r /\ r # Nil
    BY <1>1, <1>6 DEF QuietFsInv, CallersAwait
  <2>2. CallersAwait'
    <3> SUFFICES ASSUME NEW s \in Reqs, InFlight(s)'
                 PROVE  co'[req'[s].by] = "yielded" /\ wait'[req'[s].by] = s
      BY DEF CallersAwait
    <3>1. s # r /\ req'[s] = req[s] /\ InFlight(s) /\ req[s].by \in Coros
      BY <1>2 DEF FsInv, RequestsWellFormed
    <3>2. co[req[s].by] = "yielded" /\ wait[req[s].by] = s
      BY <1>6, <3>1 DEF QuietFsInv, CallersAwait
    <3>3. QED
      BY <1>3, <2>1, <3>1, <3>2
  <2>3. ReturnsOutcome'
    <3>1. Returns(req[r].op, req[r].res, vals)
      BY <1>3, <2>1
    <3>2. QED
      BY <1>1, <3>1, WrappedIsResult DEF Returns, ReturnsOutcome
  <2>4. AnswersOwn
    BY <1>1, <1>2, <1>3, <2>1 DEF AnswersOwn
  <2>5. Promise!Answer(c)
    <3>1. {s \in Reqs : InFlight(s)'} = {s \in Reqs : InFlight(s)} \ {r}
      BY <1>2
    <3>2. QED
      BY <1>1, <1>3, <2>1, <3>1 DEF Promise!Answer
  <2>6. QED
    BY <1>1, <2>2, <2>3, <2>4, <2>5 DEF AwaitStep, Promise!Next
<1>7. QED
  BY <1>4, <1>5, <1>6 DEF QuietGoal, QuietFsInv, FsInv

\* the invariant is inductive, and the steps of a program without strays do
\* what Await allows
LEMMA FsNext ==
  ASSUME FsInv, [Next]_vars
  PROVE  FsInv' /\ QuietGoal
<1>1. CASE UNCHANGED vars
  <2>1. FsInv'
    BY <1>1, FsFrame DEF vars, FsInv, TypeOK, AwakeAwaitNothing
  <2>2. QED
    BY <1>1, <2>1 DEF vars, QuietGoal, QuietFsInv, CallersAwait, ReturnsOutcome, AnswersOwn,
       AwaitStep, Promise!vars, InFlight
<1>2. CASE Next
  BY <1>2, FsStepCases, SyncStep, SubmitStep, SchedulingStep, ElsewhereStep, PerformStep,
     CompleteStep
<1>3. QED
  BY <1>1, <1>2

-----------------------------------------------------------------------------
\* The registry slot of a request holds its caller exactly while the request is
\* with libuv, whatever else resumes coroutines and whoever reuses the block.
THEOREM SlotsMatch == Spec => []SlotsMatchRequests
<1>1. FsInv /\ [Next]_vars => FsInv'
  BY FsNext
<1>2. FsInv => SlotsMatchRequests
  BY DEF FsInv
<1>3. QED
  BY FsInit, <1>1, <1>2, PTL DEF Spec

\* The variables keep their types, the values the functions return among them.
THEOREM FsTypeCorrect == Spec => []TypeOK
<1>1. FsInv /\ [Next]_vars => FsInv'
  BY FsNext
<1>2. FsInv => TypeOK
  BY DEF FsInv
<1>3. QED
  BY FsInit, <1>1, <1>2, PTL DEF Spec

\* A coroutine suspended in a call of uv.fs is never left behind.
THEOREM NoFsOrphan == Spec => []NoOrphanAwait
<1>1. FsInv /\ [Next]_vars => FsInv'
  BY FsNext
<1>2. FsInv => NoOrphanAwait
  BY DEF FsInv
<1>3. QED
  BY FsInit, <1>1, <1>2, PTL DEF Spec

\* Without strays every call of uv.fs, from the main thread or a coroutine, gives
\* its caller the outcome of its own operation: an error is raised exactly when
\* the operation failed.
THEOREM OutcomesReturned ==
  ASSUME ~Strays
  PROVE  Spec => []ReturnsOutcome
<1>1. QuietFsInv /\ [Next]_vars => QuietFsInv'
  BY FsNext DEF QuietGoal, QuietFsInv
<1>2. QuietFsInv => ReturnsOutcome
  BY DEF QuietFsInv
<1>3. QED
  BY FsInit, <1>1, <1>2, PTL DEF Spec

\* Without strays the buffer of a read or write stays referenced from the stack
\* of its caller while the thread pool uses it.
THEOREM FsBufferHeld ==
  ASSUME ~Strays
  PROVE  Spec => []BufferHeld
<1>1. QuietFsInv /\ [Next]_vars => QuietFsInv'
  BY FsNext DEF QuietGoal, QuietFsInv
<1>2. QuietFsInv => BufferHeld
  BY DEF QuietFsInv, CallersAwait, BufferHeld, InFlight
<1>3. QED
  BY FsInit, <1>1, <1>2, PTL DEF Spec

\* Without strays FsRequest implements Await, with the requests in flight as the
\* operations under way.
THEOREM FsImplementsAwait ==
  ASSUME ~Strays
  PROVE  Spec => KeepsPromise
<1>1. QuietFsInv /\ [Next]_vars => QuietFsInv' /\ AwaitStep
  BY FsNext DEF QuietGoal, QuietFsInv
<1>2. Init => Promise!Init
  BY DEF Init, Promise!Init, InFlight, FreeReq
<1>3. QuietFsInv /\ [Next]_vars => [Promise!Next]_(Promise!vars)
  BY <1>1 DEF AwaitStep
<1>4. QED
  BY FsInit, <1>1, <1>3, <1>2, PTL DEF Spec, KeepsPromise, Promise!Spec

\* Without strays a call of uv.fs returns to a coroutine only in the step in which
\* its own request is called back and freed.
THEOREM FsOwnAnswer ==
  ASSUME ~Strays
  PROVE  Spec => OwnAnswer
<1>1. QuietFsInv /\ [Next]_vars => QuietFsInv' /\ AnswersOwn
  BY FsNext DEF QuietGoal, QuietFsInv
<1>2. QuietFsInv /\ [Next]_vars =>
        [\A c \in Coros : co[c] = "yielded" /\ wait[c] # Nil /\ co'[c] = "running" =>
            req[wait[c]].st = "done" /\ req'[wait[c]].st = "free"]_vars
  BY <1>1 DEF AnswersOwn
<1>3. QED
  BY FsInit, <1>1, <1>2, PTL DEF Spec, OwnAnswer

-----------------------------------------------------------------------------
(***************************************************************************)
(* What remains with strays.                                               *)
(***************************************************************************)
\* Each step does what LooseAwait allows: a submission is its Call, a callback its
\* Over, and a stray its GoesOnEarly.
LEMMA FsLooseStep ==
  ASSUME FsInv, [Next]_vars
  PROVE  [LoosePromise!Next]_(LoosePromise!vars)
<1>1. CASE UNCHANGED <<wait, req>>
  BY <1>1 DEF LoosePromise!vars, InFlight
<1>2. CASE \E c \in Coros, op \in Ops, r \in Reqs :
             co[c] = "running" /\ req[r].st = "free" /\ Submit(c, op, r)
  <2>1. PICK c \in Coros, op \in Ops, r \in Reqs :
          co[c] = "running" /\ req[r].st = "free" /\ Submit(c, op, r)
    BY <1>2
  <2>2. wait[c] = Nil /\ ~InFlight(r)
    BY <2>1 DEF FsInv, AwakeAwaitNothing, InFlight
  <2>3. InFlight(r)' /\ \A s \in Reqs : s # r => (InFlight(s)' <=> InFlight(s))
    BY <2>1 DEF Submit, InFlight, FsInv, TypeOK
  <2>4. {s \in Reqs : InFlight(s)'} = {s \in Reqs : InFlight(s)} \cup {r}
    BY <2>3
  <2>5. wait' = [wait EXCEPT ![c] = r]
    BY <2>1 DEF Submit
  <2>6. LoosePromise!Call(c, r)
    BY <2>2, <2>4, <2>5 DEF LoosePromise!Call
  <2>7. QED
    BY <2>6 DEF LoosePromise!Next
<1>3. CASE \E c \in Coros : ResumeFromElsewhere(c)
  <2>1. PICK c \in Coros, vals \in {<<>>, <<"errname">>} :
          Resume(c, vals) /\ UNCHANGED <<req, thread>>
    BY <1>3 DEF ResumeFromElsewhere
  <2>2. wait' = [wait EXCEPT ![c] = Nil]
    BY <2>1, ResumeEffect
  <2>3. LoosePromise!GoesOnEarly(c)
    BY <2>1, <2>2 DEF LoosePromise!GoesOnEarly, LoosePromise!GoesOn, InFlight
  <2>4. QED
    BY <2>3 DEF LoosePromise!Next
<1>4. CASE \E r \in Reqs : Perform(r)
  <2>1. UNCHANGED wait /\ \A s \in Reqs : InFlight(s)' <=> InFlight(s)
    BY <1>4 DEF Perform, InFlight, FsInv, TypeOK
  <2>2. {s \in Reqs : InFlight(s)'} = {s \in Reqs : InFlight(s)}
    BY <2>1
  <2>3. QED
    BY <2>1, <2>2 DEF LoosePromise!vars
<1>5. CASE \E r \in Reqs : Complete(r)
  <2>1. PICK r \in Reqs : Complete(r)
    BY <1>5
  <2> DEFINE c == req[r].by
             vals == PushResults(req[r].op, req[r].res)
  <2>2. InFlight(r) /\ c \in Coros /\ req[r].op \in AllOps /\ req[r].res \in Outcomes
    BY <2>1 DEF Complete, InFlight, FsInv, TypeOK, RequestsWellFormed
  <2>3. Resume(c, vals) /\ \E o \in AllOps, out \in Outcomes : vals = PushResults(o, out)
    BY <2>1, <2>2 DEF Complete
  <2> HIDE DEF vals
  <2>4. wait' = [wait EXCEPT ![c] = Nil]
    BY <2>2, <2>3, ResumeEffect
  <2>5. ~InFlight(r)' /\ \A s \in Reqs : s # r => (InFlight(s)' <=> InFlight(s))
    BY <2>1 DEF Complete, InFlight, FreeReq, FsInv, TypeOK
  <2>6. {s \in Reqs : InFlight(s)'} = {s \in Reqs : InFlight(s)} \ {r}
    BY <2>5
  <2>7. \A d \in Coros : wait[d] = r => d = c
    BY DEF FsInv, NoOrphanAwait, AwakeAwaitNothing
  <2>8. LoosePromise!Over(r)
    BY <2>2, <2>4, <2>6, <2>7 DEF LoosePromise!Over, LoosePromise!GoesOn
  <2>9. QED
    BY <2>8 DEF LoosePromise!Next
<1>6. CASE Next
  BY <1>1, <1>2, <1>3, <1>4, <1>5, <1>6, FsStepCases
     DEF SyncCall, Refused, Start, Finish, AwaitElsewhere
<1>7. QED
  BY <1>1, <1>6 DEF vars

\* Whatever other callbacks resume the coroutines, and whoever reuses the blocks,
\* FsRequest implements LooseAwait: a request that is called back finds the
\* coroutine that still waits for it.
THEOREM FsImplementsLooseAwait == Spec => KeepsLoosePromise
<1>1. FsInv /\ [Next]_vars => FsInv'
  BY FsNext
<1>2. Init => LoosePromise!Init
  BY DEF Init, LoosePromise!Init, InFlight, FreeReq
<1>3. FsInv /\ [Next]_vars => [LoosePromise!Next]_(LoosePromise!vars)
  BY FsLooseStep
<1>4. QED
  BY FsInit, <1>1, <1>2, <1>3, PTL DEF Spec, KeepsLoosePromise, LoosePromise!Spec
=============================================================================
