-------------------------- MODULE CallbacksProofs --------------------------
(***************************************************************************)
(* Proofs about Callbacks, for any numbers of coroutines and handles.      *)
(***************************************************************************)
EXTENDS Callbacks, TLAPS

(***************************************************************************)
(* The invariant.  CallbackReady needs to know that a timer that had a     *)
(* successful start, and so can be started again without a function, has   *)
(* its slots; Released that only tcp handles have a thread slot, which is  *)
(* the only kind of handle whose clean-up empties one; TargetsAlive which  *)
(* reference keeps each handle and each thread libuv knows, and that what  *)
(* has been collected neither runs nor comes back.  HeldAlive says what    *)
(* the registry does by itself, for any program.                           *)
(***************************************************************************)
StartedReady ==
  \A h \in started :
    /\ hstate[h] # "none"
    /\ hstate[h] \in {"idle", "active"} => {<<"cb", h>>, <<"user", h>>} \subseteq slots

ThreadSlots ==
  /\ \A h \in Handles : <<"thread", h>> \in slots => Type[h] = "tcp"
  /\ \A h \in Handles :
       Type[h] = "tcp" /\ Known(h) => {<<"user", h>>, <<"thread", h>>} \subseteq slots

HeldAlive ==
  \A h \in Handles : Known(h) =>
    /\ <<"user", h>> \in slots => h \notin gone
    /\ <<"thread", h>> \in slots => owner[h] \notin gone

Anchors ==
  Keeps = "threads" =>
    \A h \in Handles : Known(h) =>
      /\ Sound(h)
      /\ h \in kept \/ <<"user", h>> \in slots
      /\ owner[h] \in Coros => owner[h] \in kept \/ <<"thread", h>> \in slots

Collected ==
  /\ \A c \in Coros : co[c] \in {"fresh", "running", "parked"} \/ callback = c => c \notin gone
  /\ \A h \in Handles : hstate[h] = "none" => h \notin gone
  /\ kept \cap gone = {}

Ready == CallbackReady /\ StartedReady

Inv == TypeOK /\ Ready /\ ThreadSlots /\ Released /\ HeldAlive /\ Anchors /\ Collected

(***************************************************************************)
(* The handles that are safe whatever references the program keeps: the    *)
(* listening sockets, which are anchored with their thread from the start. *)
(***************************************************************************)
ListenersAlive == \A h \in Handles : Type[h] = "tcp" /\ Known(h) => Sound(h)

\* Everything holds before the program has made a handle.
LEMMA Initial == Init => Inv
  BY CallbackActors, CallbackTypes
     DEF Init, Inv, TypeOK, Ready, CallbackReady, StartedReady, ThreadSlots, Known,
         Released, HeldAlive, Anchors, Collected, Actors

\* The variables stay in their types.
LEMMA TypingStep == TypeOK /\ Next => TypeOK'
<1> SUFFICES ASSUME TypeOK, Next PROVE TypeOK'
  OBVIOUS
<1> USE CallbackActors, CallbackTypes DEF TypeOK, Actors, Goes, Others
<1>1. CASE \E l \in Actors, h \in Handles : Call(l, h)
  <2> PICK l \in Actors, h \in Handles : Call(l, h)
    BY <1>1
  <2>1. CASE TimerNew(l, h) \/ Spawn(l, h) \/ TcpNew(l, h)
    BY <2>1 DEF TimerNew, Spawn, TcpNew, Created
  <2>2. CASE TimerStart(l, h)
    BY <2>2 DEF TimerStart
  <2>3. CASE TimerStartFails(l, h) \/ TimerStop(l, h) \/ TimerAgain(l, h)
    BY <2>3 DEF TimerStartFails, TimerStop, TimerAgain
  <2>4. CASE SpawnFails(l, h)
    BY <2>4 DEF SpawnFails
  <2>5. CASE Listen(l, h) \/ Accept(l, h)
    BY <2>5 DEF Listen, Accept
  <2>6. CASE Close(l, h)
    BY <2>6 DEF Close
  <2> QED
    BY <2>1, <2>2, <2>3, <2>4, <2>5, <2>6 DEF Call, TimerCall
<1>2. CASE \E h \in Handles : TimerCb(h) \/ ExitCb(h) \/ ConnectionCb(h)
  <2> PICK h \in Handles : TimerCb(h) \/ ExitCb(h) \/ ConnectionCb(h)
    BY <1>2
  <2> QED
    BY DEF TimerCb, ExitCb, ConnectionCb, Calls
<1>3. CASE \E h \in Handles : CloseCb(h)
  BY <1>3 DEF CloseCb
<1>4. CASE \E c \in Coros : Start(c) \/ Leave(c) \/ Resume(c)
  BY <1>4 DEF Start, Leave, Resume
<1>5. CASE Return \/ (\E x \in kept : Forget(x)) \/ (\E x \in Coros \cup Handles : Collect(x))
  BY <1>5 DEF Return, Forget, Collect
<1> QED
  BY <1>1, <1>2, <1>3, <1>4, <1>5 DEF Next

\* Neither the thread that runs nor the main thread has been collected.
LEMMA RunnerAlive ==
  ASSUME Inv, NEW l \in Actors, Runs(l)
  PROVE  l \notin gone
  BY CallbackActors DEF Inv, TypeOK, Collected, Runs, Actors

\* What has been collected stays out of what runs and of what the program keeps.
LEMMA CollectedStep == Inv /\ Next => Collected'
<1> SUFFICES ASSUME Inv, Next PROVE Collected'
  OBVIOUS
<1> USE CallbackActors DEF Inv, TypeOK, Collected, Goes, Others, Actors
<1>1. CASE \E l \in Actors, h \in Handles : Call(l, h)
  <2> PICK l \in Actors, h \in Handles : Call(l, h)
    BY <1>1
  <2>1. CASE TimerNew(l, h) \/ Spawn(l, h) \/ TcpNew(l, h)
    <3>1. Runs(l) /\ hstate[h] = "none" /\ UNCHANGED <<co, callback, gone>>
          /\ kept' = kept \cup ({l, h} \ {Main})
          /\ \E s : hstate' = [hstate EXCEPT ![h] = s] /\ s # "none"
      BY <2>1 DEF TimerNew, Spawn, TcpNew, Created
    <3> QED
      BY <3>1, RunnerAlive
  <2>2. CASE TimerStart(l, h) \/ TimerStartFails(l, h) \/ TimerStop(l, h) \/ TimerAgain(l, h)
    BY <2>2 DEF TimerStart, TimerStartFails, TimerStop, TimerAgain
  <2>3. CASE SpawnFails(l, h) \/ Listen(l, h) \/ Accept(l, h) \/ Close(l, h)
    BY <2>3 DEF SpawnFails, Listen, Accept, Close
  <2> QED
    BY <2>1, <2>2, <2>3 DEF Call, TimerCall
<1>2. CASE \E h \in Handles : TimerCb(h) \/ ExitCb(h) \/ ConnectionCb(h) \/ CloseCb(h)
  BY <1>2 DEF TimerCb, ExitCb, ConnectionCb, Calls, CloseCb, Sound
<1>3. CASE Return \/ \E c \in Coros : Start(c) \/ Leave(c) \/ Resume(c)
  BY <1>3 DEF Return, Start, Leave, Resume
<1>4. CASE \E x \in kept : Forget(x)
  BY <1>4 DEF Forget
<1>5. CASE \E x \in Coros \cup Handles : Collect(x)
  BY <1>5 DEF Collect, Reachable, Known
<1> QED
  BY <1>1, <1>2, <1>3, <1>4, <1>5 DEF Next

\* The steps of the program and of the collector that leave the handles alone.
LEMMA IdleStep ==
  ASSUME Inv, UNCHANGED Others, kept \subseteq kept', UNCHANGED gone
  PROVE  Ready' /\ ThreadSlots' /\ Released' /\ HeldAlive' /\ Anchors'
  BY DEF Inv, Others, Ready, CallbackReady, StartedReady, ThreadSlots, Known, Released,
         HeldAlive, Anchors, Sound

\* A call of the program.
LEMMA CallStep ==
  ASSUME Inv, NEW l \in Actors, NEW h \in Handles, Call(l, h)
  PROVE  Ready' /\ ThreadSlots' /\ Released' /\ HeldAlive' /\ Anchors'
<1> USE CallbackActors, CallbackTypes
    DEF Inv, TypeOK, Goes, Ready, CallbackReady, StartedReady, ThreadSlots, Known, Released,
        HeldAlive, Anchors, Collected, Sound, Actors
<1>1. CASE TimerNew(l, h)
  BY <1>1, RunnerAlive DEF TimerNew, Created
<1>2. CASE TimerStart(l, h)
  BY <1>2 DEF TimerStart, Uses
<1>3. CASE TimerStartFails(l, h)
  BY <1>3 DEF TimerStartFails, Uses
<1>4. CASE TimerStop(l, h)
  BY <1>4 DEF TimerStop, Uses
<1>5. CASE TimerAgain(l, h)
  BY <1>5 DEF TimerAgain, Uses
<1>6. CASE Spawn(l, h)
  <2>1. l \notin gone /\ h \notin gone
    BY <1>6, RunnerAlive DEF Spawn, Created
  <2>2. Ready' /\ ThreadSlots' /\ Released'
    BY <1>6 DEF Spawn, Created
  <2>3. HeldAlive'
    BY <1>6, <2>1 DEF Spawn, Created
  <2>4. Anchors'
    BY <1>6, <2>1 DEF Spawn, Created
  <2> QED
    BY <2>2, <2>3, <2>4
<1>7. CASE SpawnFails(l, h)
  BY <1>7 DEF SpawnFails
<1>8. CASE TcpNew(l, h)
  BY <1>8, RunnerAlive DEF TcpNew, Created
<1>9. CASE Listen(l, h)
  BY <1>9 DEF Listen, Uses
<1>10. CASE Accept(l, h)
  BY <1>10 DEF Accept, Uses
<1>11. CASE Close(l, h)
  BY <1>11 DEF Close, Uses
<1> QED
  BY <1>1, <1>2, <1>3, <1>4, <1>5, <1>6, <1>7, <1>8, <1>9, <1>10, <1>11 DEF Call, TimerCall

\* A callback that runs a function of the program.
LEMMA CallbackStep ==
  ASSUME Inv, NEW h \in Handles, TimerCb(h) \/ ExitCb(h) \/ ConnectionCb(h)
  PROVE  Ready' /\ ThreadSlots' /\ Released' /\ HeldAlive' /\ Anchors'
  BY CallbackTypes
     DEF TimerCb, ExitCb, ConnectionCb, Calls, Inv, TypeOK, Ready, CallbackReady, StartedReady,
         ThreadSlots, Known, Released, HeldAlive, Anchors, Sound

\* close_cb takes the handle out of the registry, and leaves the others alone.
LEMMA CloseCbStep ==
  ASSUME Inv, NEW h \in Handles, CloseCb(h)
  PROVE  Ready' /\ ThreadSlots' /\ Released' /\ HeldAlive' /\ Anchors'
<1>1. slots \cap ({"user", "cb", "thread"} \X {h}) \cap slots' = {}
  BY CallbackTypes DEF CloseCb, CleanTimer, CleanProcess, CleanTcp, Inv, ThreadSlots
<1>2. slots' \subseteq slots
  BY DEF CloseCb
<1>3. \A k \in Handles \ {h}, s \in {"user", "cb", "thread"} : <<s, k>> \in slots <=> <<s, k>> \in slots'
  BY CallbackTypes DEF CloseCb, CleanTimer, CleanProcess, CleanTcp
<1>4. hstate'[h] = "closed" /\ \A k \in Handles \ {h} : hstate'[k] = hstate[k]
  BY DEF CloseCb, Inv, TypeOK
<1>5. UNCHANGED <<owner, started, kept, gone>>
  BY DEF CloseCb
<1>6. Ready'
  <2>1. \A k \in Handles : {<<"cb", k>>, <<"user", k>>} \subseteq slots /\ hstate'[k] # "closed"
                          => {<<"cb", k>>, <<"user", k>>} \subseteq slots'
    BY <1>3, <1>4
  <2>2. started \subseteq Handles
    BY DEF Inv, TypeOK
  <2>3. CallbackReady'
    BY <1>4, <2>1 DEF Inv, Ready, CallbackReady
  <2>4. StartedReady'
    BY <1>4, <1>5, <2>1, <2>2 DEF Inv, Ready, StartedReady
  <2> QED
    BY <2>3, <2>4 DEF Ready
<1>7. ThreadSlots'
  BY <1>2, <1>3, <1>4 DEF Inv, ThreadSlots, Known
<1>8. Released'
  BY <1>1, <1>2, <1>3, <1>4 DEF Inv, Released
<1>9. Anchors'
  BY <1>3, <1>4, <1>5 DEF Inv, Anchors, Known, Sound
<1>10. HeldAlive'
  BY <1>2, <1>4, <1>5 DEF Inv, HeldAlive, Known
<1> QED
  BY <1>6, <1>7, <1>8, <1>9, <1>10

\* What the program may let go of is held by the registry.
LEMMA ForgetStep ==
  ASSUME Inv, NEW x \in kept, Forget(x)
  PROVE  Ready' /\ ThreadSlots' /\ Released' /\ HeldAlive' /\ Anchors'
<1>1. Ready' /\ ThreadSlots' /\ Released'
  BY DEF Forget, Others, Inv, Ready, CallbackReady, StartedReady, ThreadSlots, Known, Released
<1>2. Anchors'
  BY CallbackActors, CallbackTypes
     DEF Forget, MayForget, Others, Inv, TypeOK, ThreadSlots, Anchors, Known, Sound
<1>3. HeldAlive'
  BY DEF Forget, Others, Inv, HeldAlive, Known
<1> QED
  BY <1>1, <1>2, <1>3

\* With a program that keeps its side, nothing libuv knows can be collected.
LEMMA CollectStep ==
  ASSUME Inv, NEW x \in Coros \cup Handles, Collect(x)
  PROVE  Ready' /\ ThreadSlots' /\ Released' /\ HeldAlive' /\ Anchors'
<1>1. Ready' /\ ThreadSlots' /\ Released'
  BY DEF Collect, Others, Inv, Ready, CallbackReady, StartedReady, ThreadSlots, Known, Released
<1>2. ASSUME Keeps = "threads", NEW h \in Handles, Known(h)
      PROVE  x # h /\ x # owner[h]
  <2>1. CASE x = h
    BY <1>2, <2>1 DEF Collect, Reachable, Inv, Anchors
  <2>2. CASE x = owner[h]
    <3>1. x \in Coros
      BY <2>2, CallbackActors DEF Inv, TypeOK, Actors
    <3> QED
      BY <1>2, <2>2, <3>1 DEF Collect, Reachable, Inv, Anchors
  <2> QED
    BY <2>1, <2>2
<1>3. Anchors'
  BY <1>2 DEF Collect, Others, Inv, Anchors, Known, Sound
<1>4. HeldAlive'
  <2>1. ASSUME NEW h \in Handles, Known(h), <<"thread", h>> \in slots
        PROVE  x # owner[h]
    <3>1. owner[h] \in Coros => Reachable(owner[h])
      BY <2>1 DEF Reachable
    <3> QED
      BY <3>1, CallbackActors DEF Collect, Inv, TypeOK, Actors
  <2>2. ASSUME NEW h \in Handles, <<"user", h>> \in slots
        PROVE  x # h
    BY <2>2 DEF Collect, Reachable
  <2> QED
    BY <2>1, <2>2 DEF Collect, Others, Inv, HeldAlive, Known
<1> QED
  BY <1>1, <1>3, <1>4

\* Every step keeps the invariant.
LEMMA Steps == Inv /\ [Next]_vars => Inv'
<1> SUFFICES ASSUME Inv, [Next]_vars PROVE Inv'
  OBVIOUS
<1>1. CASE UNCHANGED vars
  BY <1>1 DEF vars, Inv, TypeOK, Ready, CallbackReady, StartedReady, ThreadSlots, Known,
              Known, Sound, Released, HeldAlive, Anchors, Collected
<1>2. CASE Next
  <2>1. TypeOK'
    BY <1>2, TypingStep DEF Inv
  <2>2. Ready' /\ ThreadSlots' /\ Released' /\ HeldAlive' /\ Anchors'
    <3>1. CASE \E l \in Actors, h \in Handles : Call(l, h)
      BY <3>1, CallStep
    <3>2. CASE \E h \in Handles : TimerCb(h) \/ ExitCb(h) \/ ConnectionCb(h)
      BY <3>2, CallbackStep
    <3>3. CASE \E h \in Handles : CloseCb(h)
      BY <3>3, CloseCbStep
    <3>4. CASE Return \/ \E c \in Coros : Start(c) \/ Leave(c) \/ Resume(c)
      <4>1. UNCHANGED Others /\ kept \subseteq kept' /\ UNCHANGED gone
        BY <3>4 DEF Return, Start, Leave, Resume
      <4> QED
        BY <4>1, IdleStep
    <3>5. CASE \E x \in kept : Forget(x)
      BY <3>5, ForgetStep
    <3>6. CASE \E x \in Coros \cup Handles : Collect(x)
      BY <3>6, CollectStep
    <3> QED
      BY <1>2, <3>1, <3>2, <3>3, <3>4, <3>5, <3>6 DEF Next
  <2>3. Collected'
    BY <1>2, CollectedStep
  <2> QED
    BY <2>1, <2>2, <2>3 DEF Inv
<1> QED
  BY <1>1, <1>2

\* The invariant holds of every execution.
THEOREM Invariance == Spec => []Inv
  BY Initial, Steps, PTL DEF Spec

\* Type correctness.
THEOREM Typing == Spec => []TypeOK
<1>1. Inv => TypeOK
  BY DEF Inv
<1> QED
  BY <1>1, Invariance, PTL

\* No callback of a timer, a process or a listening socket finds its slots empty.
THEOREM CallbacksReady == Spec => []CallbackReady
<1>1. Inv => CallbackReady
  BY DEF Inv, Ready
<1> QED
  BY <1>1, Invariance, PTL

\* With a program that keeps the threads of its timers and processes, libuv knows
\* of no handle and no thread that has been collected.
THEOREM Alive == Spec => []TargetsAlive
<1>1. Inv => TargetsAlive
  BY DEF Inv, Anchors, TargetsAlive, Sound
<1> QED
  BY <1>1, Invariance, PTL

\* Whatever references the program keeps or drops, libuv has neither the address of
\* a listening socket nor that of its thread after they have been collected: the
\* two slots that tcp_new fills (src/tcp.c:29) hold them until close_cb.
THEOREM ListenersHeld == Spec => []ListenersAlive
<1>1. Inv => ListenersAlive
  BY DEF Inv, ThreadSlots, HeldAlive, ListenersAlive, Sound
<1> QED
  BY <1>1, Invariance, PTL

\* Closing empties the slots of a handle, for good.
THEOREM AllReleased == Spec => []Released
<1>1. Inv => Released
  BY DEF Inv
<1> QED
  BY <1>1, Invariance, PTL
=============================================================================
