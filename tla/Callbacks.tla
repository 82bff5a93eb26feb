----------------------------- MODULE Callbacks -----------------------------
(***************************************************************************)
(* The handles that call a Lua function of the program: timers (timer.c),  *)
(* processes (process.c) and listening sockets (stream.c: listen, accept), *)
(* with their closing (handle.c).                                          *)
(*                                                                         *)
(* The callbacks of CouvIo resume a coroutine; these run a function, with  *)
(* lua_call, on the stack of handle->data, which is the thread that made   *)
(* the handle, whether that thread is suspended, has ended or is running   *)
(* uv.run().  libuv has only the addresses of the handle and of the        *)
(* thread.  What keeps the two, and the function, from being collected are *)
(* slots of the registry, and the references the program has.              *)
(***************************************************************************)
EXTENDS FiniteSets

CONSTANTS
  Coros,    \* the Lua coroutines of the program
  Main,     \* the main Lua thread, which runs uv.run()
  Handles,  \* the handles the program may create
  Type,     \* the libuv type of each handle
  Nil,      \* no thread
  Keeps     \* "threads" or "nothing": which references the program keeps; see MayForget

ASSUME CallbackActors ==
  /\ Main \notin Coros
  /\ Nil \notin Coros \cup {Main}
  /\ Handles \cap (Coros \cup {Main, Nil}) = {}

ASSUME CallbackTypes ==
  /\ Type \in [Handles -> {"timer", "process", "tcp"}]
  /\ Keeps \in {"threads", "nothing"}

VARIABLES
  co,        \* co[c]: status of a coroutine; see TypeOK
  callback,  \* the thread whose stack the callback of libuv under way runs on
  hstate,    \* hstate[h]: life cycle of the handle in libuv
  owner,     \* owner[h]: handle->data
  slots,     \* the occupied slots COUV_USERDATA_, COUV_THREAD_ and COUV_*_CB_REG_KEY
  started,   \* the timers that have had a successful start
  pending,   \* the listeners with a connection to be accepted
  kept,      \* the coroutines and handles the program has references to
  gone       \* the coroutines and handles that have been collected

vars == <<co, callback, hstate, owner, slots, started, pending, kept, gone>>

Actors == Coros \cup {Main}

\* A coroutine is "yielded" in a close, and "parked" in any other call of couv,
\* which has the coroutine anchored (CallbackTargetsAnchored of CouvIo).
TypeOK ==
  /\ co \in [Coros -> {"fresh", "running", "yielded", "parked", "dead"}]
  /\ callback \in Actors \cup {Nil}
  /\ hstate \in [Handles -> {"none", "idle", "active", "closing", "closed",
                         "failed", "refused"}]
  /\ owner \in [Handles -> Actors \cup {Nil}]
  /\ slots \subseteq {"user", "cb", "thread"} \X Handles
  /\ started \subseteq {h \in Handles : Type[h] = "timer"}
  /\ pending \subseteq {h \in Handles : Type[h] = "tcp"}
  /\ kept \subseteq Coros \cup Handles
  /\ gone \subseteq Coros \cup Handles

Init ==
  /\ co = [c \in Coros |-> "fresh"]
  /\ callback = Nil
  /\ hstate = [h \in Handles |-> "none"]
  /\ owner = [h \in Handles |-> Nil]
  /\ slots = {} /\ started = {} /\ pending = {}
  /\ kept = {} /\ gone = {}

(***************************************************************************)
(* Who runs.  A callback runs on the stack of the owner of its handle; it  *)
(* may start coroutines (coroutine.wrap), which run on their own.          *)
(***************************************************************************)
NoCoroutine == \A c \in Coros : co[c] # "running"

LoopIdle == NoCoroutine /\ callback = Nil

\* l is the lua_State of the C function that is called
Runs(l) ==
  IF l \in Coros /\ co[l] = "running" THEN TRUE
    ELSE NoCoroutine /\ l = IF callback = Nil THEN Main ELSE callback

\* The program passes couv handles that it has references to and has not closed.
Uses(l, h) == Runs(l) /\ h \in kept /\ hstate[h] \in {"idle", "active"}

\* What libuv has the address of and will use.  Whether it goes on to list a
\* process it has refused is left to libuv: couv keeps nothing alive for that.
Known(h) == hstate[h] \in {"idle", "active", "closing"}

Sound(h) == h \notin gone /\ owner[h] \notin gone

\* A step that leaves the threads and what is collected alone.
Goes == UNCHANGED <<co, callback, gone>>

\* Faulty variant: handle->data = handle.
CreatedOwnedByItself(l, h, s) ==
  /\ hstate' = [hstate EXCEPT ![h] = s]
  /\ owner' = [owner EXCEPT ![h] = h]
  /\ kept' = kept \cup ({l, h} \ {Main})
  /\ Goes

\* handle->data = L, and the handle is put on the stack of l
Created(l, h, s) ==
  /\ hstate' = [hstate EXCEPT ![h] = s]
  /\ owner' = [owner EXCEPT ![h] = l]
  /\ kept' = kept \cup ({l, h} \ {Main})
  /\ Goes
----------------------------------------------------------------------------
(***************************************************************************)
(* Timers.  Whether a timer has a repeat interval, which start and         *)
(* setRepeat set, is left open: it may have one when it is asked for.      *)
(***************************************************************************)
\* the userdata of a new timer is in no slot yet
TimerNew(l, h) ==
  /\ Runs(l) /\ Type[h] = "timer" /\ hstate[h] = "none"
  /\ Created(l, h, "idle")
  /\ UNCHANGED <<slots, started, pending>>

\* The function goes to its slot, libuv starts the timer, the userdata goes to
\* its slot.
TimerStart(l, h) ==
  /\ Type[h] = "timer" /\ Uses(l, h)
  /\ hstate' = [hstate EXCEPT ![h] = "active"]
  /\ slots' = slots \cup {<<"cb", h>>, <<"user", h>>}
  /\ started' = started \cup {h}
  /\ Goes /\ UNCHANGED <<owner, pending, kept>>

\* a timeout or interval that is no number raises between the two
TimerStartFails(l, h) ==
  /\ Type[h] = "timer" /\ Uses(l, h)
  /\ slots' = slots \cup {<<"cb", h>>}
  /\ Goes /\ UNCHANGED <<hstate, owner, started, pending, kept>>

\* Faulty variant: what is stopped is taken out of the registry.
TimerStopCleans(l, h) ==
  /\ Type[h] = "timer" /\ Uses(l, h)
  /\ hstate' = [hstate EXCEPT ![h] = "idle"]
  /\ slots' = slots \ {<<"cb", h>>, <<"user", h>>}
  /\ Goes /\ UNCHANGED <<owner, started, pending, kept>>

TimerStop(l, h) ==
  /\ Type[h] = "timer" /\ Uses(l, h)
  /\ hstate' = [hstate EXCEPT ![h] = "idle"]
  /\ Goes /\ UNCHANGED <<owner, slots, started, pending, kept>>

\* EINVAL for a timer that was never started; nothing without an interval
TimerAgain(l, h) ==
  /\ Type[h] = "timer" /\ Uses(l, h)
  /\ h \in started
  /\ hstate' = [hstate EXCEPT ![h] = "active"]
  /\ Goes /\ UNCHANGED <<owner, slots, started, pending, kept>>

\* lua_call of the function in the slot, with the userdata, on the stack of
\* handle->data
Calls(h) ==
  /\ LoopIdle /\ hstate[h] = "active" /\ Sound(h)
  /\ callback' = owner[h]
  /\ kept' = kept \cup {h}
  /\ UNCHANGED <<co, owner, slots, started, gone>>

TimerCb(h) ==
  /\ Type[h] = "timer"
  /\ Calls(h)
  /\ \E s \in {"active", "idle"} : hstate' = [hstate EXCEPT ![h] = s]
  /\ UNCHANGED pending
----------------------------------------------------------------------------
(***************************************************************************)
(* Processes.                                                              *)
(***************************************************************************)
Spawn(l, h) ==
  /\ Runs(l) /\ Type[h] = "process" /\ hstate[h] = "none"
  /\ Created(l, h, "active")
  /\ slots' = slots \cup {<<"cb", h>>, <<"user", h>>}
  /\ UNCHANGED <<started, pending>>

\* The caller gets no handle: an option is invalid, or libuv, which may list the
\* handle in its loop by then, refuses the process when the exit callback is in its
\* slot already, but the userdata and handle->data are not set.
SpawnFails(l, h) ==
  /\ Runs(l) /\ Type[h] = "process" /\ hstate[h] = "none"
  /\ \/ /\ hstate' = [hstate EXCEPT ![h] = "failed"]
        /\ UNCHANGED slots
     \/ /\ hstate' = [hstate EXCEPT ![h] = "refused"]
        /\ slots' = slots \cup {<<"cb", h>>}
  /\ Goes /\ UNCHANGED <<owner, started, pending, kept>>

\* the child has ended, or could not execute its program
ExitCb(h) ==
  /\ Type[h] = "process"
  /\ Calls(h)
  /\ hstate' = [hstate EXCEPT ![h] = "idle"]
  /\ UNCHANGED pending
----------------------------------------------------------------------------
(***************************************************************************)
(* Listening sockets.                                                      *)
(***************************************************************************)
\* Faulty variant: the coroutine is not anchored.
TcpNewUnanchored(c, h) ==
  /\ c \in Coros /\ Runs(c)
  /\ Type[h] = "tcp" /\ hstate[h] = "none"
  /\ Created(c, h, "idle")
  /\ slots' = slots \cup {<<"user", h>>}
  /\ UNCHANGED <<started, pending>>

\* only coroutines create them, and are anchored
TcpNew(c, h) ==
  /\ c \in Coros /\ Runs(c)
  /\ Type[h] = "tcp" /\ hstate[h] = "none"
  /\ Created(c, h, "idle")
  /\ slots' = slots \cup {<<"user", h>>, <<"thread", h>>}
  /\ UNCHANGED <<started, pending>>

\* the function goes to its slot even if libuv then refuses to listen
Listen(l, h) ==
  /\ Type[h] = "tcp" /\ Uses(l, h)
  /\ \/ /\ hstate' = [hstate EXCEPT ![h] = "active"]
        /\ slots' = slots \cup {<<"cb", h>>, <<"user", h>>}
     \/ /\ slots' = slots \cup {<<"cb", h>>}
        /\ UNCHANGED hstate
  /\ Goes /\ UNCHANGED <<owner, started, pending, kept>>

\* a connection to be accepted, or an error; libuv waits for the acceptance
ConnectionCb(h) ==
  /\ Type[h] = "tcp" /\ h \notin pending
  /\ Calls(h)
  /\ pending' \in {pending, pending \cup {h}}
  /\ UNCHANGED hstate

\* The connection goes to a stream of CouvIo, and libuv looks for the next; an
\* error if there is none.
Accept(l, h) ==
  /\ Type[h] = "tcp" /\ Uses(l, h) /\ h \in pending
  /\ pending' = pending \ {h}
  /\ Goes /\ UNCHANGED <<hstate, owner, slots, started, kept>>
----------------------------------------------------------------------------
(***************************************************************************)
(* Closing.  The main thread, and so a callback on its stack, returns at   *)
(* once; a coroutine is suspended.  A callback on the stack of a coroutine *)
(* can do neither: lua_yield raises an error in the middle of uv.run(),    *)
(* and libuv is not in a state to go on (test/test-spawn.lua:37 notes the  *)
(* effects).  A program closes in a coroutine of its own then, and closes  *)
(* what it can: an open handle, once.                                      *)
(***************************************************************************)
Close(l, h) ==
  /\ Uses(l, h)
  /\ hstate' = [hstate EXCEPT ![h] = "closing"]
  /\ pending' = pending \ {h}
  /\ \/ l = Main /\ UNCHANGED co
     \/ l \in Coros /\ co[l] = "running" /\ co' = [co EXCEPT ![l] = "yielded"]
  /\ UNCHANGED <<callback, owner, slots, started, kept, gone>>

\* Faulty variant: the function stays in its slot.
CleanTimerKeepsCb(h) == {"user"} \X {h}

CleanTimer(h)   == {"user", "cb"} \X {h}
CleanProcess(h) == {"user", "cb"} \X {h}
CleanTcp(h)     == {"user", "cb", "thread"} \X {h}

\* the slots are emptied, and the owner resumed if it is suspended in anything
CloseCb(h) ==
  /\ LoopIdle /\ hstate[h] = "closing" /\ Sound(h)
  /\ hstate' = [hstate EXCEPT ![h] = "closed"]
  /\ slots' = slots \ CASE Type[h] = "timer"   -> CleanTimer(h)
                        [] Type[h] = "process" -> CleanProcess(h)
                        [] Type[h] = "tcp"     -> CleanTcp(h)
  /\ co' = [c \in Coros |->
              IF c = owner[h] /\ co[c] \in {"yielded", "parked"} THEN "running" ELSE co[c]]
  /\ UNCHANGED <<callback, owner, started, pending, kept, gone>>
----------------------------------------------------------------------------
(***************************************************************************)
(* The program, and the collector.                                         *)
(***************************************************************************)
Others == <<hstate, owner, slots, started, pending>>

Start(c) ==
  /\ NoCoroutine /\ co[c] = "fresh"
  /\ co' = [co EXCEPT ![c] = "running"]
  /\ kept' = kept \cup {c}
  /\ UNCHANGED <<callback, gone>> /\ UNCHANGED Others

\* the coroutine returns, fails, or is suspended in another call of couv
Leave(c) ==
  /\ co[c] = "running"
  /\ \E s \in {"dead", "parked"} : co' = [co EXCEPT ![c] = s]
  /\ UNCHANGED <<callback, kept, gone>> /\ UNCHANGED Others

\* a callback of another module resumes it
Resume(c) ==
  /\ LoopIdle /\ co[c] = "parked"
  /\ co' = [co EXCEPT ![c] = "running"]
  /\ UNCHANGED <<callback, kept, gone>> /\ UNCHANGED Others

\* the function called by timer_cb, exit_cb or connection_cb returns
Return ==
  /\ NoCoroutine /\ callback # Nil
  /\ callback' = Nil
  /\ UNCHANGED <<co, kept, gone>> /\ UNCHANGED Others

\* The program's side of the bargain, with Keeps = "threads": a handle that the
\* registry does not hold yet is kept until it is closed, and a coroutine while a
\* timer or process made on it is not closed.
MayForget(x) ==
  Keeps = "threads" =>
    /\ x \in Handles /\ Known(x) => <<"user", x>> \in slots
    /\ \A h \in Handles : owner[h] = x /\ Type[h] # "tcp" => ~Known(h)

Forget(x) ==
  /\ x \in kept /\ MayForget(x)
  /\ kept' = kept \ {x}
  /\ UNCHANGED <<co, callback, gone>> /\ UNCHANGED Others

\* What the collector finds: the running threads, the coroutines anchored by
\* a slot and the handles in one, and what the program has references to.
Reachable(x) ==
  \/ x \in kept
  \/ x \in Handles /\ <<"user", x>> \in slots
  \/ x \in Coros /\ \/ co[x] \in {"fresh", "running", "parked"}
                    \/ callback = x
                    \/ \E h \in Handles : owner[h] = x /\ <<"thread", h>> \in slots

\* Whether a handle that libuv has no use for is collected makes no difference.
Collect(x) ==
  /\ x \notin gone /\ ~Reachable(x)
  /\ x \in Coros \cup {h \in Handles : Known(h)}
  /\ gone' = gone \cup {x}
  /\ UNCHANGED <<co, callback, kept>> /\ UNCHANGED Others

TimerCall(l, h) ==
  \/ TimerNew(l, h) \/ TimerStart(l, h) \/ TimerStartFails(l, h)
  \/ TimerStop(l, h) \/ TimerAgain(l, h)

Call(l, h) ==
  \/ TimerCall(l, h)
  \/ Spawn(l, h) \/ SpawnFails(l, h)
  \/ TcpNew(l, h) \/ Listen(l, h) \/ Accept(l, h)
  \/ Close(l, h)

Next ==
  \/ \E l \in Actors, h \in Handles : Call(l, h)
  \/ \E h \in Handles : TimerCb(h) \/ ExitCb(h) \/ ConnectionCb(h) \/ CloseCb(h)
  \/ \E c \in Coros : Start(c) \/ Leave(c) \/ Resume(c)
  \/ Return
  \/ \E x \in kept : Forget(x)
  \/ \E x \in Coros \cup Handles : Collect(x)

Spec == Init /\ [][Next]_vars
----------------------------------------------------------------------------
\* Whatever may call back has its function and its userdata in the registry: no
\* callback finds nil where it calls a function, however start, stop, again,
\* listen and close have been mixed, in callbacks or outside, with success or
\* without (src/timer.c:41, src/process.c:65, src/stream.c:16).
CallbackReady ==
  \A h \in Handles : hstate[h] = "active" => {<<"cb", h>>, <<"user", h>>} \subseteq slots

\* If the program keeps its side, libuv never has the address of a handle that
\* has been collected, nor of a thread: not of a suspended one, of one that has
\* ended, or of one that only a callback on its stack has made a handle on.  A
\* process that was refused is excepted, see Known (src/timer.c:37, src/process.c:196, src/tcp.c:29, src/handle.c:7).
TargetsAlive == Keeps = "threads" => \A h \in Handles : Known(h) => Sound(h)

\* The exit callback of a process is called on a thread that has not been
\* collected, if the handle has not been.
ExitFindsItsThread ==
  \A h \in Handles :
    Type[h] = "process" /\ hstate[h] = "active" /\ h \notin gone => owner[h] \notin gone

\* A closed handle leaves nothing in the registry, so that its memory, its
\* function and its thread can go (src/timer.c:16, src/process.c:16, src/tcp.c:24).
Released ==
  \A h \in Handles : hstate[h] = "closed" => slots \cap ({"user", "cb", "thread"} \X {h}) = {}
=============================================================================
