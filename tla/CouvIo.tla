------------------------------- MODULE CouvIo -------------------------------
(***************************************************************************)
(* The I/O core of couv: how coroutines, libuv handles, pending requests   *)
(* and the callbacks of the event loop interact (handle.c, stream.c,       *)
(* tcp.c, pipe.c, udp.c, tty.c, and getaddrinfo and sleep of couv.c, with  *)
(* the Lua wrappers of couv.lua around them).                              *)
(*                                                                         *)
(* A coroutine that starts an operation yields, and the callback of libuv  *)
(* resumes it.  The callback does not know which operation it is answering *)
(* for: it resumes handle->data, the coroutine that created the handle,    *)
(* and a resumed coroutine returns from whatever it was suspended in.      *)
(* This module keeps exactly that: what each coroutine is suspended in,    *)
(* whom each callback resumes, and the input queues that reads consume.    *)
(***************************************************************************)
EXTENDS Naturals, Sequences, FiniteSets

CONSTANTS
  Coros,       \* the Lua coroutines of the program
  Main,        \* the main Lua thread, which runs uv.run()
  Handles,     \* the handles the program may create
  Type,        \* the libuv type of each handle
  Reqs,        \* the heap blocks that hold requests and sleep timers
  Nil,         \* NULL
  MaxInput,    \* bound: how often libuv delivers input to each handle
  Discipline   \* which programs are considered; see MayUse and MayAwait

StreamTypes == {"tcp", "pipe", "tty"}
HandleTypes == StreamTypes \cup {"udp"}

ASSUME ActorsAssumption ==
  /\ Main \notin Coros
  /\ Nil \notin Coros \cup {Main} \cup Handles \cup Reqs
  /\ Handles \cap Reqs = {}

ASSUME ParametersAssumption ==
  /\ Type \in [Handles -> HandleTypes]
  /\ MaxInput \in [Handles -> Nat]
  /\ Discipline \in {"any", "own", "quiet"}

VARIABLES
  co,       \* co[c]: lua_status of a coroutine, with fresh, running and dead apart
  wait,     \* wait[c]: the C call a yielded coroutine is suspended in
  hstate,   \* hstate[h]: life cycle of the handle
  owner,    \* owner[h]: handle->data
  opened,   \* opened[h]: who created h, once tcp_open has changed its owner (history)
  reading,  \* reading[h]: libuv watches the handle for input
  input,    \* input[h]: hdata->input_queue
  recvd,    \* recvd[h]: number of inputs libuv delivered (history)
  taken,    \* taken[h]: the inputs that read, read2 and recv returned (history)
  thread,   \* thread[k]: the registry slot COUV_THREAD_REG_KEY(k)
  slots,    \* the occupied slots COUV_USERDATA_REG_KEY and COUV_LISTEN_CB_REG_KEY
  req       \* req[r]: the heap block r

vars == <<co, wait, hstate, owner, opened, reading, input, recvd, taken, thread, slots, req>>

Actors == Coros \cup {Main}

Suspended(on, of) == [on |-> on, of |-> of]
NoWait == Suspended("none", Nil)
Waits == [on : {"none", "read", "close", "req"}, of : Handles \cup Reqs \cup {Nil}]

HandleReqKinds == {"connect", "write", "shutdown", "send"}
ReqKinds == HandleReqKinds \cup {"getaddrinfo", "sleep"}
FreeBlock == [kind |-> "none", on |-> Nil, by |-> Nil, st |-> "free"]
Blocks == [kind : ReqKinds \cup {"none"}, on : Handles \cup {Nil},
           by : Coros \cup {Nil}, st : {"free", "pending", "closing", "leaked"}]

TypeOK ==
  /\ co \in [Coros -> {"fresh", "running", "yielded", "dead"}]
  /\ wait \in [Coros -> Waits]
  /\ hstate \in [Handles -> {"none", "open", "closing", "closed"}]
  /\ owner \in [Handles -> Actors \cup {Nil}]
  /\ opened \in [Handles -> Actors \cup {Nil}]
  /\ reading \in [Handles -> BOOLEAN]
  /\ input \in [Handles -> Seq(Nat)]
  /\ recvd \in [Handles -> Nat]
  /\ taken \in [Handles -> Seq(Nat)]
  /\ thread \in [Handles \cup Reqs -> Coros \cup {Nil}]
  /\ slots \subseteq {"user", "listen"} \X Handles
  /\ req \in [Reqs -> Blocks]

Init ==
  /\ co = [c \in Coros |-> "fresh"]
  /\ wait = [c \in Coros |-> NoWait]
  /\ hstate = [h \in Handles |-> "none"]
  /\ owner = [h \in Handles |-> Nil]
  /\ opened = [h \in Handles |-> Nil]
  /\ reading = [h \in Handles |-> FALSE]
  /\ input = [h \in Handles |-> <<>>]
  /\ recvd = [h \in Handles |-> 0]
  /\ taken = [h \in Handles |-> <<>>]
  /\ thread = [k \in Handles \cup Reqs |-> Nil]
  /\ slots = {}
  /\ req = [r \in Reqs |-> FreeBlock]

(***************************************************************************)
(* Who runs.  Lua is cooperative: the loop calls back, and the main thread *)
(* continues, only when no coroutine is running.                           *)
(***************************************************************************)
LoopIdle == \A c \in Coros : co[c] # "running"

Runs(l) == IF l = Main THEN LoopIdle ELSE co[l] = "running"

Yielded(l) == l \in Coros /\ co[l] = "yielded"

(***************************************************************************)
(* The discipline of the program, which couv leaves to its user:           *)
(*   "any"    a coroutine may use every handle;                            *)
(*   "own"    a handle is used only by the coroutine that created it;      *)
(*   "quiet"  moreover, a coroutine suspends itself in anything but a read *)
(*            only while none of its handles is being read from.           *)
(***************************************************************************)
MayUse(l, h) == Discipline # "any" => owner[h] = l

MayAwait(c, except) ==
  Discipline = "quiet" => \A h \in Handles \ except : owner[h] = c => ~reading[h]

(***************************************************************************)
(* Suspending and resuming.                                                *)
(***************************************************************************)
\* lua_yield from the C call that w describes
YieldIn(c, w) ==
  /\ co' = [co EXCEPT ![c] = "yielded"]
  /\ wait' = [wait EXCEPT ![c] = w]

\* the coroutine continues after the call it was suspended in
ReturnFromCall(c) ==
  /\ co' = [co EXCEPT ![c] = "running"]
  /\ wait' = [wait EXCEPT ![c] = NoWait]

\* ngx_queue_head and ngx_queue_remove: the head of queue q goes to the reader
TakeHead(h, q) ==
  /\ input' = [q EXCEPT ![h] = Tail(q[h])]
  /\ taken' = [taken EXCEPT ![h] = Append(@, Head(q[h]))]

Reading(c, h) == co[c] = "yielded" /\ wait[c] = Suspended("read", h)

\* couv_resume(l, l, nargs) while the input queues are q; value says whether the
\* first argument is there and not nil.  A thread that is not yielded is not
\* affected: lua_resume fails and its result is ignored.  A coroutine in a read
\* that is resumed without a value goes round the loop "repeat ... until nread"
\* of couv.lua and yields again if its queue is empty; it returns any value.
Resume(l, value, q) ==
  \/ /\ ~Yielded(l)
     /\ input' = q
     /\ UNCHANGED <<co, wait, taken>>
  \/ \E h \in Handles :
        /\ Yielded(l) /\ wait[l] = Suspended("read", h) /\ ~value
        /\ \/ /\ q[h] = <<>>
              /\ input' = q
              /\ UNCHANGED <<co, wait, taken>>
           \/ /\ q[h] # <<>>
              /\ ReturnFromCall(l)
              /\ TakeHead(h, q)
  \/ /\ Yielded(l)
     /\ wait[l].on = "read" => value
     /\ ReturnFromCall(l)
     /\ input' = q
     /\ UNCHANGED taken

\* Faulty variant: the callback queues its input and leaves the coroutine alone.
NeverResumed(l, q) == input' = q /\ UNCHANGED <<co, wait, taken>>

\* "if (lua_status(L) == LUA_YIELD) couv_resume(L, L, 0)"
ResumeIfYielded(l, q) == Resume(l, FALSE, q)

(***************************************************************************)
(* Creating handles.                                                       *)
(***************************************************************************)
\* Faulty variant: handle->data = handle.
InitHandleOwnedByItself(l, h) ==
  /\ hstate' = [hstate EXCEPT ![h] = "open"]
  /\ owner' = [owner EXCEPT ![h] = h]
  /\ input' = [input EXCEPT ![h] = <<>>]
  /\ slots' = slots \cup {<<"user", h>>}
  /\ UNCHANGED <<co, wait, opened, reading, recvd, taken, req>>

\* uv_*_init succeeds: handle->data = L, an empty input queue, and the userdata
\* in its registry slot.
InitHandle(l, h) ==
  /\ hstate' = [hstate EXCEPT ![h] = "open"]
  /\ owner' = [owner EXCEPT ![h] = l]
  /\ input' = [input EXCEPT ![h] = <<>>]
  /\ slots' = slots \cup {<<"user", h>>}
  /\ UNCHANGED <<co, wait, opened, reading, recvd, taken, req>>

\* Faulty variant: the creator of the handle is not anchored.
NewHandleUnanchored(c, h) ==
  /\ co[c] = "running"
  /\ hstate[h] = "none"
  /\ UNCHANGED thread
  /\ InitHandle(c, h)

NewHandle(c, h) ==
  /\ co[c] = "running"
  /\ hstate[h] = "none"
  /\ thread' = [thread EXCEPT ![h] = c]
  /\ InitHandle(c, h)

TcpNew(c, h) == Type[h] = "tcp" /\ NewHandle(c, h)
PipeNew(c, h) == Type[h] = "pipe" /\ NewHandle(c, h)
UdpNew(c, h) == Type[h] = "udp" /\ NewHandle(c, h)

\* a tty is the one handle the main thread may create; it has no thread slot then
TtyNew(l, h) ==
  /\ Type[h] = "tty"
  /\ Runs(l)
  /\ hstate[h] = "none"
  /\ thread' = IF l = Main THEN thread ELSE [thread EXCEPT ![h] = l]
  /\ InitHandle(l, h)

\* uv_tcp_init, uv_pipe_init, uv_udp_init or uv_tty_init fails: the error leaves
\* the thread slot behind
NewHandleFails(c, h) ==
  /\ co[c] = "running"
  /\ hstate[h] = "none"
  /\ thread' = [thread EXCEPT ![h] = c]
  /\ UNCHANGED <<co, wait, hstate, owner, opened, reading, input, recvd, taken, slots, req>>

\* tcp_open hands the handle to its caller, but not its thread slot
TcpOpen(l, h) ==
  /\ Type[h] = "tcp"
  /\ Runs(l) /\ hstate[h] = "open" /\ MayUse(l, h)
  /\ owner' = [owner EXCEPT ![h] = l]
  /\ opened' = [opened EXCEPT ![h] = IF @ = Nil /\ l # owner[h] THEN owner[h] ELSE @]
  /\ UNCHANGED <<co, wait, hstate, reading, input, recvd, taken, thread, slots, req>>

\* the slot is filled before uv_listen, whether or not that succeeds
Listen(l, h) ==
  /\ Type[h] \in StreamTypes
  /\ Runs(l) /\ hstate[h] = "open" /\ MayUse(l, h)
  /\ slots' = slots \cup {<<"listen", h>>}
  /\ UNCHANGED <<co, wait, hstate, owner, opened, reading, input, recvd, taken, thread, req>>

(***************************************************************************)
(* Requests: the block is allocated, libuv takes it, and the caller        *)
(* yields.  When libuv refuses it the error is raised before anything is   *)
(* released, so the block (and the buffer array of a write) stays behind.  *)
(***************************************************************************)
Pending(h) == {r \in Reqs : req[r].st = "pending" /\ req[r].on = h}

\* libuv refuses a request on a handle that is not open, and a second
\* connect or shutdown while one is pending
Accepts(h, kind) ==
  /\ hstate[h] = "open"
  /\ kind \in {"connect", "shutdown"} => \A r \in Pending(h) : req[r].kind # kind

Issue(c, r, kind, h) ==
  /\ req' = [req EXCEPT ![r] = [kind |-> kind, on |-> h, by |-> c, st |-> "pending"]]
  /\ YieldIn(c, Suspended("req", r))
  /\ UNCHANGED <<hstate, owner, opened, reading, input, recvd, taken, slots>>

Refuse(r, kind) ==
  /\ req' = [req EXCEPT ![r] = [FreeBlock EXCEPT !.kind = kind, !.st = "leaked"]]
  /\ UNCHANGED <<co, wait, hstate, owner, opened, reading, input, recvd, taken, slots>>

MayIssue(c, h, r) ==
  /\ co[c] = "running" /\ req[r].st = "free"
  /\ hstate[h] # "none" /\ MayUse(c, h)

Request(c, h, r, kind) ==
  /\ MayIssue(c, h, r)
  /\ \/ /\ Accepts(h, kind) /\ MayAwait(c, {})
        /\ Issue(c, r, kind, h)
        /\ UNCHANGED thread
     \/ Refuse(r, kind) /\ UNCHANGED thread

Write(c, h, r) == Type[h] \in StreamTypes /\ Request(c, h, r, "write")
Write2(c, h, r) == Type[h] = "pipe" /\ Request(c, h, r, "write")
Shutdown(c, h, r) == Type[h] \in StreamTypes /\ Request(c, h, r, "shutdown")
TcpConnect(c, h, r) == Type[h] = "tcp" /\ Request(c, h, r, "connect")
UdpSend(c, h, r) == Type[h] = "udp" /\ Request(c, h, r, "send")

\* uv_pipe_connect reports every failure to its callback
PipeConnect(c, h, r) ==
  /\ Type[h] = "pipe"
  /\ MayIssue(c, h, r)
  /\ Accepts(h, "connect") /\ MayAwait(c, {})
  /\ Issue(c, r, "connect", h)
  /\ UNCHANGED thread

\* getaddrinfo anchors its caller under the request; when it fails it releases
\* the block but not that slot
Getaddrinfo(c, r) ==
  /\ co[c] = "running" /\ req[r].st = "free"
  /\ thread' = [thread EXCEPT ![r] = c]
  /\ \/ MayAwait(c, {}) /\ Issue(c, r, "getaddrinfo", Nil)
     \/ UNCHANGED <<co, wait, hstate, owner, opened, reading, input, recvd, taken, slots, req>>

\* sleep is a timer in a block of its own, anchored under its address; when
\* uv_timer_start fails both stay behind
Sleep(c, r) ==
  /\ co[c] = "running" /\ req[r].st = "free"
  /\ thread' = [thread EXCEPT ![r] = c]
  /\ \/ MayAwait(c, {}) /\ Issue(c, r, "sleep", Nil)
     \/ Refuse(r, "sleep")

(***************************************************************************)
(* Reading.                                                                *)
(***************************************************************************)
SetReading(l, h, on) ==
  /\ Runs(l) /\ hstate[h] = "open" /\ MayUse(l, h)
  /\ reading' = [reading EXCEPT ![h] = on]
  /\ UNCHANGED <<co, wait, hstate, owner, opened, input, recvd, taken, thread, slots, req>>

ReadStart(l, h) == Type[h] \in StreamTypes /\ SetReading(l, h, TRUE)
Read2Start(l, h) == Type[h] = "pipe" /\ SetReading(l, h, TRUE)
RecvStart(l, h) == Type[h] = "udp" /\ SetReading(l, h, TRUE)
ReadStop(l, h) == Type[h] \in StreamTypes /\ SetReading(l, h, FALSE)
RecvStop(l, h) == Type[h] = "udp" /\ SetReading(l, h, FALSE)

\* an empty queue suspends the coroutine, else the oldest input is returned
TakeInput(c, h) ==
  /\ co[c] = "running" /\ hstate[h] # "none" /\ MayUse(c, h)
  /\ \/ /\ input[h] = <<>>
        /\ YieldIn(c, Suspended("read", h))
        /\ UNCHANGED <<input, taken>>
     \/ /\ input[h] # <<>>
        /\ TakeHead(h, input)
        /\ UNCHANGED <<co, wait>>
  /\ UNCHANGED <<hstate, owner, opened, reading, recvd, thread, slots, req>>

Read(c, h) == Type[h] \in StreamTypes /\ TakeInput(c, h)
Read2(c, h) == Type[h] = "pipe" /\ TakeInput(c, h)
Recv(c, h) == Type[h] = "udp" /\ TakeInput(c, h)

(***************************************************************************)
(* Closing.  libuv stops reading at once.  Closing a handle twice is a     *)
(* failed assertion of libuv, so the program closes an open handle.        *)
(***************************************************************************)
StartClose(h) ==
  /\ hstate[h] = "open"
  /\ hstate' = [hstate EXCEPT ![h] = "closing"]
  /\ reading' = [reading EXCEPT ![h] = FALSE]
  /\ UNCHANGED <<owner, opened, input, recvd, taken, thread, slots, req>>

Close(c, h) ==
  /\ co[c] = "running" /\ MayUse(c, h) /\ MayAwait(c, {h})
  /\ StartClose(h)
  /\ YieldIn(c, Suspended("close", h))

\* the main thread returns from close at once
MainClose(h) ==
  /\ LoopIdle /\ MayUse(Main, h)
  /\ StartClose(h)
  /\ UNCHANGED <<co, wait>>

(***************************************************************************)
(* The program starts a coroutine; a coroutine returns or fails.  Only the *)
(* main thread starts one: a coroutine started from within another one is  *)
(* left out, with the nesting of resumes that it takes.                    *)
(***************************************************************************)
Start(c) ==
  /\ LoopIdle /\ co[c] = "fresh"
  /\ co' = [co EXCEPT ![c] = "running"]
  /\ UNCHANGED <<wait, hstate, owner, opened, reading, input, recvd, taken, thread, slots, req>>

Finish(c) ==
  /\ co[c] = "running"
  /\ co' = [co EXCEPT ![c] = "dead"]
  /\ UNCHANGED <<wait, hstate, owner, opened, reading, input, recvd, taken, thread, slots, req>>

(***************************************************************************)
(* The callbacks of the loop.  A request on a handle resumes the owner of  *)
(* that handle, yielded or not, with an error string if it failed.         *)
(* Closing a handle fails the requests still pending on it, but a write or *)
(* send that was already done is still reported as done.                   *)
(***************************************************************************)
CancelledByClose(r) ==
  hstate[req[r].on] = "closing" /\ req[r].kind \in {"connect", "shutdown"}

\* Faulty variant: the callback of a failed request returns early.
HandleReqCbFailsSilently(r, kind) ==
  /\ LoopIdle
  /\ req[r].st = "pending" /\ req[r].kind = kind
  /\ req' = [req EXCEPT ![r] = FreeBlock]
  /\ \E failed \in BOOLEAN :
        /\ CancelledByClose(r) => failed
        /\ IF failed THEN UNCHANGED <<co, wait, input, taken>>
             ELSE Resume(owner[req[r].on], FALSE, input)
  /\ UNCHANGED <<hstate, owner, opened, reading, recvd, thread, slots>>

HandleReqCb(r, kind) ==
  /\ LoopIdle
  /\ req[r].st = "pending" /\ req[r].kind = kind
  /\ req' = [req EXCEPT ![r] = FreeBlock]
  /\ \E failed \in BOOLEAN :
        /\ CancelledByClose(r) => failed
        /\ Resume(owner[req[r].on], failed, input)
  /\ UNCHANGED <<hstate, owner, opened, reading, recvd, thread, slots>>

On(r, type) == req[r].on \in Handles /\ Type[req[r].on] = type

TcpConnectCb(r) == On(r, "tcp") /\ HandleReqCb(r, "connect")
PipeConnectCb(r) == On(r, "pipe") /\ HandleReqCb(r, "connect")
WriteCb(r) == HandleReqCb(r, "write")
ShutdownCb(r) == HandleReqCb(r, "shutdown")
UdpSendCb(r) == HandleReqCb(r, "send")

\* resumes the caller with a table, or with nil and an error name; the slot of
\* the request stays
GetaddrinfoCb(r) ==
  /\ LoopIdle
  /\ req[r].st = "pending" /\ req[r].kind = "getaddrinfo"
  /\ req' = [req EXCEPT ![r] = FreeBlock]
  /\ \E found \in BOOLEAN : Resume(req[r].by, found, input)
  /\ UNCHANGED <<hstate, owner, opened, reading, recvd, thread, slots>>

\* Faulty variant: the timer callback resumes the caller, too.
SleepCbResumes(r) ==
  /\ LoopIdle
  /\ req[r].st = "pending" /\ req[r].kind = "sleep"
  /\ req' = [req EXCEPT ![r].st = "closing"]
  /\ Resume(req[r].by, FALSE, input)
  /\ UNCHANGED <<hstate, owner, opened, reading, recvd, thread, slots>>

\* Faulty variant: the timer callback does not close the timer.
SleepCbForgetsClose(r) ==
  /\ LoopIdle
  /\ req[r].st = "pending" /\ req[r].kind = "sleep"
  /\ UNCHANGED vars

\* the timer of a sleep fires and is closed ...
SleepCb(r) ==
  /\ LoopIdle
  /\ req[r].st = "pending" /\ req[r].kind = "sleep"
  /\ req' = [req EXCEPT ![r].st = "closing"]
  /\ UNCHANGED <<co, wait, hstate, owner, opened, reading, input, recvd, taken, thread, slots>>

\* ... and once it is closed the caller goes on
SleepCloseCb(r) ==
  /\ LoopIdle
  /\ req[r].st = "closing"
  /\ thread' = [thread EXCEPT ![r] = Nil]
  /\ req' = [req EXCEPT ![r] = FreeBlock]
  /\ Resume(req[r].by, FALSE, input)
  /\ UNCHANGED <<hstate, owner, opened, reading, recvd, slots>>

\* Faulty variant: the input goes to the head of the queue.
DeliverAtHead(h) ==
  /\ LoopIdle
  /\ reading[h] /\ recvd[h] < MaxInput[h]
  /\ recvd' = [recvd EXCEPT ![h] = @ + 1]
  /\ ResumeIfYielded(owner[h], [input EXCEPT ![h] = <<recvd[h] + 1>> \o @])
  /\ UNCHANGED <<hstate, owner, opened, reading, thread, slots, req>>

\* input arrives: it is queued, and the owner resumed if it is suspended at all
Deliver(h) ==
  /\ LoopIdle
  /\ reading[h] /\ recvd[h] < MaxInput[h]
  /\ recvd' = [recvd EXCEPT ![h] = @ + 1]
  /\ ResumeIfYielded(owner[h], [input EXCEPT ![h] = Append(@, recvd[h] + 1)])
  /\ UNCHANGED <<hstate, owner, opened, reading, thread, slots, req>>

ReadCb(h) == Type[h] \in StreamTypes /\ Deliver(h)
Read2Cb(h) == Type[h] = "pipe" /\ Deliver(h)
UdpRecvCb(h) == Type[h] = "udp" /\ Deliver(h)

\* Faulty variant: the listen callback stays registered.
CleanTcpKeepsListenCb(h) == slots \ {<<"user", h>>}

\* the registry slots that close_cb empties for each type of handle
CleanTcp(h) == slots \ {<<"user", h>>, <<"listen", h>>}
CleanUdp(h) == slots \ {<<"user", h>>}
CleanTty(h) == slots \ {<<"user", h>>, <<"listen", h>>}

\* close_cb has no case for a pipe: its slots are kept
CloseCb(h) ==
  /\ LoopIdle
  /\ hstate[h] = "closing" /\ Pending(h) = {}
  /\ hstate' = [hstate EXCEPT ![h] = "closed"]
  /\ slots' = CASE Type[h] = "tcp" -> CleanTcp(h)
                [] Type[h] = "udp" -> CleanUdp(h)
                [] Type[h] = "tty" -> CleanTty(h)
                [] OTHER -> slots
  /\ thread' = IF Type[h] = "pipe" THEN thread ELSE [thread EXCEPT ![h] = Nil]
  /\ ResumeIfYielded(owner[h], input)
  /\ UNCHANGED <<owner, opened, reading, recvd, req>>

(***************************************************************************)
(* The next-state relation.                                                *)
(***************************************************************************)
\* calls on a handle that return to the running program
HandleCall(l, h) ==
  \/ TtyNew(l, h) \/ TcpOpen(l, h) \/ Listen(l, h)
  \/ ReadStart(l, h) \/ Read2Start(l, h) \/ RecvStart(l, h)
  \/ ReadStop(l, h) \/ RecvStop(l, h)

CoroutineCall(c, h) ==
  \/ TcpNew(c, h) \/ PipeNew(c, h) \/ UdpNew(c, h) \/ NewHandleFails(c, h)
  \/ Read(c, h) \/ Read2(c, h) \/ Recv(c, h) \/ Close(c, h)

RequestCall(c, h, r) ==
  \/ TcpConnect(c, h, r) \/ PipeConnect(c, h, r) \/ Write(c, h, r)
  \/ Write2(c, h, r) \/ Shutdown(c, h, r) \/ UdpSend(c, h, r)

CoroutineStep(c) ==
  \/ \E h \in Handles : HandleCall(c, h) \/ CoroutineCall(c, h)
  \/ \E h \in Handles, r \in Reqs : RequestCall(c, h, r)
  \/ \E r \in Reqs : Getaddrinfo(c, r) \/ Sleep(c, r)
  \/ Finish(c)

MainStep ==
  \/ \E h \in Handles : HandleCall(Main, h) \/ MainClose(h)
  \/ \E c \in Coros : Start(c)

RequestCb(r) ==
  \/ TcpConnectCb(r) \/ PipeConnectCb(r) \/ WriteCb(r) \/ ShutdownCb(r)
  \/ UdpSendCb(r) \/ GetaddrinfoCb(r) \/ SleepCb(r) \/ SleepCloseCb(r)

InputCb(h) == ReadCb(h) \/ Read2Cb(h) \/ UdpRecvCb(h)

Next ==
  \/ MainStep
  \/ \E c \in Coros : CoroutineStep(c)
  \/ \E r \in Reqs : RequestCb(r)
  \/ \E h \in Handles : InputCb(h) \/ CloseCb(h)

Spec == Init /\ [][Next]_vars

(***************************************************************************)
(* Fairness.  A running coroutine eventually suspends itself or returns    *)
(* (Lua is cooperative); uv_run calls back every completed request and     *)
(* every closing handle, however many other callbacks there are.           *)
(***************************************************************************)
Leave(c) == co[c] = "running" /\ CoroutineStep(c) /\ co'[c] # "running"

Fairness ==
  /\ \A c \in Coros : WF_vars(Leave(c))
  /\ \A r \in Reqs : SF_vars(RequestCb(r))
  /\ \A h \in Handles : SF_vars(CloseCb(h))

FairSpec == Spec /\ Fairness
(***************************************************************************)
(* Safety properties.                                                      *)
(***************************************************************************)
\* Reads return the input of a handle in the order in which libuv delivered it,
\* none lost and none twice, whoever reads and however often the coroutine is
\* woken for another reason.
ReadFifo ==
  \A h \in Handles : taken[h] \o input[h] = [i \in 1 .. recvd[h] |-> i]

\* The owner of a handle is never suspended in a read of it while input is
\* queued: read_cb wakes it up even though it does not know what it waits for.
NoLostWakeup ==
  \A h \in Handles, c \in Coros :
    owner[h] = c /\ Reading(c, h) => input[h] = <<>>

\* Whom the callback of a pending block resumes: the owner of its handle, or the
\* caller of getaddrinfo or sleep.
Target(r) == IF req[r].kind \in HandleReqKinds THEN owner[req[r].on] ELSE req[r].by

Outstanding(r) == req[r].st \in {"pending", "closing"}

\* No coroutine is left behind by an answer that has come: what it is suspended
\* in is still to be called back, and that callback will resume this coroutine.
NoOrphanAwait ==
  \A c \in Coros : co[c] = "yielded" =>
    /\ \A r \in Reqs : wait[c] = Suspended("req", r) => Outstanding(r) /\ Target(r) = c
    /\ \A h \in Handles : wait[c] = Suspended("close", h) => hstate[h] = "closing" /\ owner[h] = c

\* A Lua thread that a callback of libuv may still use is kept alive by a thread
\* slot of the registry, and a handle that libuv knows by its userdata slot.
Anchored(l) == l \in Coros => \E k \in Handles \cup Reqs : thread[k] = l

CallbackTargetsAnchored ==
  /\ \A h \in Handles : hstate[h] \in {"open", "closing"} => Anchored(owner[h]) /\ <<"user", h>> \in slots
  /\ \A r \in Reqs : Outstanding(r) => Anchored(Target(r))

\* In any program, too, libuv knows only handles whose userdata is in the registry,
\* holds no request on a closed one, and resumes callers of sleep and getaddrinfo
\* that are anchored.  The coroutine a handle resumes is the one that its own slot
\* anchors, until tcp_open hands the handle to another: then the slot goes on to
\* anchor the creator, and nothing anchors the new owner (src/tcp.c:60-74).
AnchoredUnlessOpened ==
  /\ \A h \in Handles : hstate[h] \in {"open", "closing"} =>
       /\ <<"user", h>> \in slots
       /\ IF opened[h] = Nil THEN owner[h] \in Coros => thread[h] = owner[h]
            ELSE Type[h] = "tcp" /\ thread[h] = opened[h]
  /\ \A r \in Reqs : Outstanding(r) =>
       IF req[r].kind \in HandleReqKinds THEN hstate[req[r].on] \in {"open", "closing"}
         ELSE Anchored(req[r].by)

\* A closed handle leaves nothing in the registry (pipes excepted, which
\* close_cb does not clean).
RegistryReleased ==
  \A h \in Handles : hstate[h] = "closed" /\ Type[h] # "pipe" =>
    thread[h] = Nil /\ <<"user", h>> \notin slots /\ <<"listen", h>> \notin slots

\* The buffers of a write or send that libuv still holds are referenced from the
\* stack of the coroutine that passed them, which has not returned from the call.
BufsStayReferenced ==
  \A r \in Reqs : req[r].st = "pending" /\ req[r].kind \in {"write", "send"} =>
    co[req[r].by] = "yielded" /\ wait[req[r].by] = Suspended("req", r)

(***************************************************************************)
(* Action properties: what a coroutine may have been woken by.             *)
(***************************************************************************)
Wakes(c) == co[c] = "yielded" /\ co'[c] = "running"

Answered(w) ==
  CASE w.on = "req" -> Outstanding(w.of) /\ req'[w.of].st = "free"
    [] w.on = "close" -> hstate[w.of] = "closing" /\ hstate'[w.of] = "closed"
    [] w.on = "read" -> Len(taken'[w.of]) = Len(taken[w.of]) + 1
    [] OTHER -> FALSE

\* A suspended coroutine goes on only in the step that answers what it awaits:
\* a write with its own completion, a close with its own close_cb, a read with
\* an input.
OwnAnswer == [][\A c \in Coros : Wakes(c) => Answered(wait[c])]_vars

\* A read, read2 or recv that is woken when a write completes returns an input,
\* not the result of the write: the tests take the first value for a number.
WriteDone(r) == req[r].kind = "write" /\ req[r].st = "pending" /\ req'[r].st = "free"

ReadReturnsInput ==
  [][\A c \in Coros, r \in Reqs :
       WriteDone(r) /\ Wakes(c) /\ wait[c].on = "read" => Answered(wait[c])]_vars

(***************************************************************************)
(* Liveness.                                                               *)
(***************************************************************************)
\* A coroutine that awaits a completion or a close goes on.
AwaitReturns ==
  \A c \in Coros :
    (co[c] = "yielded" /\ wait[c].on \in {"req", "close"}) ~> co[c] = "running"

(***************************************************************************)
(* The promise of Await, which a "quiet" program is kept: the operations   *)
(* under way are the pending blocks and the closing handles.               *)
(***************************************************************************)
AwaitedOp(c) ==
  IF co[c] = "yielded" /\ wait[c].on \in {"req", "close"} THEN wait[c] ELSE NoWait

OutstandingOps ==
  {Suspended("req", r) : r \in {x \in Reqs : Outstanding(x)}}
    \cup {Suspended("close", h) : h \in {x \in Handles : hstate[x] = "closing"}}

AllOps == [on : {"req"}, of : Reqs] \cup [on : {"close"}, of : Handles]

Promise == INSTANCE Await WITH
  Callers <- Coros, Ops <- AllOps, NoOp <- NoWait,
  awaiting <- [c \in Coros |-> AwaitedOp(c)], outstanding <- OutstandingOps

\* Every completion is delivered to the coroutine that waits for it and to no
\* other, once, and not before.
KeepsPromise == Promise!Spec

\* ... and every coroutine that waits for one gets it.
KeepsPromiseFairly == Promise!FairSpec

(***************************************************************************)
(* The promise of LooseAwait, which a program is kept whose coroutines use *)
(* their own handles only.                                                 *)
(***************************************************************************)
LoosePromise == INSTANCE LooseAwait WITH
  Callers <- Coros, Ops <- AllOps, NoOp <- NoWait,
  awaiting <- [c \in Coros |-> AwaitedOp(c)], outstanding <- OutstandingOps

\* Input, or the completion of what it was woken from before, may wake a coroutine
\* early, but a completion or close that it still awaits wakes it, and each
\* callback wakes one coroutine at most.
KeepsLoosePromise == LoosePromise!Spec

(***************************************************************************)
(* What a comment of the code says.                                        *)
(***************************************************************************)
\* The comment in close_cb: when a handle is closed from another thread, the
\* thread of the handle is not yielded at that moment, so that there is nothing to
\* resume.  At least it is not suspended in a call of its own that close_cb would
\* make return; a read that is woken without a value only looks at its queue again.
ForeignCloseFindsOwnerAwake ==
  [][\A h \in Handles, c \in Coros :
       /\ hstate[h] = "closing" /\ hstate'[h] = "closed"
       /\ co[c] = "yielded" /\ wait[c] = Suspended("close", h) /\ owner[h] # c
       => ~(Yielded(owner[h]) /\ wait[owner[h]].on # "read")]_vars
=============================================================================
