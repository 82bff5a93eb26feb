----------------------------- MODULE FsRequest -----------------------------
(***************************************************************************)
(* The file system functions of couv (fs.c, and uv.fs of couv.lua).  The   *)
(* main thread performs an operation at once, with a request on the C      *)
(* stack.  A coroutine allocates the request on the heap, hands it to the  *)
(* thread pool of libuv and yields; the callback pushes the results, frees *)
(* the request and resumes request->data.  Each function of couv.lua then  *)
(* turns the values it got into its result or into an error.               *)
(***************************************************************************)
EXTENDS Naturals, Sequences

CONSTANTS
  Coros,   \* the Lua coroutines
  Main,    \* the main Lua thread
  Reqs,    \* the heap blocks that uv_fs_t requests are allocated in
  Nil,     \* NULL
  Ops,     \* the operations the program uses
  Strays   \* may a callback of a handle of the coroutine (read_cb, udp_recv_cb,
           \* close_cb, ...) resume it while it is suspended in one of these?

\* the functions of uv.fs by what couv.lua makes of their results
NoValueOps ==
  {"chmod", "chown", "close", "fchmod", "fchown", "fsync", "ftruncate", "futime",
   "link", "mkdir", "rename", "rmdir", "symlink", "unlink", "utime"}
OneValueOps == {"open", "read", "write", "lstat", "fstat", "stat", "readlink", "readdir"}
AllOps == NoValueOps \cup OneValueOps \cup {"exists"}

ASSUME FsActorsAssumption == Main \notin Coros /\ Nil \notin Coros \cup {Main} \cup Reqs
ASSUME FsParametersAssumption == Ops \subseteq AllOps /\ Strays \in BOOLEAN

VARIABLES
  co,      \* co[c]: lua_status, with fresh, running and dead apart
  wait,    \* wait[c]: the request of the call c is suspended in, or Nil
  req,     \* req[r]: the heap block r
  thread,  \* thread[r]: the registry slot COUV_THREAD_REG_KEY(r)
  ret      \* the last return from a function of uv.fs (history)

vars == <<co, wait, req, thread, ret>>

Outcomes == {"ok", "err", "unknown"}
FreeReq == [st |-> "free", op |-> "none", by |-> Nil, res |-> "unknown"]
NoReturn == [op |-> "none", res |-> "unknown", val |-> "nothing"]
Results == {"nothing", "raises", "nil", "number", "stat", "string", "table",
            "true", "false", "errname"}

TypeOK ==
  /\ co \in [Coros -> {"fresh", "running", "yielded", "dead"}]
  /\ wait \in [Coros -> Reqs \cup {Nil}]
  /\ req \in [Reqs -> [st : {"free", "queued", "done"}, op : AllOps \cup {"none"},
                       by : Coros \cup {Nil}, res : Outcomes]]
  /\ thread \in [Reqs -> Coros \cup {Nil}]
  /\ ret \in [op : AllOps \cup {"none"}, res : Outcomes, val : Results]

Init ==
  /\ co = [c \in Coros |-> "fresh"]
  /\ wait = [c \in Coros |-> Nil]
  /\ req = [r \in Reqs |-> FreeReq]
  /\ thread = [r \in Reqs |-> Nil]
  /\ ret = NoReturn

LoopIdle == \A c \in Coros : co[c] # "running"

(***************************************************************************)
(* What the C functions push on the Lua stack ...                          *)
(***************************************************************************)
\* Faulty variant: the case of readlink is missing.
FsErrorWithoutReadlink(op) ==
  IF op \in {"open", "read", "write", "lstat", "fstat", "stat", "readdir"}
    THEN <<"nil", "errname">>
    ELSE <<"errname">>

FsError(op) ==
  IF op \in {"open", "read", "write", "lstat", "fstat", "stat", "readlink", "readdir"}
    THEN <<"nil", "errname">>
    ELSE <<"errname">>

PushCommonResults(op, res) ==
  CASE res = "err" -> FsError(op)
    [] res = "ok" /\ op \in {"open", "read", "write"} -> <<"number">>
    [] res = "ok" /\ op \in {"lstat", "fstat", "stat"} -> <<"stat">>
    [] res = "ok" /\ op = "readlink" -> <<"string">>
    [] res = "ok" /\ op = "readdir" -> <<"table">>
    [] OTHER -> <<>>

PushExistsResults(res) == IF res = "ok" THEN <<"true">> ELSE <<"false">>

PushResults(op, res) ==
  IF op = "exists" THEN PushExistsResults(res) ELSE PushCommonResults(op, res)

(***************************************************************************)
(* ... and what couv.lua makes of it.                                      *)
(***************************************************************************)
Error0(vals) == IF vals # <<>> /\ vals[1] # "nil" THEN "raises" ELSE "nothing"

Error1(vals) ==
  CASE Len(vals) >= 2 /\ vals[2] # "nil" -> "raises"
    [] Len(vals) = 1 -> vals[1]
    [] OTHER -> "nil"

Wrapped(op, vals) ==
  CASE op \in NoValueOps -> Error0(vals)
    [] op \in OneValueOps -> Error1(vals)
    [] OTHER -> IF vals = <<>> THEN "nil" ELSE vals[1]

Returns(op, res, vals) == ret' = [op |-> op, res |-> res, val |-> Wrapped(op, vals)]

\* couv_resume(L, L, nresults): a coroutine that is suspended in a call of this
\* module returns from that call, one suspended elsewhere goes on there, and
\* nothing happens to one that is not suspended.
Resume(c, vals) ==
  \/ co[c] # "yielded" /\ UNCHANGED <<co, wait, ret>>
  \/ /\ co[c] = "yielded"
     /\ co' = [co EXCEPT ![c] = "running"]
     /\ wait' = [wait EXCEPT ![c] = Nil]
     /\ IF wait[c] = Nil THEN UNCHANGED ret
          ELSE Returns(req[wait[c]].op, req[wait[c]].res, vals)

(***************************************************************************)
(* Calls.                                                                  *)
(***************************************************************************)
\* the main thread: libuv performs the operation before it returns
SyncCall(op) ==
  /\ LoopIdle
  /\ \E res \in {"ok", "err"} : Returns(op, res, PushResults(op, res))
  /\ UNCHANGED <<co, wait, req, thread>>

\* Faulty variant: request->data is the main thread.
SubmitForMain(c, op, r) ==
  /\ req' = [req EXCEPT ![r] = [st |-> "queued", op |-> op, by |-> Main, res |-> "unknown"]]
  /\ thread' = [thread EXCEPT ![r] = c]
  /\ co' = [co EXCEPT ![c] = "yielded"]
  /\ wait' = [wait EXCEPT ![c] = r]
  /\ UNCHANGED ret

\* Faulty variant: the caller does not yield.
SubmitWithoutYield(c, op, r) ==
  /\ req' = [req EXCEPT ![r] = [st |-> "queued", op |-> op, by |-> c, res |-> "unknown"]]
  /\ thread' = [thread EXCEPT ![r] = c]
  /\ UNCHANGED <<co, wait, ret>>

\* fs_alloc_req, uv_fs_*, fs_after_async_call: the request is queued, anchors its
\* caller, and the caller yields
Submit(c, op, r) ==
  /\ req' = [req EXCEPT ![r] = [st |-> "queued", op |-> op, by |-> c, res |-> "unknown"]]
  /\ thread' = [thread EXCEPT ![r] = c]
  /\ co' = [co EXCEPT ![c] = "yielded"]
  /\ wait' = [wait EXCEPT ![c] = r]
  /\ UNCHANGED ret

\* libuv does not take the request: it is freed again, and the error returned.
\* exists then reports whatever result the request was left with.
Refused(op) ==
  /\ IF op = "exists"
       THEN \E res \in {"ok", "err"} : Returns(op, "unknown", PushExistsResults(res))
       ELSE Returns(op, "err", FsError(op))
  /\ UNCHANGED <<co, wait, req, thread>>

AsyncCall(c, op) ==
  /\ co[c] = "running"
  /\ \E r \in Reqs : req[r].st = "free" /\ (Submit(c, op, r) \/ Refused(op))

Call(l, op) ==
  /\ op \in Ops
  /\ IF l = Main THEN SyncCall(op) ELSE AsyncCall(l, op)

Chown(l) == Call(l, "chown")
Chmod(l) == Call(l, "chmod")
Close(l) == Call(l, "close")
Exists(l) == Call(l, "exists")
Fchmod(l) == Call(l, "fchmod")
Fchown(l) == Call(l, "fchown")
Fstat(l) == Call(l, "fstat")
Fsync(l) == Call(l, "fsync")
Ftruncate(l) == Call(l, "ftruncate")
Futime(l) == Call(l, "futime")
Link(l) == Call(l, "link")
Lstat(l) == Call(l, "lstat")
Mkdir(l) == Call(l, "mkdir")
Open(l) == Call(l, "open")
Readlink(l) == Call(l, "readlink")
Rename(l) == Call(l, "rename")
Rmdir(l) == Call(l, "rmdir")
Stat(l) == Call(l, "stat")
Symlink(l) == Call(l, "symlink")
Unlink(l) == Call(l, "unlink")
Utime(l) == Call(l, "utime")
Read(l) == Call(l, "read")
Readdir(l) == Call(l, "readdir")
Write(l) == Call(l, "write")

FsCall(l) ==
  \/ Chown(l) \/ Chmod(l) \/ Close(l) \/ Exists(l) \/ Fchmod(l) \/ Fchown(l)
  \/ Fstat(l) \/ Fsync(l) \/ Ftruncate(l) \/ Futime(l) \/ Link(l) \/ Lstat(l)
  \/ Mkdir(l) \/ Open(l) \/ Readlink(l) \/ Rename(l) \/ Rmdir(l) \/ Stat(l)
  \/ Symlink(l) \/ Unlink(l) \/ Utime(l) \/ Read(l) \/ Readdir(l) \/ Write(l)

(***************************************************************************)
(* The thread pool performs a request while Lua code and the loop go on;   *)
(* the loop then calls back.                                               *)
(***************************************************************************)
Perform(r) ==
  /\ req[r].st = "queued"
  /\ \E res \in {"ok", "err"} :
       req' = [req EXCEPT ![r] = [st |-> "done", op |-> @.op, by |-> @.by, res |-> res]]
  /\ UNCHANGED <<co, wait, thread, ret>>

\* Faulty variant: the slot is not emptied.
CompleteKeepsSlot(r) ==
  /\ LoopIdle
  /\ req[r].st = "done"
  /\ req' = [req EXCEPT ![r] = FreeReq]
  /\ Resume(req[r].by, PushResults(req[r].op, req[r].res))
  /\ UNCHANGED thread

\* Faulty variant: the request is not freed.
CompleteKeepsRequest(r) ==
  /\ LoopIdle
  /\ req[r].st = "done"
  /\ thread' = [thread EXCEPT ![r] = Nil]
  /\ Resume(req[r].by, PushResults(req[r].op, req[r].res))
  /\ UNCHANGED req

\* Faulty variant: the callback of a failed request returns early.
CompleteFailsSilently(r) ==
  /\ LoopIdle
  /\ req[r].st = "done"
  /\ thread' = [thread EXCEPT ![r] = Nil]
  /\ req' = [req EXCEPT ![r] = FreeReq]
  /\ IF req[r].res = "err" THEN UNCHANGED <<co, wait, ret>>
       ELSE Resume(req[r].by, PushResults(req[r].op, req[r].res))

\* Faulty variant: a failed request is never called back.
CompleteOnlySuccess(r) ==
  /\ LoopIdle
  /\ req[r].st = "done" /\ req[r].res = "ok"
  /\ thread' = [thread EXCEPT ![r] = Nil]
  /\ req' = [req EXCEPT ![r] = FreeReq]
  /\ Resume(req[r].by, PushResults(req[r].op, req[r].res))

\* the slot is emptied, the results pushed, the request freed, the caller resumed
Complete(r) ==
  /\ LoopIdle
  /\ req[r].st = "done"
  /\ thread' = [thread EXCEPT ![r] = Nil]
  /\ req' = [req EXCEPT ![r] = FreeReq]
  /\ Resume(req[r].by, PushResults(req[r].op, req[r].res))

CommonCallback(r) == req[r].op # "exists" /\ Complete(r)
ExistsCallback(r) == req[r].op = "exists" /\ Complete(r)

(***************************************************************************)
(* The rest of the program.                                                *)
(***************************************************************************)
Start(c) ==
  /\ LoopIdle /\ co[c] = "fresh"
  /\ co' = [co EXCEPT ![c] = "running"]
  /\ UNCHANGED <<wait, req, thread, ret>>

Finish(c) ==
  /\ co[c] = "running"
  /\ co' = [co EXCEPT ![c] = "dead"]
  /\ UNCHANGED <<wait, req, thread, ret>>

\* the coroutine is suspended in a call of another module
AwaitElsewhere(c) ==
  /\ co[c] = "running"
  /\ co' = [co EXCEPT ![c] = "yielded"]
  /\ UNCHANGED <<wait, req, thread, ret>>

\* a callback of another module resumes it, there or (a stray) here, with no
\* value or with the name of an error
ResumeFromElsewhere(c) ==
  /\ LoopIdle /\ co[c] = "yielded"
  /\ wait[c] # Nil => Strays
  /\ \E vals \in {<<>>, <<"errname">>} : Resume(c, vals)
  /\ UNCHANGED <<req, thread>>

CoroutineStep(c) == FsCall(c) \/ Finish(c) \/ AwaitElsewhere(c)

LoopStep(r) == CommonCallback(r) \/ ExistsCallback(r)

Next ==
  \/ FsCall(Main)
  \/ \E c \in Coros : Start(c) \/ CoroutineStep(c) \/ ResumeFromElsewhere(c)
  \/ \E r \in Reqs : Perform(r) \/ LoopStep(r)

Spec == Init /\ [][Next]_vars

\* The pool performs what is queued, the loop calls back what is done (however
\* often coroutines run in between), and a running coroutine ends or yields.
Fairness ==
  /\ \A r \in Reqs : WF_vars(Perform(r)) /\ SF_vars(LoopStep(r))
  /\ \A c \in Coros : WF_vars(CoroutineStep(c) /\ co'[c] # "running")

FairSpec == Spec /\ Fairness
(***************************************************************************)
(* Safety properties.                                                      *)
(***************************************************************************)
InFlight(r) == req[r].st \in {"queued", "done"}

\* The slot of a request anchors its caller exactly while the request is with
\* libuv, also when the block was used by another coroutine before and however
\* that coroutine was resumed.
SlotsMatchRequests ==
  \A r \in Reqs : thread[r] = IF InFlight(r) THEN req[r].by ELSE Nil

\* A coroutine suspended in a call of uv.fs will be called back: its request is
\* with libuv and resumes it.
NoOrphanAwait ==
  \A c \in Coros : co[c] = "yielded" /\ wait[c] # Nil =>
    InFlight(wait[c]) /\ req[wait[c]].by = c

\* The buffer that the thread pool reads or fills is referenced from the stack
\* of the coroutine that passed it, which is suspended in that very call.
BufferHeld ==
  \A r \in Reqs : req[r].st = "queued" /\ req[r].op \in {"read", "write"} =>
    co[req[r].by] = "yielded" /\ wait[req[r].by] = r

\* What the caller gets is the outcome of its own operation: a failed one raises
\* an error (and exists returns false), one that succeeded returns its value and
\* never nil or the name of an error, from the main thread and from a coroutine.
ReturnsOutcome ==
  /\ ret.res = "err" => ret.val = IF ret.op = "exists" THEN "false" ELSE "raises"
  /\ ret.res = "ok" => ret.val \notin {"raises", "nil", "errname", "false"}
  /\ ret.res = "ok" => (ret.val = "nothing" <=> ret.op \in NoValueOps)

\* A call of uv.fs returns to a coroutine only when its own request is done.
OwnAnswer ==
  [][\A c \in Coros : co[c] = "yielded" /\ wait[c] # Nil /\ co'[c] = "running" =>
       req[wait[c]].st = "done" /\ req'[wait[c]].st = "free"]_vars

(***************************************************************************)
(* Liveness.                                                               *)
(***************************************************************************)
\* Every request is freed, whatever happened to its caller in the meantime.
RequestsFreed == \A r \in Reqs : InFlight(r) ~> req[r].st = "free"

(***************************************************************************)
(* Without strays the functions keep the promise of Await.                 *)
(***************************************************************************)
Promise == INSTANCE Await WITH
  Callers <- Coros, Ops <- Reqs, NoOp <- Nil,
  awaiting <- wait, outstanding <- {r \in Reqs : InFlight(r)}

\* Every call returns to its caller when its request is done and not before ...
KeepsPromise == Promise!Spec

\* ... and every call returns.
KeepsPromiseFairly == Promise!FairSpec

(***************************************************************************)
(* With strays, or without, they keep that of LooseAwait.                  *)
(***************************************************************************)
LoosePromise == INSTANCE LooseAwait WITH
  Callers <- Coros, Ops <- Reqs, NoOp <- Nil,
  awaiting <- wait, outstanding <- {r \in Reqs : InFlight(r)}

\* A coroutine may return early from a call, but one that is still suspended in
\* it when its request is called back returns then, and each callback resumes
\* one coroutine at most, whoever uses its block by then.
KeepsLoosePromise == LoosePromise!Spec
=============================================================================
