# A TLA+ development of couv

couv wraps libuv for Lua: a coroutine that starts an operation yields, and the
callback of libuv resumes it. The C code is small, but it rests on a protocol
between coroutines, handles, requests and callbacks that no single function
shows. This directory holds TLA+ modules of that protocol, configurations that
model-check them with TLC, and theorems about them with proofs that TLAPS
checks. Line numbers refer to the sources (`src/*.c`, `couv.lua`,
`include/couv-private`).

## 1. The system

### Who runs

One operating-system thread runs all Lua code. The main Lua thread starts
coroutines and calls `uv.run()`; callbacks of libuv run inside it, so only when
no coroutine runs (`LoopIdle` in the modules). A callback resumes a coroutine
with `couv_resume`, that is `lua_resume`; the coroutine then runs until it
yields again or ends. The thread pool of libuv performs file operations in
parallel, but touches no state of couv except the request and its buffer.

### Components

| Component | State | Operations | Correct when |
|---|---|---|---|
| Handles (`handle.c`) | `handle->data` (the Lua thread that created the handle), registry slots for the userdata, that thread and a callback | close, `close_cb`; queries, ref, unref | the closer goes on after `close_cb`; nothing stays in the registry; what callbacks use is alive |
| Streams (`stream.c`) | input queue of each handle, a heap block and a buffer array for each request | listen, accept, startRead, stopRead, read, write, write2, shutdown; `read_cb`, `write_cb`, `shutdown_cb`, `connection_cb` | reads return the input in order; calls return for their own completion; buffers stay alive |
| `tcp.c`, `pipe.c`, `udp.c`, `tty.c` | the same, by type | new, open, bind, connect, send, recv, read2, options | as above |
| getaddrinfo, sleep (`couv.c`) | a heap block each, the thread slot keyed by its address | the calls; `getaddrinfo_cb`, `sleep_cb`, `sleep_close_cb` | the caller goes on with the answer, after the time |
| Input queue (`ngx-queue.h`) | prev and next pointers | init, empty, head, insert_tail, remove | it is a first-in first-out queue |
| File functions (`fs.c`) | a request, on the C stack (main thread) or on the heap (coroutine), and its thread slot | 24 functions; `fs_common_callback`, `fs_exists_callback` | each call returns the outcome of its own operation; requests are freed; buffers stay alive |
| Lua wrappers (`couv.lua`) | none | turn results into values or errors; read loops | a failed operation raises, a spurious wake-up of a read goes unnoticed |
| Timers (`timer.c`) | callback and userdata slots | start, stop, again; `timer_cb` | the callback runs on a live thread, as often as set |
| Processes (`process.c`) | callback and userdata slots, option arrays | spawn, kill; `exit_cb` | the exit callback runs once on a live thread; the arrays are freed |
| Buffers (`buffer.c`, `buf_alloc.c`) | reference-counted memory, base and length of each Buffer | new, slice, copy, accessors, finalizer | memory lives as long as a Buffer or libuv uses it; accessors stay in range |
| Addresses (`sockaddr.c`), classes (`auxlib.c`), loop (`loop.c`), system information (`couv.c`) | none to speak of | conversions | |

### What is hard

* A callback does not know which call it answers. It resumes `handle->data`, the
  creator of the handle, and a resumed coroutine returns from whatever it is
  suspended in. `read_cb`, `udp_recv_cb` and `close_cb` resume it if it is
  suspended at all (`stream.c:105`, `udp.c:174`, `handle.c:33`); the callbacks of
  requests resume it in any case (`stream.c:174`, `:208`, `tcp.c:104`,
  `udp.c:123`), with an error name as the value if the request failed.
* So input that arrives during a write makes the write return early, and its
  completion then answers the next call. The read loops of `couv.lua:170`, `:196`
  and `:205` absorb wake-ups without a value, other calls do not.
* Handles can be shared between coroutines, although callbacks know one only.
* Callbacks use Lua threads and userdata that only the registry keeps alive.
* Error paths raise (`luaL_error`) before they release what they allocated.
* Blocks are freed and allocated again, and registry slots are keyed by address.
* Timers, processes and listening sockets do not resume anybody: they call a
  function of the program on the stack of the thread that made the handle, which
  for timers and processes nothing anchors.
* The memory of a Buffer is shared by its slices, by queued inputs and by what
  libuv works from; finalizers release it in any order.
* Lengths are `size_t`, positions are `int`, and the checks convert between them.

`PROJECT.json` lists these hazards line by line with the properties that cover
them.

## 2. Modules

| Module | Models |
|---|---|
| `CouvIo` | handles, requests, reading and callbacks of all stream and datagram types, getaddrinfo and sleep, with the read loops of couv.lua |
| `Await` | abstract: what a suspended caller is promised if nothing else resumes it |
| `LooseAwait` | abstract: what is left of that promise if something may |
| `FsRequest` | `fs.c` and the file part of couv.lua |
| `Callbacks` | timers, processes and listening sockets: `timer.c`, `process.c`, listen and accept of `stream.c`, with the registry and the collector |
| `Buffer` | `buffer.c` and `buf_alloc.c`: reference counts, views, checks of indices |
| `SharedMemory` | abstract: what counting references is to achieve |
| `BufferCodec` | the numbers that the accessors of a Buffer write and read |
| `NgxQueue`, `Fifo` | the pointer ring of `ngx-queue.h`; abstract: a queue |
| `CouvIoProofs`, `CouvIoAwaitProofs`, `CouvIoQuietProofs`, `FsRequestProofs`, `NgxQueueProofs`, `CallbacksProofs`, `BufferProofs`, `BufferCodecProofs` | theorems and proofs |
| `MCCouvIo`, `MCFsRequest`, `MCNgxQueue`, `MCCallbacks`, `MCBuffer` | instances for TLC |

`CouvIo` and `FsRequest` both implement `Await` if no callback meets a coroutine
in a call that it does not answer, and `LooseAwait` otherwise; `NgxQueue`
justifies the sequences that `CouvIo` uses for the input queues. `Buffer` takes from `CouvIo`
and `FsRequest` that the caller's stack holds the Buffers of a request
(`BufsStayReferenced`, `BufferHeld`) and adds what follows for the memory.
`Callbacks` takes from `CouvIo` that a coroutine suspended in another call is
anchored (`CallbackTargetsAnchored`). `MCBuffer` puts `Buffer` and `BufferCodec`
together. Operators called "Faulty
variant" are used by no specification: they are the mistakes that the properties
are tried against.

### CouvIo and the code

| Variable | Code |
|---|---|
| `co[c]` | `lua_status` of a coroutine |
| `wait[c]` | the C call that yielded: a read of a handle, a close of a handle, or a request |
| `hstate[h]`, `reading[h]` | what libuv knows of the handle |
| `owner[h]` | `handle->data` |
| `input[h]` | `hdata->input_queue`; inputs are numbered as libuv delivers them |
| `recvd[h]`, `taken[h]` | history: how many were delivered, which were returned by reads |
| `opened[h]` | history: who created the handle, once `tcp_open` has given it to another |
| `thread[k]` | the registry slot `COUV_THREAD_REG_KEY(k)`, of a handle or a request |
| `slots` | the slots `COUV_USERDATA_REG_KEY` and `COUV_LISTEN_CB_REG_KEY` |
| `req[r]` | a heap block: kind, handle, caller, and whether libuv has it, it is being closed (sleep), or it was leaked |

There is an action for each function and each callback, under the name of the
Lua method or the callback. `Resume` is `couv_resume` together with what the
coroutine does before it runs user code again: if it was in a read and got no
value, it goes round the loop and takes an input or yields again. `Request` is
the common shape of write, write2, shutdown, connect and send: allocate, hand to
libuv, yield, or raise and leave the block behind. `Sleep` does the same with the
block of its timer, and `NewHandleFails` is every `*_new` whose `uv_*_init`
fails, with the thread slot filled. What libuv does is in `Accepts` (which requests
it takes), in `CancelledByClose` (a connect or shutdown pending on a closing handle
fails; a write or send may have been done before, and then says so) and in the
guards of the callbacks: `close_cb` comes last.

Closing a handle twice is an assertion failure of libuv, so the model closes
open handles only. So it is with open, listen and starting or stopping to
read: on a closed handle they are mistakes of the program that libuv answers in
its own way. Reads and requests on closing and closed handles are modelled,
because a coroutine cannot know what another one closed. The main thread may
create and use a tty and close handles;
requests it could start before `lua_yield` fails are left out. Only the main
thread starts coroutines (`Start`): one started by a running coroutine is left
out, with the nesting of resumes that it takes.

**Discipline.** couv leaves it to the program who uses a handle and when. The
constant `Discipline` says which programs are considered:

* `any`: every coroutine may use every handle;
* `own`: a handle is used only by the coroutine that created it;
* `quiet`: moreover a coroutine suspends itself in something other than a read
  only while none of its handles is being read from (closing the handle that is
  being read counts as stopping).

The strict discipline is a finding in itself: the echo servers of `examples/`
and `test-tcp.lua` write while they read, so they are `own` and not `quiet`, and
nothing in the documentation asks for more. What holds for `own` and what needs
`quiet` is exactly what the properties show. A quiet program has `Await`: an
operation is over exactly when its caller goes on. A program that is only `own`
has `LooseAwait`: a caller may go on early and an answer may reach it in another
call, but what it still waits for when it is over lets it go on, and one callback
never resumes two.

### FsRequest and the code

`req[r]` is a heap block with a `uv_fs_t`, `thread[r]` its registry slot,
`wait[c]` the request a coroutine is suspended in, and `ret` the last return of a
function of `uv.fs`, with the operation and its true outcome, so that a property
can compare them. `PushResults`, `FsError`, `Error0` and `Error1` are the C and
the Lua half of the result protocol. Each of the 24 functions is an action
(`Call`): the main thread performs the operation at once, a coroutine submits it
or is refused. `Perform` is the thread pool, `Complete` both callbacks.
`AwaitElsewhere` and `ResumeFromElsewhere` stand for all other modules. With
`Strays` they may resume a coroutine that is suspended in a file operation:
that is the program of section 2 that is not quiet.

### NgxQueue and the code

The pointers `prev` and `next` of the queue head and of every node, with the
macros as assignments in their order. `order` is the history of what is queued.
A node is allocated for each input and never queued again, as in the code.

### Callbacks and the code

`slots` are the registry slots of a handle: its userdata, its thread (sockets
only) and its function; `COUV_LISTEN_CB_REG_KEY`, `COUV_TIMER_CB_REG_KEY` and
`COUV_EXIT_CB_REG_KEY` are one key. `owner[h]` is `handle->data`, `callback` the
thread whose stack the callback under way uses. A failed start, listen or spawn
is an action or a disjunct that leaves behind what the code has done by then.
`SpawnFails` has two: an option is invalid, or libuv refuses the process
("refused") when the exit callback is in its slot and the handle has been shown
to libuv (`process.c:187`). couv then keeps nothing for that handle. Whether libuv
goes on to list it while it is collected is libuv's affair and outside the model, so
`TargetsAlive` says nothing of it. `tcp_new` that fails is in `CouvIo`.

`kept` and `gone` are what the program refers to and what has been collected.
`Reachable` says what Lua's collector finds: slots, running and unstarted
threads, references of the program. A coroutine suspended in a close is in no
slot by that; one suspended in another call ("parked") is anchored by that call.
`Collect` may take any coroutine and any handle that libuv knows and that is not
reachable; whether other handles go makes no difference.

**What the program keeps.** couv anchors neither the thread of a timer or a
process nor the userdata of a timer that has not been started. The constant
`Keeps` says whether the program makes up for that: with `threads` it refers to
a coroutine until the timers and processes made on it are closed, and to a
handle until a slot holds it or it is closed. With `nothing` it keeps no rule, as
the coroutines of the tests, and `ExitFindsItsThread` fails.

Left out: the times and the repeat interval of a timer (it may have an interval
whenever it is asked for), the options of spawn and their arrays, listening
pipes (as for `tcp`, except that `close_cb` never releases a pipe), and functions
called back that close the handle directly on the stack of a coroutine.
`lua_yield` then raises an error out of `uv.run()`, after which nothing can be
said; the tests close in a new coroutine, and so does the model.

### Buffer and the code

`mem` holds the blocks with size and `ref_cnt`, `view` the `couv_buf_t` of each
Buffer and of each node of a queued input: block, offset, length. `known` are the
Buffers the program can reach; `buffer_gc` is the finalizer of one it cannot, and
that no suspended caller has on its stack (`pins`). `loan` holds the views that
`couv_checkbuforstrtable` copied for a request. `Take` moves the view of an input
into a Buffer, which the code does by copying the structure and forgetting the
node.

`Buffer` implements `SharedMemory`, which knows neither counts nor views: who
holds which block, a block that is freed in the step in which its last holder lets
go of it, and operations during which the blocks lent to them stay.

An access is a range: `CheckIndex` is `couv_argcheckindex`, which compares ints,
an `int` having 2 * `IntHalf` values. The macro does not put its arguments in
parentheses, so in `buf->buf.len - 3` its cast takes the length alone, and the 3 is
taken off an int: the bounds are written in this way, from `ToInt` of a length.
At lengths from 2^31 to 2^31 + 6 the bound of a wide number is less than the
least int. That is undefined, and `access` then notes it in `overran`; `Report`
notes an access that passed the checks and left the view. `copy`, `write` and `concat` shorten
what they copy as the code does. After an overrun nothing more is known and the
behaviour ends.

Left out: allocators (`concat` gives its array back with `free`, not with
`couv_free`, `buffer.c:676`) and their failure, `Buffer.new` of a negative length (the
conversion to `size_t` is undefined), empty arrays, strings in arrays (they have
no count) and a program that changes the table of a write while it is under way.

### BufferCodec and the code

`number` is what the program passes to an accessor. Each accessor is an operator
from a number to bytes or back, with the shifts and masks as division and remainder and the width of `int` where the code
relies on it (`UInt`, `SInt`). `Byte` is how many values a byte has, so that
instances are small. Floats and doubles are sequences of bytes that `memcpy_le`
and `memcpy_be` copy, on hosts of either order. These are pure functions:
`MCBuffer` has an initial state for each number, without a successor, and the
behaviours of `Buffer` for the number 0.

## 3. Model checking

Deadlock is not checked: programs end, and then nothing happens any more.

| Run | Instance | Shows |
|---|---|---|
| `io_any` | 2 coroutines, a tcp and a udp handle, 1 block, 2 inputs to the tcp handle, `any` | `TypeOK`, `ReadFifo`, `NoLostWakeup`, `RegistryReleased`, `AnchoredUnlessOpened` |
| `io_own` | 2 coroutines, a udp and a tty handle, 1 block, 1 input each, `own`, fair | `NoOrphanAwait`, `CallbackTargetsAnchored`, `AwaitReturns`, `KeepsLoosePromise` |
| `io_quiet` | 2 coroutines, 1 pipe, 2 blocks, 2 inputs, `quiet`, fair | `BufsStayReferenced`, `OwnAnswer`, `KeepsPromise`, `KeepsPromiseFairly` |
| `fs_ops` | 1 coroutine and the main thread, 1 block, all 24 functions | `TypeOK`, `ReturnsOutcome` |
| `fs_strays` | 2 coroutines, 2 blocks, open and exists, with strays, fair | `SlotsMatchRequests`, `NoOrphanAwait`, `RequestsFreed`, `KeepsLoosePromise` |
| `fs_quiet` | 2 coroutines, 2 blocks, read and close, fair | `BufferHeld`, `OwnAnswer`, `KeepsPromise`, `KeepsPromiseFairly` |
| `queue` | 5 nodes | `Linked`, `EmptyIsAccurate`, `ImplementsFifo` |
| `buffers` | 3 Buffers, 1 input, 1 request, 2 blocks, lengths 8, 10 and 19, inputs of 2, 4 arguments, ints of 18 values; bytes of 4 values | `TypeOK`, `RefCountsExact`, `NothingDangles`, `AccessInside`, `IntegersRoundTrip`, `WireOrder`, `ImplementsSharedMemory` |
| `callbacks` | 2 coroutines and the main thread, a timer, a process and a listener, `threads` | `TypeOK`, `CallbackReady`, `TargetsAlive`, `Released` |

Three more runs each end in a counterexample, to what a comment, a note or a
test of the repository says:

| Run | Property | Counterexample |
|---|---|---|
| `io_foreign_close` | `ForeignCloseFindsOwnerAwake`: the comment at `handle.c:30` | c2 closes a handle that c1 created while c1 is suspended in getaddrinfo; that call returns without its answer, and c2 stays in its close |
| `io_read` | `ReadReturnsInput`: the loop of `test-tcp.lua:19` compares the first result of read with numbers | input ends a write early, the coroutine reads, the write fails, and the read returns the name of its error |
| `callbacks_collected` | `ExitFindsItsThread`: the test `spawn.kill` (`test-spawn.lua:302-313`) spawns in a coroutine that ends, and expects the exit callback | the coroutine is collected before the process exits; `exit_cb` then pushes on its stack. The collection needs Lua code that allocates in the meantime, such as another callback |

**Bounds.** `MaxInput` bounds the inputs of each handle (`Silent` handles get
none); everything else is finite
because the sets are. Two coroutines and two blocks suffice for a completion to
meet the wrong call, a block to be used again by another coroutine, and a
foreign close; two inputs for a reader to be woken while another input is
queued. In `buffers` `Args` bounds the numbers a program passes and `MaxTotal`
what concat allocates. An `int` ends at 8, so that numbers of each width fit the
length 8 and slices of it; 10 and 19 are above `INT_MAX`, 10 turning into -8, of which
the width of a number cannot be subtracted any more, and 19 into 1; 2, the size
of an input, is shorter than the wider numbers. The arguments are the least int,
both sides of the first position and one in the middle; `last` may be the length, too. Three Buffers
are a Buffer, its slice and a target; a request or a concat takes at most two
(`Arrays`, `Lists`, also in the theorems). In
`callbacks` two coroutines let one start what the other, or the main thread,
uses and closes; one handle of each type suffices because the handles share
nothing but the threads. In `io_any` one handle is a tcp handle, the only type
whose owner can change, and the other of a type that keeps its owner; nothing is
sent to that one, which the reads of the first need not share. What these bounds
cannot show is what the theorems add. Symmetry is used only where no liveness is
checked.

What a run assumes, it does not catch. Input in the middle of another call
(`stream.c:105`, `udp.c:174`, `couv.c:329`) and the late answers it leads to are
what `quiet` forbids, so `OwnAnswer`, `BufsStayReferenced` and `KeepsPromise` say that
nothing else breaks a call; `io_read` and `LooseAwait` show what happens without
it. `own` excludes closing (`handle.c:33`) or opening (`tcp.c:72`) a handle of another,
which `io_foreign_close` and `AnchoredUnlessOpened` are about. `fs_quiet` has no
strays; `fs_strays` has. `Keeps = "threads"` has the program hold what timers and
processes do not (`timer.c:37`, `:72`, `process.c:196`); `callbacks_collected` does
without.

**Fairness.** A running coroutine eventually yields or ends (weak): Lua is
cooperative, and a program that does not do so has stopped the loop by itself.
Every pending request and closing handle is eventually called back (strong):
`uv_run` serves all of them in each iteration, but they are disabled while a
coroutine runs. For a write, send or connect this also assumes of the peer, or of
the network, that the request comes to an end, with success or without: what
`AwaitReturns` and `KeepsPromiseFairly` promise is promised on that condition. Input is not fair: nobody has to send. The thread pool performs
what is queued (weak).

## 4. Theorems

| Theorem | Property | For |
|---|---|---|
| `TypeCorrect`, `FifoCorrect`, `NoWakeupLost` | `TypeOK`, `ReadFifo`, `NoLostWakeup` | every program |
| `NobodyLeftBehind` | `NoOrphanAwait` | `own` and `quiet` |
| `OwnAnswerCorrect`, `BufsReferenced`, `CouvIoImplementsAwait` | `OwnAnswer`, `BufsStayReferenced`, `KeepsPromise` | `quiet` |
| `SlotsMatch`, `NoFsOrphan` | `SlotsMatchRequests`, `NoOrphanAwait` (files) | every program |
| `FsImplementsLooseAwait` | `KeepsLoosePromise` (files) | every program |
| `OutcomesReturned`, `FsBufferHeld`, `FsOwnAnswer`, `FsImplementsAwait` | `ReturnsOutcome`, `BufferHeld`, `OwnAnswer`, `KeepsPromise` (files) | without strays |
| `ClosedIsReleased` | `RegistryReleased` | every program |
| `TargetsAnchored` | `CallbackTargetsAnchored` | `own` and `quiet` |
| `AnchoredInEveryProgram` | `AnchoredUnlessOpened` | every program |
| `CouvIoImplementsLooseAwait` | `KeepsLoosePromise` | `own` and `quiet` |
| `FsTypeCorrect` | `TypeOK` (files) | every program |
| `RingKept`, `EmptyIsRight`, `QueueImplementsFifo` | `Linked`, `EmptyIsAccurate`, `ImplementsFifo` | every set of nodes |
| `Typing`, `CallbacksReady`, `AllReleased` | `TypeOK`, `CallbackReady`, `Released` (callbacks) | every program |
| `Alive` | `TargetsAlive` | a program that keeps its `threads` |
| `ListenersHeld` | a listening socket libuv knows, and its thread, are not collected | every program |
| `Typing`, `Counting`, `Safety`, `Bounds`, `CountingImplementsSharedMemory` | `TypeOK`, `RefCountsExact`, `NothingDangles`, `AccessInside`, `ImplementsSharedMemory` (Buffers) | every program, sizes and width of an int |
| `RoundTrip` | `IntegersRoundTrip` | a signed `char` |
| `UnsignedCharLosesSign` | `readInt8` returns no negative number as it was written | an unsigned `char` |
| `OnTheWire` | `WireOrder` | bytes of any even number of values, hosts of either order |

They hold for any sets of coroutines, handles and blocks and any `MaxInput`,
from the named assumptions of the modules: `ActorsAssumption` and
`ParametersAssumption` (the sets are disjoint, the constants have their types),
`CallbackActors` and `CallbackTypes`, `BufferActors` (finitely many Buffers and
inputs), `BufferSizes` and `ByteAssumption`, and, where the table says so, an assumption on `Discipline` or `Strays`.

**The I/O core.** Each invariant is a conjunction of named parts.

* `FifoInv`: the types, `ReadFifo`, and that a handle not yet created has
  received nothing and is not being read from, so that a new handle starts in
  order. Every other step either appends the next number to the queue or moves
  its head to `taken`.
* `WakeupInv`: `NoLostWakeup` is inductive with the types alone, because a read
  suspends only after it found the queue empty, and `read_cb` wakes the owner in
  the step that fills it.
* `OrphanInv`: `NoOrphanAwait` needs `BlocksWellFormed`: an outstanding request
  of a handle is on a handle that exists (whose owner, under `own`, no longer
  changes: only `tcp_open` could do that, and the owner calls it), any
  other has a coroutine as its caller, and only a sleep is closed before it is
  freed. A step that suspends nobody and takes from nobody what it awaits is
  dealt with once, in `AwaitFrame`.
* `BlocksInv` is the types with `BlocksWellFormed`, and holds in every program,
  since nothing in it is about who owns a handle.
* `AnchorInv` is `BlocksInv` with `HandlesAnchored`, a handle that libuv knows has
  its userdata and its owner in the registry, and `BlocksAnchored`, a request on
  a handle is on one that libuv knows, any other has its caller in its slot. A
  handle is closed only when no request is on it. `tcp_open` is the one step that
  gives a handle another owner and leaves the slot alone; `opened` tells the tcp
  handles to which this has happened, whose slot still holds the creator. With `own`
  and `quiet` there are none, because the creator alone may open it again. That gives both
  `AnchoredInEveryProgram` and `TargetsAnchored`.
* `CouvIoImplementsLooseAwait` needs `OrphanInv` only: a callback ends one
  operation and resumes one coroutine, and `NoOrphanAwait` says that whoever
  still awaits the operation is that coroutine. Every other step is a call, the
  start of an operation nobody awaits, an early wake-up or a stutter.
* `ReleasedInv`: `RegistryReleased` needs `ListenSlots`, only types whose clean-up
  empties a listen slot have one.
* `QuietInv` adds the reason why no stray wake-up exists. `CallersAwait`: each
  outstanding block has its caller suspended in it. `ClosersAwait`: a coroutine
  that owns a closing handle is suspended in that close. `ReadersRead`: a handle
  that is being read is open, and its owner, if suspended, is in a read. So
  whoever a callback resumes awaits that callback. `OwnAnswer` and the simulation
  of `Await` follow step by step: a call is `Call`, a callback `Answer`, a close
  by the main thread `Post` and `Expire`.

**Files.** `FsInv` consists of the types, `SlotsMatchRequests`, `NoOrphanAwait`,
`RequestsWellFormed` (a request in flight has a coroutine as its caller, and an
outcome exactly when it is done) and `AwakeAwaitNothing` (who awaits a request is
suspended). Without strays `QuietFsInv` adds the converse of `NoOrphanAwait`, in
`CallersAwait`: a request in flight has its caller suspended in it. `FsOwnAnswer`
and `Await` follow from that, `LooseAwait` from `FsInv` alone, with strays too.

**The queue.** The invariant is `Linked` together with `Distinct`: the queued
nodes are distinct. From both, the neighbours of the head and of the last node
are known, and so what the two pointer updates of a removal or of an insertion
change. A node about to be inserted has a nil `next`, hence is not in the ring.

**Callbacks.** `Inv` has six parts beside the types. `Ready` is `CallbackReady`
and `StartedReady`, for a timer that was started once and that `again` may start
without filling a slot. `ThreadSlots`: only sockets have thread slots, so that
the clean-up of each type empties all of its own. `Released`. `Anchors`, for
`threads`: what libuv knows is reachable, and so is the thread it was made on,
by a slot or because the program keeps it; `Collect` cannot take either.
`Collected`: what is gone neither runs nor is kept, so that no new handle is made
on it. `HeldAlive` is the registry's own share, for every `Keeps`: no handle is
gone while its userdata slot is filled, nor a thread while the slot of one of its
sockets is. Sockets have both filled from the start, hence `ListenersHeld`.

**Buffers.** `Inv` is the types, `RefCountsExact`, `NothingDangles` and
`LoansPinned`: a view that a request works from is still the view of a Buffer on
its caller's stack, which no finalizer touches. A step makes a view of a new
block, adds one to a block, removes one or moves one, and each is a lemma about
the number of holders. For `SharedMemory` the same steps are an `Alloc`, `Share`,
`Release` or `Move`: that a finalizer frees exactly when nobody else holds the block
is the count, and that no request then works in it is `LoansPinned`. `Bounds` rests on `ToIntBelow`: a length truncated to an
`int` never grows, so an index that passes the check is below the length; and a
bound less than the least int needs a length above the greatest. For
`concat`, no overrun without lengths beyond an `int` follows from what is left of
the total, a function whose value at each index the proof bounds.

**Numbers.** Division and remainder by a variable base are beyond the solvers;
`DivModUnique` and `DivDiv` give them what they need, `TwoDigits` and
`FourDigits` put a number together from its bytes again, and the signed
accessors reduce to the unsigned ones.

The order of the bytes is a matter of shifting digits: `LowDigits` and `DivDiv` make
the bytes that an accessor writes the digits of its number modulo the width
(`Wire16`, `Wire32`), also of one out of range. BE is LE reversed, and floats
need only that reversing twice changes nothing.

**Only model-checked.** Liveness (`AwaitReturns`, `KeepsPromiseFairly`,
`RequestsFreed`) is beyond the prover. Every invariant and every action property
or safety refinement of a passing run is proved, with one limit: a property that
needs an assumption on the program (`Discipline`, `Strays`, `Keeps`) or on `char`
is proved under it, and checked in a run that makes it.

## 5. Not modelled, and the plan

The plan is carried out except for:

1. The addresses of datagrams (a sender is copied as IPv4, `udp.c:169`).
2. Requests by the main thread, which starts them before `lua_yield` fails.
3. The two kinds of nodes in the queue of a pipe (`pipe.c:175`), and the memory
   of nodes, which no path frees.
4. The option arrays of spawn, which a failure leaves behind (`process.c:189`), as
   a refused write, write2 or send leaves its array (`stream.c:226`) although
   the note at `couv-private.h:201` asks callers to free it. `CouvIo` keeps such a
   block as "leaked".

Left out for good: values without state (system information, addresses as text
in `sockaddr.c`, options that pass through to libuv), the thin loop functions,
the registration of classes and the check of a userdata's class in `auxlib.c`
(every action takes it that the class is right), allocation failure, several
loops, a program that calls `uv.run()` from a coroutine, and coroutines that
start coroutines.
