------------------------------- MODULE Buffer -------------------------------
(***************************************************************************)
(* couv.Buffer (src/buffer.c, src/buf_alloc.c): blocks of memory counted   *)
(* by reference and the views of them.  A Buffer is a userdata with a view *)
(* (couv_buf_t); a slice is another view of the same block.  The node of   *)
(* an input that read_cb or udp_recv_cb queued holds a view too, and the   *)
(* call that takes the input moves it into a Buffer.  The finalizer of a   *)
(* Buffer gives its reference back.  A request (write, send, fs.read, ...) *)
(* copies the views of its Buffers into an array libuv works from while    *)
(* the caller is suspended: the caller's stack keeps the Buffers, which    *)
(* BufsStayReferenced of CouvIo and BufferHeld of FsRequest are about.     *)
(* What the bytes are is left to BufferCodec; here an access is a range.   *)
(***************************************************************************)
EXTENDS Integers, Sequences, FiniteSets

CONSTANTS
    Mems,       \* blocks of memory
    Bufs,       \* Buffers, as userdata
    Nodes,      \* nodes of queued inputs
    Ops,        \* requests in flight
    Nil,
    IntHalf,    \* INT_MAX + 1: 2^31
    Sizes,      \* bound: the lengths Buffer.new is given
    Args,       \* bound: the ints the program passes
    MaxTotal,   \* bound: the longest Buffer that concat is let make
    Suggested   \* the size libuv suggests to alloc_cb: 65536

Blocks == [size : Nat, ref : Int]
Views  == [orig : Mems, base : Nat, len : Nat]

ASSUME BufferActors == /\ Bufs \cap Nodes = {}
                       /\ Nil \notin Blocks \cup Views \cup Mems
                       /\ IsFiniteSet(Bufs) /\ IsFiniteSet(Nodes)
ASSUME BufferSizes == /\ IntHalf \in Nat /\ IntHalf >= 8
                      /\ Sizes \subseteq Nat /\ Suggested \in Nat
                      /\ Args \subseteq -IntHalf .. IntHalf - 1
                      /\ MaxTotal \in Nat

VARIABLES
    mem,      \* a block: Nil, or its size and its reference count
    view,     \* of a Buffer or node: Nil, or its block, the offset in it, the length
    known,    \* the Buffers the program can still reach
    loan,     \* of a request: the Buffers on the caller's stack and the copied views
    overran   \* the access that left its views or whose check is undefined, if
              \* there was one, and whether a length or total was too wide for an int

vars == <<mem, view, known, loan, overran>>

None == [op |-> "none", wide |-> FALSE]
Idle == [pins |-> {}, bufs |-> {}]

TypeOK ==
    /\ mem \in [Mems -> Blocks \cup {Nil}]
    /\ view \in [Bufs \cup Nodes -> Views \cup {Nil}]
    /\ known \subseteq {b \in Bufs : view[b] # Nil}
    /\ loan \in [Ops -> [pins : SUBSET Bufs, bufs : SUBSET Views]]
    /\ overran \in [op : {"none", "access", "fill", "copy", "write", "concat"},
                    wide : BOOLEAN]

Init ==
    /\ mem = [m \in Mems |-> Nil]
    /\ view = [x \in Bufs \cup Nodes |-> Nil]
    /\ known = {}
    /\ loan = [o \in Ops |-> Idle]
    /\ overran = None
----------------------------------------------------------------------------
(***************************************************************************)
(* couv_argcheckindex compares ints.  It puts its cast before the bound    *)
(* without parentheses, so that of `buf->buf.len - 3' the cast takes the   *)
(* length alone, and the subtraction is one of ints: the bounds below are  *)
(* written the way they are computed, from ToInt of a length.              *)
(***************************************************************************)
MaxInt == IntHalf - 1

ToInt(y) == ((y + IntHalf) % (2 * IntHalf)) - IntHalf

\* Faulty variant: without the cast the comparison is made in size_t.
CheckIndexUncast(index, min, max) ==
    min <= index /\ index <= max % ((2 * IntHalf) * (2 * IntHalf))

CheckIndex(index, min, max) == min <= index /\ index <= max

\* The n bytes from the offset-th on lie in the view v (memcpy of n <= 0 is skipped).
Within(v, offset, n) == n > 0 => offset >= 0 /\ offset + n <= v.len

Report(op, inside) == overran' = IF inside THEN overran ELSE [op |-> op, wide |-> FALSE]

mem_alloc(m, n)  == mem[m] = Nil /\ mem' = [mem EXCEPT ![m] = [size |-> n, ref |-> 1]]

\* Faulty variant: the count stays as it is.
mem_retainNothing(m) == mem' = mem

mem_retain(m)    == mem' = [mem EXCEPT ![m].ref = @ + 1]

\* Faulty variant: the count is compared before it is decremented.
mem_releasePostDecrement(m) ==
    mem' = [mem EXCEPT ![m] = IF @.ref = 0 THEN Nil ELSE [size |-> @.size, ref |-> @.ref - 1]]

mem_release(m)   ==
    mem' = [mem EXCEPT ![m] = IF @.ref - 1 = 0
                                THEN Nil
                                ELSE [size |-> @.size, ref |-> @.ref - 1]]

Whole(m, n) == [orig |-> m, base |-> 0, len |-> n]

\* A view moves into a Buffer the program gets.
Push(b, v) == view' = [view EXCEPT ![b] = v] /\ known' = known \cup {b}
----------------------------------------------------------------------------
New(b, m, n) ==
    /\ view[b] = Nil
    /\ mem_alloc(m, n)
    /\ Push(b, Whole(m, n))
    /\ UNCHANGED <<loan, overran>>

\* `first' and `last' default to 1 and the length.
Ends(b) == Args \cup {ToInt(view[b].len)}

\* Faulty variant: the range may end before it begins.
CheckRangeEachEnd(b, first, last) ==
    LET len == ToInt(view[b].len) IN
    CheckIndex(first, 1, len) /\ CheckIndex(last, 1, len)

\* Faulty variant: the range may end one byte after the view.
CheckRangeInclusive(b, first, last) ==
    LET len == ToInt(view[b].len) IN
    CheckIndex(first, 1, len) /\ CheckIndex(last, first, len + 1)

CheckRange(b, first, last) ==
    LET len == ToInt(view[b].len) IN
    CheckIndex(first, 1, len) /\ CheckIndex(last, first, len)

slice(b, s, first, last) ==
    /\ b \in known /\ view[s] = Nil
    /\ CheckRange(b, first, last)
    /\ mem_retain(view[b].orig)
    /\ Push(s, [orig |-> view[b].orig, base |-> view[b].base + first - 1,
                len |-> last - first + 1])
    /\ UNCHANGED <<loan, overran>>

\* The accessors of numbers of 1, 2, 4 and 8 bytes.  At some of the lengths that
\* an int cannot hold their bound is less than the least int: what the check then
\* does is undefined, so the program is not followed any further.
access(b, width, position) ==
    /\ b \in known
    /\ LET most == ToInt(view[b].len) - (width - 1) IN
       \/ /\ most >= -IntHalf
          /\ CheckIndex(position, 1, most)
          /\ Report("access", Within(view[b], position - 1, width))
       \/ /\ most < -IntHalf
          /\ 1 <= position
          /\ overran' = [op |-> "access", wide |-> view[b].len > MaxInt]
    /\ UNCHANGED <<mem, view, known, loan>>

\* fill and toString
fill(b, first, last) ==
    /\ b \in known
    /\ CheckRange(b, first, last)
    /\ Report("fill", Within(view[b], first - 1, last - first + 1))
    /\ UNCHANGED <<mem, view, known, loan>>

AtMost(n, most) == IF n > most THEN most ELSE n

copy(b, target, target_first, first, last) ==
    /\ b \in known /\ target \in known
    /\ CheckIndex(target_first, 1, ToInt(view[target].len))
    /\ CheckRange(b, first, last)
    /\ LET n == AtMost(last - first + 1, ToInt(view[target].len) - target_first + 1) IN
       Report("copy", /\ Within(view[target], target_first - 1, n)
                      /\ Within(view[b], first - 1, n))
    /\ UNCHANGED <<mem, view, known, loan>>

\* Of a string of str_len bytes.
write(b, str_len, position, length) ==
    /\ b \in known
    /\ CheckIndex(position, 1, ToInt(view[b].len))
    /\ CheckIndex(length, 0, ToInt(view[b].len) - position + 1)
    /\ LET n == AtMost(length, ToInt(str_len)) IN
       Report("write", /\ Within(view[b], position - 1, n)
                       /\ n > 0 => n <= str_len)
    /\ UNCHANGED <<mem, view, known, loan>>
----------------------------------------------------------------------------
(***************************************************************************)
(* Buffer.concat adds the lengths up in an int, has Buffer.new make the    *)
(* target and copies while something is left of the total.  Without a      *)
(* valid target, or with a length that is negative as an int, it copies    *)
(* into or from memory that is not there.  The array of views it works     *)
(* from, which it gives back with free and not couv_free, is left out.     *)
(***************************************************************************)
Length(list) == [i \in DOMAIN list |-> view[list[i]].len]

SumTo(len) == LET sum[i \in 0 .. Len(len)] == IF i = 0 THEN 0 ELSE sum[i - 1] + len[i]
              IN  sum

Total(len, given) == IF given = 0 THEN ToInt(SumTo(len)[Len(len)]) ELSE given

\* What is left of the total after each of the copies.
Left(len, total) ==
    LET left[i \in 0 .. Len(len)] ==
          IF i = 0 THEN total ELSE left[i - 1] - AtMost(ToInt(len[i]), left[i - 1])
    IN  left

Sound(len, total) ==
    /\ total >= 0
    /\ \A i \in DOMAIN len :
          Left(len, total)[i - 1] > 0 =>
             LET n == AtMost(ToInt(len[i]), Left(len, total)[i - 1]) IN
             /\ 0 <= n /\ n <= len[i]
             /\ total - Left(len, total)[i - 1] + n <= total

\* Something about the arguments does not fit an int, or the total is no length.
Wide(len, given) ==
    \/ given < 0
    \/ \E i \in DOMAIN len : len[i] > MaxInt
    \/ given = 0 /\ SumTo(len)[Len(len)] > MaxInt

concat(list, given, b, m) ==
    /\ \A i \in DOMAIN list : list[i] \in known
    /\ view[b] = Nil /\ mem[m] = Nil
    /\ LET len   == Length(list)
           total == Total(len, given) IN
       IF Sound(len, total)
         THEN /\ total <= MaxTotal
              /\ mem_alloc(m, total)
              /\ Push(b, Whole(m, total))
              /\ UNCHANGED overran
         ELSE /\ overran' = [op |-> "concat", wide |-> Wide(len, given)]
              /\ UNCHANGED <<mem, view, known>>
    /\ UNCHANGED loan
----------------------------------------------------------------------------
Pinned == UNION {loan[o].pins : o \in Ops}

\* The program, or a stack that held the Buffer, lets go of it.
Drop(b) ==
    /\ b \in known
    /\ known' = known \ {b}
    /\ UNCHANGED <<mem, view, loan, overran>>

\* The collector runs the finalizer of a Buffer nothing refers to.
buffer_gc(b) ==
    /\ view[b] # Nil /\ b \notin known /\ b \notin Pinned
    /\ mem_release(view[b].orig)
    /\ view' = [view EXCEPT ![b] = Nil]
    /\ UNCHANGED <<known, loan, overran>>

\* alloc_cb and then read_cb or udp_recv_cb, whatever was read, even nothing.
Input(x, m) ==
    /\ view[x] = Nil
    /\ mem_alloc(m, Suggested)
    /\ view' = [view EXCEPT ![x] = Whole(m, Suggested)]
    /\ UNCHANGED <<known, loan, overran>>

\* _read, _read2 and _recv: the view moves to the Buffer with its reference.
Take(x, b) ==
    /\ view[x] # Nil /\ view[b] = Nil
    /\ view' = [view EXCEPT ![b] = view[x], ![x] = Nil]
    /\ known' = known \cup {b}
    /\ UNCHANGED <<mem, loan, overran>>

\* A request takes an array of Buffers; couv_checkbuforstrtable copies their views.
Start(o, S) ==
    /\ loan[o] = Idle
    /\ S \subseteq known /\ S # {}
    /\ loan' = [loan EXCEPT ![o] = [pins |-> S, bufs |-> {view[b] : b \in S}]]
    /\ UNCHANGED <<mem, view, known, overran>>

Done(o) ==
    /\ loan[o] # Idle
    /\ loan' = [loan EXCEPT ![o] = Idle]
    /\ UNCHANGED <<mem, view, known, overran>>

\* Bound: a request or concat takes at most two Buffers.
Arrays == {{b, c} : b, c \in Bufs}
Lists == {<<>>} \cup {<<b>> : b \in Bufs} \cup {<<b, c>> : b, c \in Bufs}

Use(b) ==
    \/ \E s \in Bufs, first \in Args, last \in Ends(b) : slice(b, s, first, last)
    \/ \E width \in {1, 2, 4, 8}, position \in Args : access(b, width, position)
    \/ \E first \in Args, last \in Ends(b) : fill(b, first, last)
    \/ \E t \in Bufs, tfirst, first \in Args, last \in Ends(b) :
          copy(b, t, tfirst, first, last)
    \/ \E n \in Sizes, position, length \in Args : write(b, n, position, length)

\* Once an access has overrun nothing more is known of the program.
Next ==
    /\ overran = None
    /\ \/ \E b \in Bufs, m \in Mems, n \in Sizes : New(b, m, n)
       \/ \E b \in known : Use(b)
       \/ \E list \in Lists, given \in Args, b \in Bufs, m \in Mems :
             concat(list, given, b, m)
       \/ \E b \in Bufs : Drop(b) \/ buffer_gc(b)
       \/ \E x \in Nodes, m \in Mems : Input(x, m)
       \/ \E x \in Nodes, b \in Bufs : Take(x, b)
       \/ \E o \in Ops, S \in Arrays : Start(o, S)
       \/ \E o \in Ops : Done(o)

Spec == Init /\ [][Next]_vars
----------------------------------------------------------------------------
Holders(m) == {x \in Bufs \cup Nodes : view[x] # Nil /\ view[x].orig = m}

\* The count of a block is the number of views of it, in Buffers and in queued
\* inputs, and a block is there for as long as it has one: none is freed twice,
\* and none is left over (src/buffer.c:6-31, 123-128, 498; src/stream.c:140).
RefCountsExact ==
    \A m \in Mems : IF mem[m] = Nil
                      THEN Holders(m) = {}
                      ELSE mem[m].ref = Cardinality(Holders(m)) /\ mem[m].ref > 0

InBlock(v) == mem[v.orig] # Nil /\ v.base + v.len <= mem[v.orig].size

\* No view reaches out of its block or outlives it: neither a Buffer's, whatever
\* was sliced from whatever and in whichever order they are collected, nor an
\* input's, nor those libuv works from (src/buffer.c:58-84, 486-504).
NothingDangles ==
    /\ \A x \in Bufs \cup Nodes : view[x] # Nil => InBlock(view[x])
    /\ \A o \in Ops : \A v \in loan[o].bufs : InBlock(v)

\* The checks of the indices, made on ints, keep every access inside the view it
\* is made through, also at lengths an int cannot hold.  There are two exceptions,
\* both at such lengths only: the bound of a number accessor may overflow, which
\* is undefined, and concat copies with lengths or a total that do not fit an int
\* (include/couv-private/couv-private.h:206, src/buffer.c:130-565, 642-678).
AccessInside == overran # None => overran.op \in {"access", "concat"} /\ overran.wide
----------------------------------------------------------------------------
(***************************************************************************)
(* SharedMemory, held by Buffers and queued inputs and used by requests.   *)
(***************************************************************************)
Memory == INSTANCE SharedMemory WITH
    Users <- Bufs \cup Nodes, None <- Nil,
    live <- {m \in Mems : mem[m] # Nil},
    holds <- [x \in Bufs \cup Nodes |-> IF view[x] = Nil THEN Nil ELSE view[x].orig],
    lent <- [o \in Ops |-> {v.orig : v \in loan[o].bufs}]

\* A block goes in the very step in which the last Buffer or input with a view of
\* it does, and never under a request that libuv still works on, in whatever order
\* slices, originals, inputs and arrays of Buffers are made, moved and finalized
\* (src/buffer.c:6-31, 123-128, 498; src/stream.c:140).
ImplementsSharedMemory == Memory!Spec
=============================================================================
