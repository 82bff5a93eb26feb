---------------------------- MODULE BufferProofs ----------------------------
(***************************************************************************)
(* Theorems about Buffer, for any number of blocks, Buffers, inputs and    *)
(* requests and any width of an int.                                       *)
(***************************************************************************)
EXTENDS Buffer, FiniteSetTheorems, SequenceTheorems, TLAPS

\* The Buffers whose views libuv holds are on the stack of the suspended caller.
LoansPinned ==
    \A o \in Ops : \A v \in loan[o].bufs : \E b \in loan[o].pins : view[b] = v

Inv == TypeOK /\ RefCountsExact /\ NothingDangles /\ LoansPinned
----------------------------------------------------------------------------
LEMMA ModBelow ==
    ASSUME NEW z \in Nat, NEW M \in Nat, M > 0
    PROVE  z % M \in 0 .. M - 1 /\ z % M <= z
<1>1. z % M \in 0 .. M - 1 /\ z = M * (z \div M) + (z % M) /\ z \div M \in Nat
    OBVIOUS
<1>2. M * (z \div M) >= 0
    BY <1>1
<1> QED BY <1>1, <1>2

LEMMA ModSmall ==
    ASSUME NEW M \in Nat, M > 0, NEW z \in 0 .. M - 1
    PROVE  z % M = z
    OBVIOUS

\* The truncation to an int never goes up, from the least int on.
LEMMA ToIntBelow ==
    ASSUME NEW y \in Int, y >= -IntHalf
    PROVE  ToInt(y) \in Int /\ ToInt(y) <= y /\ -IntHalf <= ToInt(y) /\ ToInt(y) <= MaxInt
<1>1. IntHalf \in Nat /\ 2 * IntHalf \in Nat /\ 2 * IntHalf > 0 /\ y + IntHalf \in Nat
    BY BufferSizes
<1>2. /\ (y + IntHalf) % (2 * IntHalf) \in 0 .. 2 * IntHalf - 1
      /\ (y + IntHalf) % (2 * IntHalf) <= y + IntHalf
    BY <1>1, ModBelow
<1> QED BY <1>1, <1>2 DEF ToInt, MaxInt

\* An int is its own truncation.
LEMMA ToIntOfInt ==
    ASSUME NEW y \in Int, -IntHalf <= y, y <= MaxInt
    PROVE  ToInt(y) = y
<1>1. /\ IntHalf \in Nat /\ 2 * IntHalf \in Nat /\ 2 * IntHalf > 0
      /\ y + IntHalf \in 0 .. 2 * IntHalf - 1
    BY BufferSizes DEF MaxInt
<1>2. (y + IntHalf) % (2 * IntHalf) = y + IntHalf
    BY <1>1, ModSmall
<1> QED BY <1>1, <1>2 DEF ToInt

LEMMA HoldersFinite ==
    ASSUME NEW m
    PROVE  IsFiniteSet(Holders(m)) /\ Cardinality(Holders(m)) \in Nat
<1>1. IsFiniteSet(Bufs \cup Nodes)
    BY BufferActors, FS_Union
<1>2. Holders(m) \in SUBSET (Bufs \cup Nodes)
    BY DEF Holders
<1>3. IsFiniteSet(Holders(m))
    BY <1>1, <1>2, FS_Subset
<1> QED BY <1>3, FS_CardinalityType
----------------------------------------------------------------------------
(***************************************************************************)
(* The four ways a step touches the blocks and the views: a view of a new  *)
(* block, one more view of a block, one view less, and a view that moves.  *)
(***************************************************************************)
Counted(k) == IF mem[k] = Nil
                THEN Holders(k) = {}
                ELSE mem[k].ref = Cardinality(Holders(k)) /\ mem[k].ref > 0

Slots == Bufs \cup Nodes

LEMMA FreshView ==
    ASSUME TypeOK, RefCountsExact,
           NEW x \in Slots, view[x] = Nil, NEW m \in Mems, NEW n \in Nat,
           mem_alloc(m, n), view' = [view EXCEPT ![x] = Whole(m, n)]
    PROVE  RefCountsExact' /\ mem'[m] = [size |-> n, ref |-> 1]
<1>1. Whole(m, n) \in Views /\ Whole(m, n).orig = m /\ Whole(m, n) # Nil
    BY BufferActors DEF Whole, Views
<1>2. mem' = [mem EXCEPT ![m] = [size |-> n, ref |-> 1]] /\ mem[m] = Nil
    BY DEF mem_alloc
<1>3. mem'[m] = [size |-> n, ref |-> 1] /\ mem'[m] \in Blocks /\ mem'[m] # Nil
    BY <1>2, BufferActors DEF TypeOK, Blocks
<1>4. ASSUME NEW k \in Mems PROVE Counted(k)'
    <2>1. CASE k = m
        <3>1. Holders(m) = {}
            BY <1>2 DEF RefCountsExact
        <3>2. Holders(m)' = {x}
            BY <3>1, <1>1 DEF Holders, TypeOK, Slots
        <3>3. Cardinality(Holders(m)') = 1
            BY <3>2, FS_Singleton
        <3> QED BY <2>1, <1>3, <3>3 DEF Counted
    <2>2. CASE k # m
        <3>1. Holders(k)' = Holders(k)
            BY <2>2, <1>1 DEF Holders, TypeOK, Slots
        <3>2. mem'[k] = mem[k]
            BY <2>2, <1>2 DEF TypeOK
        <3> QED BY <3>1, <3>2 DEF Counted, RefCountsExact
    <2> QED BY <2>1, <2>2
<1> QED BY <1>3, <1>4 DEF RefCountsExact, Counted

LEMMA SharedView ==
    ASSUME TypeOK, RefCountsExact,
           NEW x \in Slots, view[x] = Nil, NEW v \in Views, mem[v.orig] # Nil,
           mem_retain(v.orig), view' = [view EXCEPT ![x] = v]
    PROVE  /\ RefCountsExact'
           /\ \A k \in Mems : mem[k] # Nil => mem'[k] # Nil /\ mem'[k].size = mem[k].size
<1> DEFINE m == v.orig
<1>1. m \in Mems /\ v # Nil /\ mem[m] \in Blocks
    BY BufferActors DEF Views, TypeOK
<1>2. mem'[m] = [mem[m] EXCEPT !.ref = @ + 1] /\ \A k \in Mems : k # m => mem'[k] = mem[k]
    BY <1>1 DEF mem_retain, TypeOK
<1>3. /\ mem'[m] \in Blocks /\ mem'[m].ref = mem[m].ref + 1
      /\ mem'[m].size = mem[m].size /\ mem'[m] # Nil
    BY <1>1, <1>2, BufferActors DEF Blocks
<1>4. ASSUME NEW k \in Mems PROVE Counted(k)'
    <2>1. CASE k = m
        <3>1. x \notin Holders(m) /\ Holders(m)' = Holders(m) \cup {x}
            BY <1>1 DEF Holders, TypeOK, Slots
        <3>2. Cardinality(Holders(m)') = Cardinality(Holders(m)) + 1
            BY <3>1, HoldersFinite, FS_AddElement
        <3>3. mem[m].ref = Cardinality(Holders(m)) /\ mem[m].ref > 0
            BY <1>1 DEF RefCountsExact
        <3> QED BY <2>1, <1>3, <3>2, <3>3, HoldersFinite DEF Counted
    <2>2. CASE k # m
        <3>1. Holders(k)' = Holders(k)
            BY <2>2, <1>1 DEF Holders, TypeOK, Slots
        <3> QED BY <2>2, <3>1, <1>2 DEF Counted, RefCountsExact
    <2> QED BY <2>1, <2>2
<1> QED BY <1>2, <1>3, <1>4 DEF RefCountsExact, Counted

LEMMA DroppedView ==
    ASSUME TypeOK, RefCountsExact,
           NEW x \in Slots, view[x] # Nil,
           mem_release(view[x].orig), view' = [view EXCEPT ![x] = Nil]
    PROVE  /\ RefCountsExact'
           /\ mem' \in [Mems -> Blocks \cup {Nil}]
           /\ \A y \in Slots : y # x /\ view[y] # Nil =>
                 /\ mem'[view[y].orig] # Nil
                 /\ mem'[view[y].orig].size = mem[view[y].orig].size
<1>0. PICK m \in Mems : m = view[x].orig
    BY DEF Views, TypeOK, Slots
<1>1. x \in Holders(m)
    BY <1>0 DEF Slots, Holders
<1>2. mem[m] # Nil /\ mem[m] \in Blocks
      /\ mem[m].ref = Cardinality(Holders(m)) /\ mem[m].ref > 0
    BY <1>1 DEF RefCountsExact, TypeOK
<1> DEFINE next == IF mem[m].ref - 1 = 0 THEN Nil
                   ELSE [size |-> mem[m].size, ref |-> mem[m].ref - 1]
<1>21. mem' = [mem EXCEPT ![m] = next]
    BY <1>0 DEF mem_release
<1>22. next \in Blocks \cup {Nil}
    BY <1>2 DEF Blocks
<1>3. /\ mem'[m] = IF mem[m].ref - 1 = 0 THEN Nil ELSE [size |-> mem[m].size, ref |-> mem[m].ref - 1]
      /\ \A k \in Mems : k # m => mem'[k] = mem[k]
    <2> HIDE DEF next
    <2>1. mem'[m] = next /\ \A k \in Mems : k # m => mem'[k] = mem[k]
        BY <1>21 DEF TypeOK
    <2> QED BY <2>1 DEF next
<1>4. mem[m].ref - 1 # 0 => /\ mem'[m] \in Blocks /\ mem'[m] # Nil
                            /\ mem'[m].ref = mem[m].ref - 1
                            /\ mem'[m].size = mem[m].size
    BY <1>2, <1>3, BufferActors DEF Blocks
<1>5. Holders(m)' = Holders(m) \ {x}
    BY <1>0 DEF Holders, TypeOK, Slots
<1>6. Cardinality(Holders(m)') = Cardinality(Holders(m)) - 1 /\ IsFiniteSet(Holders(m)')
    BY <1>1, <1>5, HoldersFinite, FS_RemoveElement
<1>7. mem[m].ref - 1 = 0 => Holders(m)' = {}
    BY <1>2, <1>6, FS_EmptySet
<1>8. ASSUME NEW k \in Mems PROVE Counted(k)'
    <2>1. CASE k = m
        BY <2>1, <1>2, <1>3, <1>4, <1>6, <1>7, HoldersFinite DEF Counted
    <2>2. CASE k # m
        <3>1. Holders(k)' = Holders(k)
            BY <2>2, <1>0 DEF Holders, TypeOK, Slots
        <3> QED BY <2>2, <3>1, <1>3 DEF Counted, RefCountsExact
    <2> QED BY <2>1, <2>2
<1>9. RefCountsExact'
    BY <1>8 DEF RefCountsExact, Counted
<1>10. mem' \in [Mems -> Blocks \cup {Nil}]
    <2> HIDE DEF next
    <2> QED BY <1>21, <1>22 DEF TypeOK
<1>11. ASSUME NEW y \in Slots, y # x, view[y] # Nil
       PROVE  /\ mem'[view[y].orig] # Nil
              /\ mem'[view[y].orig].size = mem[view[y].orig].size
    <2>1. PICK k \in Mems : k = view[y].orig
        BY <1>11 DEF Views, TypeOK, Slots
    <2>2. y \in Holders(k)'
        BY <1>11, <2>1 DEF TypeOK, Slots, Holders
    <2>3. mem'[k] # Nil
        BY <2>2, <1>9 DEF RefCountsExact
    <2> QED BY <2>1, <2>3, <1>3, <1>4
<1> QED BY <1>9, <1>10, <1>11

LEMMA MovedView ==
    ASSUME TypeOK, RefCountsExact,
           NEW x \in Nodes, NEW b \in Bufs, view[x] # Nil, view[b] = Nil,
           view' = [view EXCEPT ![b] = view[x], ![x] = Nil], mem' = mem
    PROVE  RefCountsExact'
<1>0. PICK m \in Mems : m = view[x].orig
    BY DEF Views, TypeOK
<1>1. x # b
    BY BufferActors
<1>2. view'[b] = view[x] /\ view'[x] = Nil
      /\ \A y \in Slots : y # x /\ y # b => view'[y] = view[y]
    BY <1>1 DEF TypeOK, Slots
<1>3. ASSUME NEW k \in Mems PROVE Cardinality(Holders(k)') = Cardinality(Holders(k))
                                  /\ (Holders(k) = {} => Holders(k)' = {})
    <2>1. CASE k = m
        <3>1. x \in Holders(m) /\ b \notin Holders(m) \ {x}
            BY <1>0 DEF Holders
        <3>2. Holders(m)' = (Holders(m) \ {x}) \cup {b}
            BY <1>0, <1>1, <1>2 DEF Holders, Slots
        <3>3. /\ IsFiniteSet(Holders(m) \ {x})
              /\ Cardinality(Holders(m) \ {x}) = Cardinality(Holders(m)) - 1
            BY <3>1, HoldersFinite, FS_RemoveElement
        <3>4. Cardinality((Holders(m) \ {x}) \cup {b}) = Cardinality(Holders(m) \ {x}) + 1
            BY <3>1, <3>3, FS_AddElement
        <3>5. Cardinality(Holders(m)) \in Nat
            BY HoldersFinite
        <3>6. Cardinality(Holders(m)') = Cardinality(Holders(m))
            BY <3>2, <3>3, <3>4, <3>5
        <3> QED BY <2>1, <3>1, <3>6
    <2>2. CASE k # m
        <3>1. Holders(k)' = Holders(k)
            BY <2>2, <1>0, <1>1, <1>2 DEF Holders, Slots
        <3> QED BY <3>1
    <2> QED BY <2>1, <2>2
<1> QED BY <1>3 DEF RefCountsExact
----------------------------------------------------------------------------
ViewsInBlock == \A x \in Slots : view[x] # Nil => InBlock(view[x])

\* What libuv works from is a view that a Buffer of the caller has.
LEMMA LoansInBlock ==
    ASSUME TypeOK, LoansPinned, ViewsInBlock
    PROVE  NothingDangles
<1>1. ASSUME NEW o \in Ops, NEW v \in loan[o].bufs PROVE InBlock(v)
    <2>1. PICK b \in loan[o].pins : view[b] = v
        BY <1>1 DEF LoansPinned
    <2>2. b \in Slots /\ v \in Views
        BY <1>1, <2>1 DEF TypeOK, Slots
    <2>3. v # Nil
        BY <2>2, BufferActors
    <2> QED BY <2>1, <2>2, <2>3 DEF ViewsInBlock
<1> QED BY <1>1 DEF NothingDangles, ViewsInBlock, Slots

\* A step that leaves every Buffer in use its view leaves the loans theirs.
LEMMA LoansKept ==
    ASSUME TypeOK, LoansPinned, loan' = loan,
           \A b \in Pinned : view[b] # Nil => view'[b] = view[b]
    PROVE  LoansPinned'
<1>1. ASSUME NEW o \in Ops, NEW v \in loan[o].bufs
      PROVE  \E b \in loan[o].pins : view'[b] = v
    <2>1. PICK b \in loan[o].pins : view[b] = v
        BY <1>1 DEF LoansPinned
    <2>2. v \in Views /\ b \in Pinned
        BY <1>1, <2>1 DEF TypeOK, Pinned
    <2>3. view'[b] = v
        BY <2>1, <2>2, BufferActors
    <2> QED BY <2>1, <2>3
<1> QED BY <1>1 DEF LoansPinned

LEMMA SliceOfView ==
    ASSUME TypeOK, NEW b \in known, NEW first \in Args, NEW last \in Ends(b),
           CheckRange(b, first, last)
    PROVE  /\ first \in Int /\ last \in Int
           /\ 1 <= first /\ first <= last /\ last <= view[b].len
<1>1. view[b] \in Views /\ view[b].len \in Nat
    BY DEF TypeOK, Views
<1>2. IntHalf \in Nat /\ IntHalf >= 8
    BY BufferSizes
<1>3. /\ ToInt(view[b].len) \in Int /\ ToInt(view[b].len) <= view[b].len
      /\ -IntHalf <= ToInt(view[b].len) /\ ToInt(view[b].len) <= MaxInt
    BY <1>1, <1>2, ToIntBelow
<1>4. first \in Int /\ -IntHalf <= first /\ first <= MaxInt /\ last \in Int
    BY <1>3, BufferSizes DEF MaxInt, Ends
<1>5. /\ 1 <= first /\ first <= ToInt(view[b].len)
      /\ first <= last /\ last <= ToInt(view[b].len)
    BY Zenon DEF CheckRange, CheckIndex
<1> QED BY <1>1, <1>3, <1>4, <1>5
----------------------------------------------------------------------------
LEMMA FreshStep ==
    ASSUME Inv, NEW x \in Slots, view[x] = Nil, NEW m \in Mems, NEW n \in Nat,
           mem_alloc(m, n), view' = [view EXCEPT ![x] = Whole(m, n)],
           known' \in {known, known \cup {x}}, x \in Bufs \/ known' = known,
           loan' = loan, overran' = overran
    PROVE  Inv'
<1>1. RefCountsExact' /\ mem'[m] = [size |-> n, ref |-> 1]
    BY FreshView DEF Inv
<1>2. Whole(m, n) \in Views /\ Whole(m, n) # Nil
    BY BufferActors DEF Whole, Views
<1>3. mem[m] = Nil /\ mem' = [mem EXCEPT ![m] = [size |-> n, ref |-> 1]]
    BY DEF mem_alloc
<1>4. [size |-> n, ref |-> 1] \in Blocks /\ mem'[m] # Nil
    BY <1>1, BufferActors DEF Blocks
<1>5. view'[x] = Whole(m, n) /\ \A y \in Slots : y # x => view'[y] = view[y]
    BY DEF Inv, TypeOK, Slots
<1>6. TypeOK'
    <2>1. mem' \in [Mems -> Blocks \cup {Nil}]
        BY <1>3, <1>4 DEF Inv, TypeOK
    <2>2. view' \in [Bufs \cup Nodes -> Views \cup {Nil}]
        BY <1>2 DEF Inv, TypeOK, Slots
    <2>3. known' \subseteq {b \in Bufs : view'[b] # Nil}
        BY <1>2, <1>5 DEF Inv, TypeOK, Slots
    <2> QED BY <2>1, <2>2, <2>3 DEF Inv, TypeOK
<1>7. LoansPinned'
    <2>1. \A b \in Pinned : b \in Slots
        BY DEF Inv, TypeOK, Pinned, Slots
    <2> QED BY <2>1, <1>5, LoansKept DEF Inv
<1>8. ViewsInBlock'
    <2>1. ASSUME NEW y \in Slots, view'[y] # Nil
          PROVE  mem'[view'[y].orig] # Nil
                 /\ view'[y].base + view'[y].len <= mem'[view'[y].orig].size
        <3>1. CASE y = x
            BY <3>1, <1>1, <1>4, <1>5 DEF Whole
        <3>2. CASE y # x
            <4>1. view'[y] = view[y] /\ InBlock(view[y])
                BY <2>1, <3>2, <1>5 DEF Inv, NothingDangles, Slots
            <4>2. view[y].orig \in Mems /\ view[y].orig # m
                BY <2>1, <4>1, <1>3 DEF InBlock, Inv, TypeOK, Slots, Views
            <4>3. mem'[view[y].orig] = mem[view[y].orig]
                BY <4>2, <1>3 DEF Inv, TypeOK
            <4> QED BY <4>1, <4>3 DEF InBlock
        <3> QED BY <3>1, <3>2
    <2> QED BY <2>1 DEF ViewsInBlock, InBlock
<1>9. NothingDangles'
    BY <1>6, <1>7, <1>8, LoansInBlock, PTL
<1> QED BY <1>1, <1>6, <1>7, <1>9 DEF Inv

\* What is asked of a step: the types, the counts, the views and the loans.
LEMMA InvFrom ==
    ASSUME TypeOK, RefCountsExact, ViewsInBlock, LoansPinned
    PROVE  Inv
BY LoansInBlock DEF Inv

\* A step that leaves the blocks and the views alone.
LEMMA QuietStep ==
    ASSUME Inv, TypeOK', LoansPinned', mem' = mem, view' = view
    PROVE  Inv'
<1>1. RefCountsExact'
    BY DEF Inv, RefCountsExact, Holders
<1>2. ViewsInBlock'
    BY DEF Inv, NothingDangles, ViewsInBlock, InBlock, Slots
<1> QED BY <1>1, <1>2, InvFrom, PTL

\* The view that a slice gets is one of the same block, inside that it is cut from.
LEMMA SlicedView ==
    ASSUME Inv, NEW b \in known, NEW s \in Bufs, NEW first \in Args,
           NEW last \in Ends(b), slice(b, s, first, last)
    PROVE  \E v \in Views : /\ v.orig = view[b].orig /\ v # Nil
                            /\ v.base + v.len <= view[b].base + view[b].len
                            /\ view' = [view EXCEPT ![s] = v]
<1> DEFINE w == [orig |-> view[b].orig, base |-> view[b].base + first - 1,
                 len |-> last - first + 1]
<1>1. /\ first \in Int /\ last \in Int
      /\ 1 <= first /\ first <= last /\ last <= view[b].len
    BY SliceOfView DEF Inv, slice
<1>2. view[b] \in Views
    BY DEF Inv, TypeOK
<1>3. w \in Views
    BY <1>1, <1>2 DEF Views
<1>4. w.orig = view[b].orig /\ w # Nil
    BY <1>3, BufferActors
<1>5. w.base + w.len <= view[b].base + view[b].len
    BY <1>1, <1>2 DEF Views
<1>6. view' = [view EXCEPT ![s] = w]
    BY DEF slice, Push
<1> HIDE DEF w
<1> QED BY <1>3, <1>4, <1>5, <1>6

LEMMA SliceStep ==
    ASSUME Inv, NEW b \in known, NEW s \in Bufs, NEW first \in Args,
           NEW last \in Ends(b), slice(b, s, first, last)
    PROVE  Inv'
<1>1. PICK v \in Views : /\ v.orig = view[b].orig /\ v # Nil
                        /\ v.base + v.len <= view[b].base + view[b].len
                        /\ view' = [view EXCEPT ![s] = v]
    BY SlicedView
<1>2. /\ v.orig = view[b].orig /\ v # Nil
      /\ v.base + v.len <= view[b].base + view[b].len
    BY <1>1
<1>3. /\ view[s] = Nil /\ mem_retain(v.orig) /\ view' = [view EXCEPT ![s] = v]
      /\ known' = known \cup {s} /\ loan' = loan /\ overran' = overran
    BY <1>1, <1>2 DEF slice, Push
<1>4. b \in Slots /\ s \in Slots /\ view[b] # Nil /\ InBlock(view[b])
    BY DEF Inv, TypeOK, NothingDangles, Slots
<1>5. /\ RefCountsExact'
      /\ \A k \in Mems : mem[k] # Nil => mem'[k] # Nil /\ mem'[k].size = mem[k].size
    BY <1>2, <1>3, <1>4, SharedView DEF Inv, InBlock
<1>6. view'[s] = v /\ \A y \in Slots : y # s => view'[y] = view[y]
    BY <1>3 DEF Inv, TypeOK, Slots
<1>7. TypeOK'
    <2>1. mem[v.orig] \in Blocks /\ v.orig \in Mems
        BY <1>2, <1>4 DEF Inv, TypeOK, InBlock, Views
    <2>2. mem' \in [Mems -> Blocks \cup {Nil}]
        BY <1>3, <2>1 DEF Inv, TypeOK, mem_retain, Blocks
    <2>3. view' \in [Bufs \cup Nodes -> Views \cup {Nil}]
        BY <1>3 DEF Inv, TypeOK, Slots
    <2>4. known' \subseteq {c \in Bufs : view'[c] # Nil}
        BY <1>2, <1>3, <1>6 DEF Inv, TypeOK, Slots
    <2> QED BY <1>3, <2>2, <2>3, <2>4 DEF Inv, TypeOK
<1>8. LoansPinned'
    <2>1. \A c \in Pinned : c \in Slots
        BY DEF Inv, TypeOK, Pinned, Slots
    <2> QED BY <2>1, <1>3, <1>6, LoansKept DEF Inv
<1>9. ViewsInBlock'
    <2>1. ASSUME NEW y \in Slots, view'[y] # Nil
          PROVE  mem'[view'[y].orig] # Nil
                 /\ view'[y].base + view'[y].len <= mem'[view'[y].orig].size
        <3>1. CASE y = s
            <4>1. view[b].orig \in Mems /\ mem[view[b].orig] \in Blocks
                BY <1>4 DEF InBlock, Inv, TypeOK, Slots, Views
            <4>2. /\ mem'[v.orig] # Nil /\ mem'[v.orig].size = mem[view[b].orig].size
                  /\ view[b].base + view[b].len <= mem[view[b].orig].size
                BY <4>1, <1>2, <1>4, <1>5 DEF InBlock
            <4>3. view[b] \in Views
                BY DEF Inv, TypeOK
            <4> QED BY <3>1, <1>2, <1>6, <4>1, <4>2, <4>3 DEF Views, Blocks
        <3>2. CASE y # s
            <4>1. view'[y] = view[y] /\ InBlock(view[y])
                BY <2>1, <3>2, <1>6 DEF Inv, NothingDangles, Slots
            <4>2. view[y].orig \in Mems
                BY <2>1, <4>1 DEF InBlock, Inv, TypeOK, Slots, Views
            <4> QED BY <4>1, <4>2, <1>5 DEF InBlock
        <3> QED BY <3>1, <3>2
    <2> QED BY <2>1 DEF ViewsInBlock, InBlock
<1> QED BY <1>5, <1>7, <1>8, <1>9, InvFrom, PTL

LEMMA CollectStep ==
    ASSUME Inv, NEW b \in Bufs, buffer_gc(b)
    PROVE  Inv'
<1>1. /\ view[b] # Nil /\ b \notin known /\ b \notin Pinned
      /\ mem_release(view[b].orig) /\ view' = [view EXCEPT ![b] = Nil]
      /\ known' = known /\ loan' = loan /\ overran' = overran
    BY DEF buffer_gc
<1>2. b \in Slots
    BY DEF Slots
<1>3. /\ RefCountsExact'
      /\ mem' \in [Mems -> Blocks \cup {Nil}]
      /\ \A y \in Slots : y # b /\ view[y] # Nil =>
            /\ mem'[view[y].orig] # Nil
            /\ mem'[view[y].orig].size = mem[view[y].orig].size
    BY <1>1, <1>2, DroppedView DEF Inv
<1>4. view'[b] = Nil /\ \A y \in Slots : y # b => view'[y] = view[y]
    BY <1>1 DEF Inv, TypeOK, Slots
<1>5. TypeOK'
    BY <1>1, <1>3, <1>4 DEF Inv, TypeOK, Slots
<1>6. LoansPinned'
    <2>1. \A c \in Pinned : c \in Slots
        BY DEF Inv, TypeOK, Pinned, Slots
    <2> QED BY <2>1, <1>1, <1>4, LoansKept DEF Inv
<1>7. ViewsInBlock'
    BY <1>3, <1>4 DEF ViewsInBlock, InBlock, Inv, NothingDangles, Slots
<1> QED BY <1>3, <1>5, <1>6, <1>7, InvFrom, PTL

LEMMA TakeStep ==
    ASSUME Inv, NEW x \in Nodes, NEW b \in Bufs, Take(x, b)
    PROVE  Inv'
<1>1. /\ view[x] # Nil /\ view[b] = Nil
      /\ view' = [view EXCEPT ![b] = view[x], ![x] = Nil] /\ mem' = mem
      /\ known' = known \cup {b} /\ loan' = loan /\ overran' = overran
    BY DEF Take
<1>2. x # b
    BY <1>1
<1>3. RefCountsExact'
    BY <1>1, MovedView DEF Inv
<1>4. view'[b] = view[x] /\ view'[x] = Nil
      /\ \A y \in Slots : y # x /\ y # b => view'[y] = view[y]
    BY <1>1, <1>2 DEF Inv, TypeOK, Slots
<1>5. TypeOK'
    <2>1. view' \in [Bufs \cup Nodes -> Views \cup {Nil}]
        BY <1>1 DEF Inv, TypeOK, Slots
    <2>2. known' \subseteq {c \in Bufs : view'[c] # Nil}
        BY <1>1, <1>4, BufferActors DEF Inv, TypeOK, Slots
    <2> QED BY <1>1, <2>1, <2>2 DEF Inv, TypeOK
<1>6. LoansPinned'
    <2>1. \A c \in Pinned : c \in Slots /\ c # x
        BY BufferActors DEF Inv, TypeOK, Pinned, Slots
    <2> QED BY <2>1, <1>1, <1>4, LoansKept DEF Inv
<1>7. ViewsInBlock'
    BY <1>1, <1>4 DEF ViewsInBlock, InBlock, Inv, NothingDangles, Slots
<1> QED BY <1>3, <1>5, <1>6, <1>7, InvFrom, PTL
----------------------------------------------------------------------------
(***************************************************************************)
(* The sums of concat.                                                     *)
(***************************************************************************)
LEMMA ShortList ==
    ASSUME NEW len \in Seq(Nat), Len(len) <= 2
    PROVE  Len(len) \in {0, 1, 2} /\ \A i \in 1 .. Len(len) : len[i] \in Nat
<1>1. Len(len) \in Nat
    OBVIOUS
<1>2. \A n \in Nat : n <= 2 => n \in {0, 1, 2}
    OBVIOUS
<1>3. Len(len) \in {0, 1, 2}
    BY <1>1, <1>2, Zenon
<1>4. \A i \in 1 .. Len(len) : len[i] \in Nat
    OBVIOUS
<1> QED BY <1>3, <1>4

LEMMA SumToInNat ==
    ASSUME NEW len \in Seq(Nat), Len(len) <= 2
    PROVE  SumTo(len)[Len(len)] \in Nat
<1> DEFINE P(s) == s = [i \in 0 .. Len(len) |-> IF i = 0 THEN 0 ELSE s[i - 1] + len[i]]
           w == [i \in 0 .. Len(len) |-> IF i = 0 THEN 0
                                         ELSE IF i = 1 THEN len[1] ELSE len[1] + len[2]]
<1>1. Len(len) \in {0, 1, 2} /\ \A i \in 1 .. Len(len) : len[i] \in Nat
    BY ShortList
<1>2. ASSUME NEW i \in 0 .. Len(len)
      PROVE  w[i] = IF i = 0 THEN 0 ELSE w[i - 1] + len[i]
    BY <1>1
<1>3. P(w)
    BY <1>2
<1>4. SumTo(len) = CHOOSE s : P(s)
    BY DEF SumTo
<1>5. P(SumTo(len))
    <2> HIDE DEF P, w
    <2> QED BY <1>3, <1>4
<1>6. \A i \in 0 .. Len(len) :
         SumTo(len)[i] = IF i = 0 THEN 0 ELSE SumTo(len)[i - 1] + len[i]
    BY <1>5
<1>7. SumTo(len)[0] = 0
    BY <1>1, <1>6
<1>8. Len(len) >= 1 => SumTo(len)[1] = len[1]
    BY <1>1, <1>6, <1>7
<1>9. Len(len) = 2 => SumTo(len)[2] = len[1] + len[2]
    BY <1>1, <1>6, <1>8
<1> QED BY <1>1, <1>7, <1>8, <1>9

LEMMA LeftInInt ==
    ASSUME NEW len \in Seq(Nat), Len(len) <= 2, NEW total \in Int,
           \A i \in 1 .. Len(len) : ToInt(len[i]) \in Int
    PROVE  \A i \in 0 .. Len(len) : Left(len, total)[i] \in Int
<1> DEFINE P(s) == s = [i \in 0 .. Len(len) |->
                          IF i = 0 THEN total ELSE s[i - 1] - AtMost(ToInt(len[i]), s[i - 1])]
           a == total - AtMost(ToInt(len[1]), total)
           w == [i \in 0 .. Len(len) |->
                   IF i = 0 THEN total ELSE IF i = 1 THEN a
                   ELSE a - AtMost(ToInt(len[2]), a)]
<1>1. Len(len) \in {0, 1, 2}
    BY ShortList
<1>2. ASSUME NEW i \in 0 .. Len(len)
      PROVE  w[i] = IF i = 0 THEN total ELSE w[i - 1] - AtMost(ToInt(len[i]), w[i - 1])
    BY <1>1
<1>3. P(w)
    BY <1>2
<1>4. Left(len, total) = CHOOSE s : P(s)
    BY DEF Left
<1>5. P(Left(len, total))
    <2> HIDE DEF P, w
    <2> QED BY <1>3, <1>4
<1>6. \A i \in 0 .. Len(len) : Left(len, total)[i] =
         IF i = 0 THEN total
         ELSE Left(len, total)[i - 1] - AtMost(ToInt(len[i]), Left(len, total)[i - 1])
    BY <1>5
<1>7. Left(len, total)[0] \in Int
    BY <1>1, <1>6
<1>8. Len(len) >= 1 => Left(len, total)[1] \in Int
    BY <1>1, <1>6, <1>7 DEF AtMost
<1>9. Len(len) = 2 => Left(len, total)[2] \in Int
    BY <1>1, <1>6, <1>8 DEF AtMost
<1> QED BY <1>1, <1>7, <1>8, <1>9

\* When every length, the total and their sum fit an int, concat copies soundly.
LEMMA NarrowIsSound ==
    ASSUME NEW len \in Seq(Nat), Len(len) <= 2, NEW given \in Args, ~Wide(len, given)
    PROVE  Total(len, given) \in Nat /\ Sound(len, Total(len, given))
<1> DEFINE total == Total(len, given)
<1>1. IntHalf \in Nat /\ given \in Int /\ given >= 0 /\ given <= MaxInt
    BY BufferSizes DEF Wide, MaxInt
<1>2. ASSUME NEW i \in 1 .. Len(len) PROVE ToInt(len[i]) = len[i] /\ len[i] \in Nat
    <2>1. len[i] \in Nat /\ DOMAIN len = 1 .. Len(len)
        BY ShortList
    <2>2. len[i] <= MaxInt
        BY <2>1, <1>1 DEF Wide, MaxInt
    <2> QED BY <2>1, <2>2, <1>1, ToIntOfInt
<1>3. total \in Nat
    <2>1. CASE given = 0
        <3>1. SumTo(len)[Len(len)] \in Nat
            BY SumToInNat
        <3>2. SumTo(len)[Len(len)] <= MaxInt
            BY <2>1, <3>1, <1>1 DEF Wide, MaxInt
        <3>3. ToInt(SumTo(len)[Len(len)]) = SumTo(len)[Len(len)]
            BY <3>1, <3>2, <1>1, ToIntOfInt
        <3> QED BY <2>1, <3>1, <3>3 DEF Total
    <2>2. CASE given # 0
        BY <2>2, <1>1 DEF Total
    <2> QED BY <2>1, <2>2
<1>4. \A i \in 0 .. Len(len) : Left(len, total)[i] \in Int
    <2> HIDE DEF total
    <2> QED BY <1>2, <1>3, LeftInInt
<1>5. ASSUME NEW i \in DOMAIN len, Left(len, total)[i - 1] > 0
      PROVE  LET n == AtMost(ToInt(len[i]), Left(len, total)[i - 1]) IN
             /\ 0 <= n /\ n <= len[i]
             /\ total - Left(len, total)[i - 1] + n <= total
    <2>1. i \in 1 .. Len(len) /\ i - 1 \in 0 .. Len(len)
        OBVIOUS
    <2>2. Left(len, total)[i - 1] \in Int /\ ToInt(len[i]) = len[i] /\ len[i] \in Nat
        BY <2>1, <1>2, <1>4
    <2> HIDE DEF total
    <2> QED BY <2>2, <1>3, <1>5 DEF AtMost
<1> QED BY <1>3, <1>5 DEF Sound
----------------------------------------------------------------------------
(***************************************************************************)
(* Each operation reaches only bytes of its views.                         *)
(***************************************************************************)
LEMMA KnownView ==
    ASSUME TypeOK, NEW b \in known
    PROVE  /\ view[b] \in Views /\ view[b].len \in Nat
           /\ ToInt(view[b].len) \in Int /\ ToInt(view[b].len) <= view[b].len
           /\ ToInt(view[b].len) >= -IntHalf
<1>1. view[b] \in Views /\ view[b].len \in Nat
    BY DEF TypeOK, Views
<1> QED BY <1>1, ToIntBelow, BufferSizes

\* An accessor stays inside its view, unless its bound overflows an int, which
\* takes a length that an int cannot hold.
LEMMA AccessWithin ==
    ASSUME TypeOK, AccessInside, NEW b \in Bufs, NEW width \in {1, 2, 4, 8},
           NEW position \in Args, access(b, width, position)
    PROVE  /\ AccessInside'
           /\ overran' \in {overran} \cup [op : {"access"}, wide : BOOLEAN]
<1> DEFINE most == ToInt(view[b].len) - (width - 1)
<1>1. /\ view[b].len \in Nat /\ IntHalf \in Nat /\ IntHalf >= 8 /\ position \in Int
      /\ ToInt(view[b].len) \in Int /\ ToInt(view[b].len) <= view[b].len
    BY KnownView, BufferSizes DEF access
<1>2. CASE most >= -IntHalf
    <2>1. CheckIndex(position, 1, most) /\ Report("access", Within(view[b], position - 1, width))
        BY <1>1, <1>2 DEF access
    <2>2. 1 <= position /\ position <= most
        BY <2>1 DEF CheckIndex
    <2>3. Within(view[b], position - 1, width)
        BY <1>1, <2>2 DEF Within
    <2>4. overran' = overran
        BY <2>1, <2>3 DEF Report
    <2> QED BY <2>4 DEF AccessInside
<1>3. CASE most < -IntHalf
    <2>1. overran' = [op |-> "access", wide |-> view[b].len > MaxInt]
        BY <1>1, <1>3 DEF access
    <2>2. view[b].len > MaxInt
        <3>1. SUFFICES ASSUME view[b].len <= MaxInt PROVE FALSE
            BY <1>1 DEF MaxInt
        <3>2. ToInt(view[b].len) = view[b].len
            BY <1>1, <3>1, ToIntOfInt
        <3> QED BY <1>1, <1>3, <3>2
    <2>3. overran' = [op |-> "access", wide |-> TRUE]
        BY <2>1, <2>2
    <2> QED BY <2>3 DEF AccessInside
<1>4. most \in Int
    BY <1>1
<1> QED BY <1>1, <1>2, <1>3, <1>4

LEMMA FillWithin ==
    ASSUME TypeOK, NEW b \in Bufs, NEW first \in Args, NEW last \in Ends(b),
           fill(b, first, last)
    PROVE  overran' = overran
<1>1. /\ first \in Int /\ last \in Int /\ view[b].len \in Nat
      /\ 1 <= first /\ first <= last /\ last <= view[b].len
    BY SliceOfView, KnownView DEF fill
<1>2. Within(view[b], first - 1, last - first + 1)
    BY <1>1 DEF Within
<1> QED BY <1>2 DEF fill, Report

LEMMA CopyWithin ==
    ASSUME TypeOK, NEW b \in Bufs, NEW t \in Bufs, NEW tfirst \in Args,
           NEW first \in Args, NEW last \in Ends(b), copy(b, t, tfirst, first, last)
    PROVE  overran' = overran
<1>1. /\ first \in Int /\ last \in Int /\ view[b].len \in Nat
      /\ 1 <= first /\ first <= last /\ last <= view[b].len
    BY SliceOfView, KnownView DEF copy
<1>2. /\ view[t].len \in Nat /\ ToInt(view[t].len) \in Int
      /\ ToInt(view[t].len) <= view[t].len
    BY KnownView DEF copy
<1>3. tfirst \in Int /\ 1 <= tfirst
    BY BufferSizes DEF copy, CheckIndex
<1> DEFINE n == AtMost(last - first + 1, ToInt(view[t].len) - tfirst + 1)
<1>4. n \in Int /\ n <= last - first + 1 /\ n <= ToInt(view[t].len) - tfirst + 1
    BY <1>1, <1>2, <1>3 DEF AtMost
<1>5. Within(view[t], tfirst - 1, n) /\ Within(view[b], first - 1, n)
    <2> HIDE DEF n
    <2> QED BY <1>1, <1>2, <1>3, <1>4 DEF Within
<1> QED BY <1>5 DEF copy, Report

LEMMA WriteWithin ==
    ASSUME TypeOK, NEW b \in Bufs, NEW n \in Sizes, NEW position \in Args,
           NEW length \in Args, write(b, n, position, length)
    PROVE  overran' = overran
<1>1. /\ view[b].len \in Nat /\ ToInt(view[b].len) \in Int
      /\ ToInt(view[b].len) <= view[b].len /\ IntHalf \in Nat
    BY KnownView, BufferSizes DEF write
<1>2. /\ position \in Int /\ length \in Int /\ 1 <= position
      /\ length <= ToInt(view[b].len) - position + 1
    BY BufferSizes DEF write, CheckIndex
<1> DEFINE k == AtMost(length, ToInt(n))
<1>3. n \in Nat /\ ToInt(n) \in Int /\ ToInt(n) <= n
    BY <1>1, ToIntBelow, BufferSizes
<1>4. k \in Int /\ k <= length /\ k <= ToInt(n)
    BY <1>2, <1>3 DEF AtMost
<1>5. Within(view[b], position - 1, k) /\ (k > 0 => k <= n)
    <2> HIDE DEF k
    <2> QED BY <1>1, <1>2, <1>3, <1>4 DEF Within
<1> QED BY <1>5 DEF write, Report
----------------------------------------------------------------------------
LEMMA AccessStep ==
    ASSUME Inv, UNCHANGED <<mem, view, known, loan>>,
           overran' \in {overran} \cup [op : {"access", "concat"}, wide : BOOLEAN]
    PROVE  Inv'
<1>1. TypeOK' /\ LoansPinned'
    BY DEF Inv, TypeOK, LoansPinned
<1> QED BY <1>1, QuietStep

LEMMA UseStep ==
    ASSUME Inv, AccessInside, NEW b \in Bufs, Use(b)
    PROVE  Inv' /\ AccessInside'
<1>1. CASE \E s \in Bufs, first \in Args, last \in Ends(b) : slice(b, s, first, last)
    BY <1>1, SliceStep DEF slice, AccessInside
<1>2. CASE \E width \in {1, 2, 4, 8}, position \in Args : access(b, width, position)
    <2>1. PICK width \in {1, 2, 4, 8}, position \in Args : access(b, width, position)
        BY <1>2
    <2>2. AccessInside' /\ overran' \in {overran} \cup [op : {"access"}, wide : BOOLEAN]
        BY <2>1, AccessWithin DEF Inv
    <2>3. UNCHANGED <<mem, view, known, loan>>
        BY <2>1 DEF access
    <2> QED BY <2>2, <2>3, AccessStep
<1>3. CASE \E first \in Args, last \in Ends(b) : fill(b, first, last)
    BY <1>3, AccessStep, FillWithin DEF fill, Inv, AccessInside
<1>4. CASE \E t \in Bufs, tfirst, first \in Args, last \in Ends(b) :
              copy(b, t, tfirst, first, last)
    BY <1>4, AccessStep, CopyWithin DEF copy, Inv, AccessInside
<1>5. CASE \E n \in Sizes, position, length \in Args : write(b, n, position, length)
    BY <1>5, AccessStep, WriteWithin DEF write, Inv, AccessInside
<1> QED BY <1>1, <1>2, <1>3, <1>4, <1>5 DEF Use

\* The lengths that concat adds up are at most two.
LEMMA ConcatLengths ==
    ASSUME Inv, NEW list \in Lists, \A i \in DOMAIN list : list[i] \in known
    PROVE  Length(list) \in Seq(Nat) /\ Len(Length(list)) <= 2
<1> DEFINE len == Length(list)
<1>1. len \in Seq(Nat) /\ Len(len) <= 2
    <2>1. list \in Seq(Bufs) /\ Len(list) <= 2
        <3>1. list = <<>> \/ (\E c \in Bufs : list = <<c>>) \/ \E c, d \in Bufs : list = <<c, d>>
            BY DEF Lists
        <3>2. CASE list = <<>>
            BY <3>2
        <3>3. ASSUME NEW c \in Bufs, list = <<c>> PROVE list \in Seq(Bufs) /\ Len(list) <= 2
            BY <3>3
        <3>4. ASSUME NEW c \in Bufs, NEW d \in Bufs, list = <<c, d>>
              PROVE  list \in Seq(Bufs) /\ Len(list) <= 2
            BY <3>4
        <3> QED BY <3>1, <3>2, <3>3, <3>4
    <2>2. \A i \in DOMAIN list : view[list[i]].len \in Nat
        BY KnownView DEF Inv
    <2>3. DOMAIN list = 1 .. Len(list) /\ Len(list) \in Nat
        BY <2>1
    <2>4. len = [i \in 1 .. Len(list) |-> view[list[i]].len]
        BY <2>3 DEF Length
    <2>5. \A i \in 1 .. Len(list) : view[list[i]].len \in Nat
        BY <2>2, <2>3
    <2>6. len \in Seq(Nat)
        BY <2>3, <2>4, <2>5, IsASeq
    <2> QED BY <2>1, <2>3, <2>4, <2>6
<1> QED BY <1>1

\* The total that concat works with is a length, if it gets through.
LEMMA ConcatTotal ==
    ASSUME Inv, NEW list \in Lists, NEW given \in Args, NEW b \in Bufs, NEW m \in Mems,
           concat(list, given, b, m), Sound(Length(list), Total(Length(list), given))
    PROVE  Total(Length(list), given) \in Nat
<1> DEFINE len == Length(list)
<1>1. len \in Seq(Nat) /\ Len(len) <= 2
    BY ConcatLengths DEF concat
<1>2. SumTo(len)[Len(len)] \in Nat /\ IntHalf \in Nat /\ given \in Int
    BY <1>1, SumToInNat, BufferSizes
<1>3. ToInt(SumTo(len)[Len(len)]) \in Int
    BY <1>2, ToIntBelow
<1>4. Total(len, given) \in Int
    BY <1>2, <1>3 DEF Total
<1> QED BY <1>4 DEF Sound

LEMMA ConcatStep ==
    ASSUME Inv, AccessInside, overran = None,
           NEW list \in Lists, NEW given \in Args, NEW b \in Bufs, NEW m \in Mems,
           concat(list, given, b, m)
    PROVE  Inv' /\ AccessInside'
<1> DEFINE len == Length(list)
<1>1. len \in Seq(Nat) /\ Len(len) <= 2
    BY ConcatLengths DEF concat
<1>2. CASE Sound(len, Total(len, given))
    <2>1. Total(len, given) \in Nat
        BY <1>2, ConcatTotal
    <2>2. /\ view[b] = Nil /\ mem_alloc(m, Total(len, given))
          /\ view' = [view EXCEPT ![b] = Whole(m, Total(len, given))]
          /\ known' = known \cup {b} /\ loan' = loan /\ overran' = overran
        BY <1>2 DEF concat, Push
    <2>3. b \in Slots
        BY DEF Slots
    <2>4. Inv'
        <3> HIDE DEF len
        <3> QED BY <2>1, <2>2, <2>3, FreshStep
    <2> QED BY <2>2, <2>4 DEF AccessInside
<1>3. CASE ~Sound(len, Total(len, given))
    <2>1. /\ overran' = [op |-> "concat", wide |-> Wide(len, given)]
          /\ UNCHANGED <<mem, view, known, loan>>
        BY <1>3 DEF concat
    <2>2. Wide(len, given)
        <3> HIDE DEF len
        <3> QED BY <1>1, <1>3, NarrowIsSound
    <2>3. overran' = [op |-> "concat", wide |-> TRUE]
        <3> HIDE DEF len
        <3>1. Wide(len, given) = TRUE
            BY <2>2 DEF Wide
        <3> QED BY <2>1, <3>1
    <2>4. Inv'
        <3> HIDE DEF len
        <3>1. UNCHANGED <<mem, view, known, loan>>
            BY <2>1
        <3>2. overran' \in [op : {"access", "concat"}, wide : BOOLEAN]
            BY <2>3
        <3> QED BY <3>1, <3>2, AccessStep
    <2> QED BY <2>3, <2>4 DEF AccessInside
<1> QED BY <1>2, <1>3

THEOREM Steps == Inv /\ AccessInside /\ [Next]_vars => Inv' /\ AccessInside'
<1> SUFFICES ASSUME Inv, AccessInside, [Next]_vars PROVE Inv' /\ AccessInside'
    OBVIOUS
<1>0. CASE UNCHANGED vars
    BY <1>0, AccessStep DEF vars, AccessInside
<1> SUFFICES ASSUME Next PROVE Inv' /\ AccessInside'
    BY <1>0
<1>1. overran = None
    BY DEF Next
<1>2. ASSUME NEW b \in Bufs, NEW m \in Mems, NEW n \in Sizes, New(b, m, n)
      PROVE  Inv' /\ AccessInside'
    <2>1. b \in Slots /\ n \in Nat
        BY BufferSizes DEF Slots
    <2> QED BY <1>2, <2>1, FreshStep DEF New, Push, AccessInside
<1>3. ASSUME NEW b \in known, Use(b) PROVE Inv' /\ AccessInside'
    <2>1. b \in Bufs
        BY DEF Inv, TypeOK
    <2> QED BY <1>3, <2>1, UseStep
<1>4. ASSUME NEW list \in Lists, NEW given \in Args, NEW b \in Bufs, NEW m \in Mems,
             concat(list, given, b, m)
      PROVE  Inv' /\ AccessInside'
    BY <1>1, <1>4, ConcatStep
<1>5. ASSUME NEW b \in Bufs, Drop(b) PROVE Inv' /\ AccessInside'
    <2>1. TypeOK' /\ LoansPinned'
        BY <1>5 DEF Drop, Inv, TypeOK, LoansPinned
    <2> QED BY <1>5, <2>1, QuietStep DEF Drop, AccessInside
<1>6. ASSUME NEW b \in Bufs, buffer_gc(b) PROVE Inv' /\ AccessInside'
    BY <1>6, CollectStep DEF buffer_gc, AccessInside
<1>7. ASSUME NEW x \in Nodes, NEW m \in Mems, Input(x, m) PROVE Inv' /\ AccessInside'
    <2>1. x \in Slots /\ Suggested \in Nat
        BY BufferSizes DEF Slots
    <2> QED BY <1>7, <2>1, FreshStep DEF Input, AccessInside
<1>8. ASSUME NEW x \in Nodes, NEW b \in Bufs, Take(x, b) PROVE Inv' /\ AccessInside'
    BY <1>8, TakeStep DEF Take, AccessInside
<1>9. ASSUME NEW o \in Ops, NEW S \in Arrays, Start(o, S) PROVE Inv' /\ AccessInside'
    <2>1. loan' = [loan EXCEPT ![o] = [pins |-> S, bufs |-> {view[b] : b \in S}]]
        BY <1>9 DEF Start
    <2>2. S \in SUBSET Bufs /\ {view[b] : b \in S} \in SUBSET Views
        BY <1>9 DEF Start, Inv, TypeOK
    <2>3. TypeOK'
        BY <1>9, <2>1, <2>2 DEF Start, Inv, TypeOK
    <2>4. LoansPinned'
        BY <1>9, <2>1 DEF Start, Inv, TypeOK, LoansPinned
    <2> QED BY <1>9, <2>3, <2>4, QuietStep DEF Start, AccessInside
<1>10. ASSUME NEW o \in Ops, Done(o) PROVE Inv' /\ AccessInside'
    <2>1. TypeOK' /\ LoansPinned'
        BY <1>10 DEF Done, Idle, Inv, TypeOK, LoansPinned
    <2> QED BY <1>10, <2>1, QuietStep DEF Done, AccessInside
<1> QED BY <1>2, <1>3, <1>4, <1>5, <1>6, <1>7, <1>8, <1>9, <1>10 DEF Next

THEOREM Starts == Init => Inv /\ AccessInside
<1> SUFFICES ASSUME Init PROVE Inv /\ AccessInside
    OBVIOUS
<1>1. TypeOK
    BY DEF Init, TypeOK, Idle, None
<1>2. RefCountsExact
    BY DEF Init, RefCountsExact, Holders
<1>3. NothingDangles /\ LoansPinned
    BY DEF Init, NothingDangles, LoansPinned, Idle
<1>4. AccessInside
    BY DEF Init, AccessInside
<1> QED BY <1>1, <1>2, <1>3, <1>4 DEF Inv

\* The variables keep their types; in particular the length of a slice and its
\* offset are never negative, whatever ints the program slices with.
THEOREM Typing == Spec => []TypeOK
<1>1. Inv => TypeOK
    BY DEF Inv
<1> QED BY <1>1, Starts, Steps, PTL DEF Spec

\* The reference count of a block is at every moment the number of Buffers and
\* queued inputs that have a view of it, and the block goes with the last one.
THEOREM Counting == Spec => []RefCountsExact
<1>1. Inv => RefCountsExact
    BY DEF Inv
<1> QED BY <1>1, Starts, Steps, PTL DEF Spec

\* Every view of a Buffer, of a queued input and of a request in flight lies
\* inside a block that has not been freed.
THEOREM Safety == Spec => []NothingDangles
<1>1. Inv => NothingDangles
    BY DEF Inv
<1> QED BY <1>1, Starts, Steps, PTL DEF Spec

\* No accessor, fill, toString, copy or write reaches a byte outside its views,
\* whatever the width of an int and the length of the Buffer.  Only at lengths an
\* int cannot hold may the bound of an accessor overflow, and only with lengths or
\* a total an int cannot hold may concat reach out of its memory.
THEOREM Bounds == Spec => []AccessInside
BY Starts, Steps, PTL DEF Spec
----------------------------------------------------------------------------
(***************************************************************************)
(* Counting references implements SharedMemory.                            *)
(***************************************************************************)
Held == [x \in Slots |-> IF view[x] = Nil THEN Nil ELSE view[x].orig]
Live == {m \in Mems : mem[m] # Nil}
Lent == [o \in Ops |-> {v.orig : v \in loan[o].bufs}]

MemoryStep == Memory!Next \/ UNCHANGED <<Live, Held, Lent>>

\* A Buffer or an input with a view holds a block.
LEMMA HeldBlock ==
    ASSUME TypeOK, NEW x \in Slots
    PROVE  /\ view[x] = Nil => Held[x] = Nil
           /\ view[x] # Nil => Held[x] = view[x].orig /\ Held[x] \in Mems
           /\ Held[x] # Nil => view[x] # Nil
BY BufferActors DEF TypeOK, Held, Views, Slots

\* A step that touches neither the blocks, nor the views, nor the loans.
LEMMA StutterMemory ==
    ASSUME UNCHANGED <<mem, view, loan>>
    PROVE  MemoryStep
BY DEF MemoryStep, Live, Held, Lent

LEMMA FreshMemory ==
    ASSUME Inv, NEW x \in Slots, view[x] = Nil, NEW m \in Mems, NEW n \in Nat,
           mem_alloc(m, n), view' = [view EXCEPT ![x] = Whole(m, n)], loan' = loan
    PROVE  MemoryStep
<1>1. mem[m] = Nil /\ mem' = [mem EXCEPT ![m] = [size |-> n, ref |-> 1]]
    BY DEF mem_alloc
<1>2. [size |-> n, ref |-> 1] # Nil
    BY BufferActors DEF Blocks
<1>3. Live' = Live \cup {m} /\ m \notin Live
    BY <1>1, <1>2 DEF Live, Inv, TypeOK
<1>4. Whole(m, n) # Nil /\ Whole(m, n).orig = m
    BY BufferActors DEF Whole, Views
<1>5. Held' = [Held EXCEPT ![x] = m] /\ Held[x] = Nil
    BY <1>4 DEF Held, Inv, TypeOK, Slots
<1>6. Memory!Alloc(x, m)
    BY <1>3, <1>5 DEF Memory!Alloc, Held, Live, Slots
<1> QED BY <1>6 DEF MemoryStep, Memory!Next, Slots

\* concat makes a block of the total, or overruns and makes none.
LEMMA ConcatMemory ==
    ASSUME Inv, NEW list \in Lists, NEW given \in Args, NEW b \in Bufs, NEW m \in Mems,
           concat(list, given, b, m)
    PROVE  MemoryStep
<1> DEFINE total == Total(Length(list), given)
<1>1. CASE Sound(Length(list), total)
    <2>1. /\ view[b] = Nil /\ mem_alloc(m, total)
          /\ view' = [view EXCEPT ![b] = Whole(m, total)] /\ loan' = loan
        BY <1>1 DEF concat, Push
    <2>2. total \in Nat
        BY <1>1, ConcatTotal
    <2>3. b \in Slots
        BY DEF Slots
    <2> HIDE DEF total
    <2> QED BY <2>1, <2>2, <2>3, FreshMemory
<1>2. CASE ~Sound(Length(list), total)
    BY <1>2, StutterMemory DEF concat
<1> QED BY <1>1, <1>2

LEMMA SliceMemory ==
    ASSUME Inv, NEW b \in known, NEW s \in Bufs, NEW first \in Args,
           NEW last \in Ends(b), slice(b, s, first, last)
    PROVE  MemoryStep
<1>1. /\ view[s] = Nil /\ view[b] # Nil /\ mem_retain(view[b].orig) /\ loan' = loan
      /\ b \in Slots /\ s \in Slots
    BY DEF slice, Inv, TypeOK, Slots
<1>2. PICK v \in Views : v.orig = view[b].orig /\ v # Nil /\ view' = [view EXCEPT ![s] = v]
    BY SlicedView
<1>3. mem[v.orig] # Nil
    BY <1>1, <1>2 DEF Inv, NothingDangles, InBlock, Slots
<1>4. Live' = Live
    <2>1. \A k \in Mems : mem[k] # Nil => mem'[k] # Nil
        BY <1>1, <1>2, <1>3, SharedView DEF Inv
    <2>2. \A k \in Mems : mem[k] = Nil => mem'[k] = Nil
        BY <1>1, <1>2, <1>3 DEF mem_retain, Inv, TypeOK
    <2> QED BY <2>1, <2>2 DEF Live
<1>5. Held' = [Held EXCEPT ![s] = Held[b]]
    BY <1>1, <1>2 DEF Held, Inv, TypeOK, Slots
<1>6. Held[s] = Nil /\ Held[b] # Nil
    BY <1>1, HeldBlock, BufferActors DEF Inv
<1>7. Memory!Share(s, b)
    BY <1>1, <1>4, <1>5, <1>6 DEF Memory!Share, Held, Live, Slots
<1> QED BY <1>1, <1>7 DEF MemoryStep, Memory!Next, Slots

LEMMA TakeMemory ==
    ASSUME Inv, NEW x \in Nodes, NEW b \in Bufs, Take(x, b)
    PROVE  MemoryStep
<1>1. /\ view[x] # Nil /\ view[b] = Nil /\ x # b /\ x \in Slots /\ b \in Slots
      /\ view' = [view EXCEPT ![b] = view[x], ![x] = Nil] /\ mem' = mem /\ loan' = loan
    BY DEF Take, Slots
<1>2. Held' = [Held EXCEPT ![x] = Nil, ![b] = Held[x]]
    BY <1>1 DEF Held, Inv, TypeOK, Slots
<1>3. Held[x] # Nil /\ Held[b] = Nil
    BY <1>1, HeldBlock, BufferActors DEF Inv
<1>4. Memory!Move(x, b)
    BY <1>1, <1>2, <1>3 DEF Memory!Move, Held, Live, Slots
<1> QED BY <1>1, <1>4 DEF MemoryStep, Memory!Next, Slots

\* The finalizer frees the block if and only if nobody else holds it, and then no
\* request works in it, because its caller would hold it.
LEMMA CollectMemory ==
    ASSUME Inv, NEW b \in Bufs, buffer_gc(b)
    PROVE  MemoryStep
<1>1. /\ view[b] # Nil /\ b \notin Pinned /\ b \in Slots
      /\ mem_release(view[b].orig) /\ view' = [view EXCEPT ![b] = Nil] /\ loan' = loan
    BY DEF buffer_gc, Slots
<1>2. PICK m \in Mems : m = view[b].orig
    BY <1>1 DEF Views, Inv, TypeOK, Slots
<1>3. /\ RefCountsExact'
      /\ \A y \in Slots : y # b /\ view[y] # Nil => mem'[view[y].orig] # Nil
    BY <1>1, DroppedView DEF Inv
<1>4. Held' = [Held EXCEPT ![b] = Nil] /\ Held[b] = m /\ m # Nil
    <2>1. Held' = [Held EXCEPT ![b] = Nil]
        BY <1>1 DEF Held, Inv, TypeOK, Slots
    <2> QED BY <1>1, <1>2, <2>1, HeldBlock, BufferActors DEF Inv
<1>5. \A k \in Mems \ {m} : mem'[k] = mem[k]
    BY <1>1, <1>2 DEF mem_release, Inv, TypeOK
<1>6. CASE \A y \in Slots \ {b} : Held[y] # m
    <2>1. Holders(m)' = {}
        <3>1. ASSUME NEW y \in Slots, view'[y] # Nil, view'[y].orig = m PROVE FALSE
            <4>1. y # b /\ view'[y] = view[y]
                BY <1>1, <3>1 DEF Inv, TypeOK, Slots
            <4> QED BY <1>6, <3>1, <4>1, HeldBlock DEF Inv
        <3> QED BY <3>1 DEF Holders, Slots
    <2>2. mem'[m] = Nil
        <3>1. Cardinality({}) = 0
            BY FS_EmptySet
        <3> QED BY <1>3, <2>1, <3>1 DEF RefCountsExact
    <2>3. Live' = Live \ {m}
        BY <1>5, <2>2 DEF Live
    <2>4. \A o \in Ops : m \notin {v.orig : v \in loan[o].bufs}
        <3>1. ASSUME NEW o \in Ops, NEW v \in loan[o].bufs, v.orig = m PROVE FALSE
            <4>1. PICK c \in loan[o].pins : view[c] = v
                BY <3>1 DEF Inv, LoansPinned
            <4>2. c \in Slots /\ c \in Pinned /\ v \in Views
                BY <3>1, <4>1 DEF Inv, TypeOK, Slots, Pinned
            <4>3. view[c] # Nil /\ c # b
                BY <1>1, <4>1, <4>2, BufferActors
            <4> QED BY <1>6, <3>1, <4>1, <4>2, <4>3, HeldBlock DEF Inv
        <3> QED BY <3>1
    <2>5. Memory!Release(b)
        <3>1. \A o \in Ops : m \notin Lent[o]
            BY <2>4 DEF Lent
        <3>2. Lent' = Lent
            BY <1>1 DEF Lent
        <3> QED BY <1>4, <1>6, <2>3, <3>1, <3>2
                DEF Memory!Release, Memory!LastHolder, Memory!InUse, Held, Live, Lent, Slots
    <2> QED BY <1>1, <2>5 DEF MemoryStep, Memory!Next, Slots
<1>7. CASE \E y \in Slots \ {b} : Held[y] = m
    <2>1. PICK y \in Slots \ {b} : Held[y] = m
        BY <1>7
    <2>2. view[y] # Nil /\ view[y].orig = m
        BY <1>4, <2>1, HeldBlock DEF Inv
    <2>3. mem'[m] # Nil
        BY <1>3, <2>1, <2>2
    <2>4. mem[m] # Nil
        BY <1>1, <1>2 DEF Inv, NothingDangles, InBlock, Slots
    <2>5. Live' = Live
        BY <1>5, <2>3, <2>4 DEF Live
    <2>6. Memory!Release(b)
        <3>1. Lent' = Lent
            BY <1>1 DEF Lent
        <3> QED BY <1>4, <2>1, <2>5, <3>1
                DEF Memory!Release, Memory!LastHolder, Held, Live, Lent, Slots
    <2> QED BY <1>1, <2>6 DEF MemoryStep, Memory!Next, Slots
<1> QED BY <1>6, <1>7

LEMMA StartMemory ==
    ASSUME Inv, NEW o \in Ops, NEW S \in Arrays, Start(o, S)
    PROVE  MemoryStep
<1>1. /\ loan[o] = Idle /\ S \subseteq known /\ S # {}
      /\ loan' = [loan EXCEPT ![o] = [pins |-> S, bufs |-> {view[b] : b \in S}]]
      /\ UNCHANGED <<mem, view>>
    BY DEF Start
<1>2. \A b \in S : b \in Slots /\ Held[b] = view[b].orig /\ Held[b] \in Mems
    BY <1>1, HeldBlock DEF Inv, TypeOK, Slots
<1>3. PICK B \in SUBSET Mems : B = {view[b].orig : b \in S}
    BY <1>2
<1>4. Lent[o] = {} /\ B # {} /\ \A m \in B : \E x \in Slots : Held[x] = m
    BY <1>1, <1>2, <1>3 DEF Lent, Idle
<1>5. Lent' = [Lent EXCEPT ![o] = B]
    <2>1. loan'[o].bufs = {view[b] : b \in S} /\ \A p \in Ops \ {o} : loan'[p] = loan[p]
        BY <1>1 DEF Inv, TypeOK
    <2>2. {v.orig : v \in loan'[o].bufs} = B
        BY <1>3, <2>1
    <2> QED BY <2>1, <2>2 DEF Lent
<1>6. UNCHANGED <<Live, Held>>
    BY <1>1 DEF Live, Held
<1>7. Memory!Lend(o, B)
    BY <1>4, <1>5, <1>6 DEF Memory!Lend, Lent, Live, Held, Slots
<1> QED BY <1>3, <1>7 DEF MemoryStep, Memory!Next

LEMMA DoneMemory ==
    ASSUME Inv, NEW o \in Ops, Done(o)
    PROVE  MemoryStep
<1>1. loan' = [loan EXCEPT ![o] = Idle] /\ UNCHANGED <<mem, view>>
    BY DEF Done
<1>2. Lent' = [Lent EXCEPT ![o] = {}]
    <2>1. loan'[o].bufs = {} /\ \A p \in Ops \ {o} : loan'[p] = loan[p]
        BY <1>1 DEF Idle, Inv, TypeOK
    <2>2. {v.orig : v \in loan'[o].bufs} = {}
        BY <2>1
    <2> QED BY <2>1, <2>2 DEF Lent
<1>3. Live' = Live /\ Held' = Held
    BY <1>1 DEF Live, Held
<1>4. Memory!Return(o)
    BY <1>2, <1>3 DEF Memory!Return, Lent, Live, Held, Slots
<1> QED BY <1>4 DEF MemoryStep, Memory!Next

LEMMA StepMemory == Inv /\ [Next]_vars => MemoryStep
<1> SUFFICES ASSUME Inv, [Next]_vars PROVE MemoryStep
    OBVIOUS
<1>1. CASE UNCHANGED vars
    BY <1>1, StutterMemory DEF vars
<1>2. ASSUME NEW b \in Bufs, NEW m \in Mems, NEW n \in Sizes, New(b, m, n)
      PROVE  MemoryStep
    <2>1. b \in Slots /\ n \in Nat
        BY BufferSizes DEF Slots
    <2> QED BY <1>2, <2>1, FreshMemory DEF New, Push
<1>3. ASSUME NEW b \in known, Use(b) PROVE MemoryStep
    <2>1. CASE \E s \in Bufs, first \in Args, last \in Ends(b) : slice(b, s, first, last)
        BY <2>1, SliceMemory
    <2>2. CASE UNCHANGED <<mem, view, loan>>
        BY <2>2, StutterMemory
    <2> QED BY <1>3, <2>1, <2>2 DEF Use, access, fill, copy, write
<1>4. ASSUME NEW list \in Lists, NEW given \in Args, NEW b \in Bufs, NEW m \in Mems,
             concat(list, given, b, m)
      PROVE  MemoryStep
    BY <1>4, ConcatMemory
<1>5. ASSUME NEW b \in Bufs, Drop(b) PROVE MemoryStep
    BY <1>5, StutterMemory DEF Drop
<1>6. ASSUME NEW b \in Bufs, buffer_gc(b) PROVE MemoryStep
    BY <1>6, CollectMemory
<1>7. ASSUME NEW x \in Nodes, NEW m \in Mems, Input(x, m) PROVE MemoryStep
    <2>1. x \in Slots /\ Suggested \in Nat
        BY BufferSizes DEF Slots
    <2> QED BY <1>7, <2>1, FreshMemory DEF Input
<1>8. ASSUME NEW x \in Nodes, NEW b \in Bufs, Take(x, b) PROVE MemoryStep
    BY <1>8, TakeMemory
<1>9. ASSUME NEW o \in Ops, NEW S \in Arrays, Start(o, S) PROVE MemoryStep
    BY <1>9, StartMemory
<1>10. ASSUME NEW o \in Ops, Done(o) PROVE MemoryStep
    BY <1>10, DoneMemory
<1> QED BY <1>1, <1>2, <1>3, <1>4, <1>5, <1>6, <1>7, <1>8, <1>9, <1>10 DEF Next

\* Counting references gives every block back in the step in which its last Buffer
\* or input lets go of it, and never under a request, in every program.
THEOREM CountingImplementsSharedMemory == Spec => ImplementsSharedMemory
<1>1. Init => Memory!Init
    BY DEF Init, Memory!Init, Idle
<1>2. Inv /\ [Next]_vars => [Memory!Next]_Memory!vars
    BY StepMemory DEF MemoryStep, Memory!vars, Live, Held, Lent, Slots
<1> QED BY <1>1, <1>2, Starts, Steps, PTL DEF Spec, ImplementsSharedMemory, Memory!Spec
=============================================================================
