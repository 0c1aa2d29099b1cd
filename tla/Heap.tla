-------------------------------- MODULE Heap --------------------------------
(***************************************************************************)
(* A heap (mem/heap.c): a list of regions, each managed by bitmap.c.       *)
(* heap_add puts a new region in front of the list and returns the new     *)
(* head, which the caller passes to halloc, hfree and hrealloc.            *)
(*                                                                         *)
(* Regions are numbered in the order they were added, so the head is the   *)
(* last one and the list runs down to region 1.  A pointer is a region and *)
(* a byte offset in it.  The memory of a region is a page from valloc, in  *)
(* the address space of a thread, whose stack comes from there too; vm is  *)
(* its vmm_t and at[r] the virtual page of region r.                       *)
(***************************************************************************)
EXTENDS Vmm, Sequences

CONSTANTS Size, BSize,   \* bytes and block size of a region
          Leftover,      \* the ids the memory of a new region may hold
          VLeftover,     \* the ids the bit array of the space may hold
          Requests,      \* sizes callers ask for
          Strays,        \* pointers callers pass, held or not
          MaxRegions,    \* bound: regions added to the heap
          StackPages     \* pages of a stack, 1 or 2

ASSUME HeapAssumption ==
    /\ Size \in Nat /\ BSize \in Nat \ {0} /\ MaxRegions \in Nat \ {0}
    /\ Leftover \subseteq 0 .. 3 /\ VLeftover \subseteq 0 .. 3 /\ Requests \subseteq Nat
    /\ Strays \subseteq [region : Nat, off : Int] /\ StackPages \subseteq {1, 2}

VARIABLES heap,      \* the bitmap_t of every region
          live,      \* what callers hold, as [region, start, n] in blocks
          halted,    \* exception_handler has stopped the machine, or the bit
                     \* array of vm was replaced and nothing more is known
          vm, at,
          stacks     \* stacks in use, as sets of virtual pages

vars == <<heap, live, halted, vm, at, stacks>>
pages == <<vm, at, stacks>>

Total == Size \div BSize
HeadOf(h) == Len(h)

\* The offset a pointer has in region r, out of its range in any other region.
In(r, p) == IF p.region = r THEN p.off ELSE NULL

Held(r, off, size) ==
    [region |-> r, start |-> off \div BSize, n |-> DIV_CEIL(size, BSize)]

PtrOf(a) == [region |-> a.region, off |-> a.start * BSize]

\* What callers pass to hfree and hrealloc: the start of what they hold, or
\* anything else, freed before, inside an allocation or of no region at all.
Ptrs == {PtrOf(a) : a \in live} \cup Strays

\* What callers hold once one of them gave up what starts at p, if anything does.
GivenUp(held, p) ==
    LET owned == {a \in held : PtrOf(a) = p}
    IN IF owned = {} THEN {held} ELSE {held \ {a} : a \in owned}

Added(h) ==
    {Append(h, init_bitmap(Size, BSize, garbage)) :
        garbage \in [0 .. Total - 1 -> Leftover]}

\* init_thread_vmm: a fresh space and a heap of one region.  There may be no
\* page or no frame for it, and heap_add writes all the same.
Init ==
    \E garbage \in [0 .. VPages - 1 -> VLeftover] :
        LET h == valloc(1, init_vmm(garbage)) IN
        /\ heap \in Added(<<>>) /\ at = <<h.page>>
        /\ vm = h.vm /\ stacks = {} /\ live = {}
        /\ halted = (h.vm.space[h.page] = 0)

\* A refused valloc returns NULL, through which heap_add writes: page 0 is
\* not mapped, and the fault halts the machine.  So it is with a page for
\* which there was no frame.
heap_add ==
    LET v == valloc(1, vm) IN
    /\ ~ halted /\ Len(heap) < MaxRegions
    /\ vm' = v.vm
    /\ \/ /\ v.vm.space[v.page] = 0
          /\ halted' = TRUE /\ UNCHANGED <<heap, at>>
       \/ /\ v.vm.space[v.page] # 0
          /\ heap' \in Added(heap) /\ at' = Append(at, v.page)
          /\ UNCHANGED halted
    /\ UNCHANGED <<live, stacks>>

\* A stack is taken and given back (init_thread_vmm, free_thread).
NewStack(n) ==
    LET v == valloc(n, vm) IN
    /\ ~ halted
    /\ vm' = v.vm /\ halted' = (v.page = 0 /\ n > 1)
    /\ stacks' = IF v.page = 0 THEN stacks ELSE stacks \cup {v.page .. v.page + n - 1}
    /\ UNCHANGED <<heap, live, at>>

FreeStack(s) ==
    /\ ~ halted
    /\ vm' = vfree(CHOOSE p \in s : \A q \in s : p <= q, vm)
    /\ stacks' = stacks \ {s}
    /\ UNCHANGED <<heap, live, halted, at>>

\* The first region from the head down that can serve the request.
Serves(h, size) ==
    {r \in 1 .. Len(h) :
        /\ bm_alloc(h[r], size).ptr # NULL
        /\ \A q \in r + 1 .. Len(h) : bm_alloc(h[q], size).ptr = NULL}

halloc(size) ==
    /\ ~ halted
    /\ \/ /\ Serves(heap, size) = {}
          /\ UNCHANGED <<heap, live>>
       \/ \E r \in Serves(heap, size) :
              LET a == bm_alloc(heap[r], size)
              IN /\ heap' = [heap EXCEPT ![r] = a.b]
                 /\ live' = live \cup {Held(r, a.ptr, size)}
    /\ UNCHANGED <<halted, pages>>

\* The region hfree and hrealloc pass to bitmap.c on every turn of their
\* loops: &heap->bm, not &b->bm.
Tried(h) == {HeadOf(h)}

hfree(p) ==
    /\ ~ halted
    /\ \/ \E r \in Tried(heap) :
              LET f == bm_free(heap[r], In(r, p))
              IN /\ f.bytes # 0
                 /\ heap' = [heap EXCEPT ![r] = f.b]
       \/ /\ \A r \in Tried(heap) : bm_free(heap[r], In(r, p)).bytes = 0
          /\ UNCHANGED heap
    /\ live' \in GivenUp(live, p)
    /\ UNCHANGED <<halted, pages>>

\* A caller keeps what it holds when it gets NULL.
hrealloc(p, size) ==
    /\ ~ halted
    /\ \/ \E r \in Tried(heap) :
              LET m == bm_realloc(heap[r], In(r, p), size)
              IN /\ m.ptr # NULL \/ m.fault
                 /\ heap' = [heap EXCEPT ![r] = m.b]
                 /\ halted' = m.fault
                 /\ \/ m.fault /\ UNCHANGED live
                    \/ /\ ~ m.fault
                       /\ \E kept \in GivenUp(live, p) :
                              live' = kept \cup {Held(r, m.ptr, size)}
       \/ /\ \A r \in Tried(heap) :
                 LET m == bm_realloc(heap[r], In(r, p), size)
                 IN m.ptr = NULL /\ ~ m.fault
          /\ UNCHANGED <<heap, live, halted>>
    /\ UNCHANGED pages

Halted == halted /\ UNCHANGED vars

Next ==
    \/ heap_add
    \/ \E size \in Requests : halloc(size) \/ \E p \in Ptrs : hrealloc(p, size)
    \/ \E p \in Ptrs : hfree(p)
    \/ \E n \in StackPages : NewStack(n)
    \/ \E s \in stacks : FreeStack(s)
    \/ Halted

Spec == Init /\ [][Next]_vars

-----------------------------------------------------------------------------
(* Properties *)

Extent(a) == {<<a.region, j>> : j \in a.start .. a.start + a.n - 1}

\* No byte belongs to two callers, and none of them owns a byte of a region's
\* bit array, however regions are added and filled, and whatever pointers are
\* freed and reallocated, twice, from inside an allocation or of another region.
HeapDisjoint ==
    /\ \A a, c \in live : a # c => Extent(a) \cap Extent(c) = {}
    /\ \A a \in live : a.start >= BM_BLOCKS(Size, BSize)

HeldPages == (UNION stacks) \cup {at[r] : r \in DOMAIN at}

\* Every page of a heap region or of a stack in use keeps a frame of its own,
\* whose bit is set, whatever was allocated, freed and refused around it, as
\* long as no valloc of more than a page was refused.
FramesOwned ==
    ~ halted => \A p, q \in HeldPages :
        /\ vm.space[p] \in vm.used
        /\ p # q /\ vm.space[p] # 0 => vm.space[p] # vm.space[q]
=============================================================================
