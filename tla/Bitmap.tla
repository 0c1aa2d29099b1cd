------------------------------- MODULE Bitmap -------------------------------
(***************************************************************************)
(* One region managed by bitmap.c, and the callers that use it (heap.c,    *)
(* vmm.c).  Callers allocate any size in Requests, pass any pointer in     *)
(* Pointers to bm_free and bm_realloc - their own, one of another region,  *)
(* one freed before, one into the middle of a region - and may be refused. *)
(* The region lives in frames of alloc_frame, which are not zeroed, so its *)
(* bit array starts with leftover ids.                                     *)
(***************************************************************************)
EXTENDS BitmapOps

CONSTANTS Size, BSize,    \* the arguments of init_bitmap
          Leftover,       \* the ids the memory of a new region may hold
          Requests,       \* sizes callers ask for, in bytes
          Pointers        \* pointers callers pass, as offsets in bytes

ASSUME BitmapAssumption ==
    /\ Size \in Nat /\ BSize \in Nat \ {0}
    /\ Leftover \subseteq 0 .. 3
    /\ Requests \subseteq Nat
    /\ Pointers \subseteq Int

VARIABLES b,        \* the bitmap_t
          live,     \* the regions callers hold: allocated and not freed
          halted    \* exception_handler has stopped the machine (hcf)

vars == <<b, live, halted>>

Total == Size \div BSize
Meta == BM_BLOCKS(Size, BSize)

Region == [start : Meta .. Total, n : 0 .. Total]
Extent(r) == r.start .. r.start + r.n - 1

\* The region a caller holds after bm_alloc(size) returned ptr.
RegionAt(ptr, size) ==
    [start |-> ptr \div BSize, n |-> DIV_CEIL(size, BSize)]

Init ==
    /\ \E garbage \in [0 .. Total - 1 -> Leftover] :
           b = init_bitmap(Size, BSize, garbage)
    /\ live = {}
    /\ halted = FALSE

Alloc(size) ==
    LET r == bm_alloc(b, size) IN
    /\ ~ halted
    /\ b' = r.b
    /\ live' = IF r.ptr = NULL THEN live ELSE live \cup {RegionAt(r.ptr, size)}
    /\ UNCHANGED halted

\* What callers hold once one of them gave up the region at ptr.  A pointer
\* that starts no region they hold leaves them with the same regions.
GivenUp(held, ptr) ==
    LET owned == {r \in held : r.start * BSize = ptr}
    IN IF owned = {} THEN {held} ELSE {held \ {r} : r \in owned}

Free(ptr) ==
    /\ ~ halted
    /\ b' = bm_free(b, ptr).b
    /\ live' \in GivenUp(live, ptr)
    /\ UNCHANGED halted

Realloc(ptr, size) ==
    LET r == bm_realloc(b, ptr, size) IN
    /\ ~ halted
    /\ b' = r.b
    /\ halted' = r.fault
    /\ IF r.ptr = NULL
       THEN UNCHANGED live
       ELSE \E kept \in GivenUp(live, ptr) :
                live' = kept \cup {RegionAt(r.ptr, size)}

\* hcf: the processor halts with interrupts disabled.
Halted == halted /\ UNCHANGED vars

Next ==
    \/ \E size \in Requests : Alloc(size)
    \/ \E ptr \in Pointers : Free(ptr)
    \/ \E ptr \in Pointers, size \in Requests : Realloc(ptr, size)
    \/ Halted

Spec == Init /\ [][Next]_vars

-----------------------------------------------------------------------------
(* Properties *)

\* The fields of bitmap_t stay in range: size and bsize never change, ffa
\* never points into the bit array and never past the last block.
TypeOK ==
    /\ b \in [size : {Size}, bsize : {BSize}, used : Nat, ffa : Meta .. Total,
              ids : [0 .. Total - 1 -> 0 .. 3]]
    /\ live \subseteq Region
    /\ halted \in BOOLEAN

\* bm_alloc never hands out a block twice: two regions callers hold share no
\* block, whatever stray, repeated or interior pointers were freed before.
RegionsDisjoint ==
    \A r, s \in live : r # s => Extent(r) \cap Extent(s) = {}

\* The blocks that are not free in the bit array.
Marked == {j \in 0 .. Total - 1 : b.ids[j] # 0}

\* used counts no more than the marked blocks, so the unsigned subtraction
\* tblocks - used at the top of bm_alloc cannot wrap.
UsedIsBounded == b.used <= Cardinality(Marked)

\* Starting the scan at ffa and refusing on the strength of used lose
\* nothing: bm_alloc refuses a request only when no run of free blocks in
\* the whole region is long enough for it.
ScanIsComplete ==
    \A size \in Requests :
        LET n == DIV_CEIL(size, BSize)
        IN (\E i \in 0 .. Total - 1 : Fits(b, n, i)) => CanAlloc(b, n)

\* The loop of bm_alloc, which jumps over the run it found too short, ends at
\* the block FirstFit defines, and finds none exactly when none fits.
ScanFindsFirstFit ==
    \A size \in Requests :
        LET n == DIV_CEIL(size, BSize)
            fits == \E i \in b.ffa .. Total - 1 : Fits(b, n, i)
        IN Scan(b, n) = IF fits THEN FirstFit(b, n) ELSE NULL

\* The run that bm_free releases and bm_realloc copies for a pointer a caller
\* holds stays inside the caller's region: ids that get_bm leaves unshifted
\* never merge a region with its neighbour.
FreeStaysInside ==
    \A r \in live : r.n > 0 => Run(b, r.start) \subseteq Extent(r)

\* A region of bitmap.c implements the allocator its callers rely on.
Allocator == INSTANCE RegionAllocator WITH Lo <- Meta, Hi <- Total

\* Every step of bitmap.c, seen by the regions callers hold, is a step of
\* RegionAllocator or changes nothing.
ImplementsAllocator == Allocator!Spec
=============================================================================
