----------------------------- MODULE HeapProofs -----------------------------
(***************************************************************************)
(* Proofs about Heap, for regions, address spaces and memories of any      *)
(* size.  Every region of the heap, and the region of the address space    *)
(* the heap lies in, is a region of Bitmap: the lemmas of BitmapProofs are *)
(* used twice, by instantiation.                                           *)
(***************************************************************************)
EXTENDS Heap, FiniteSetTheorems, TLAPS

R == INSTANCE BitmapProofs
     WITH Pointers <- {}, b <- heap[HeadOf(heap)], live <- {}, halted <- halted

V == INSTANCE BitmapProofs
     WITH Size <- VPages * PageSize, BSize <- PageSize, Leftover <- VLeftover,
          Requests <- {}, Pointers <- {}, b <- vm.bm, live <- {}, halted <- halted

\* The parameters are such that what BitmapProofs assumes of them holds.
LEMMA RegionAssumption == R!BitmapAssumption
BY HeapAssumption DEF R!BitmapAssumption

\* So it is for the region of the address space.
LEMMA SpaceAssumption == V!BitmapAssumption
BY HeapAssumption, VmmAssumption DEF V!BitmapAssumption

\* Both instances contain copies of the operators of BitmapOps.
LEMMA RegionCopies ==
    /\ R!Total = Total /\ R!Meta = BM_BLOCKS(Size, BSize) /\ R!NULL = NULL
    /\ \A x, s : R!bm_alloc(x, s) = bm_alloc(x, s)
    /\ \A x, p : R!bm_free(x, p) = bm_free(x, p)
    /\ \A x, p, s : R!bm_realloc(x, p, s) = bm_realloc(x, p, s)
    /\ \A g : R!init_bitmap(Size, BSize, g) = init_bitmap(Size, BSize, g)
    /\ \A n, d : R!DIV_CEIL(n, d) = DIV_CEIL(n, d)
<1> USE DEF R!DIV_CEIL, DIV_CEIL, R!TBlocks, TBlocks, R!get_bm, get_bm, R!Weight, Weight,
     R!BLOCKS_PER_INT, BLOCKS_PER_INT, R!BITS_PER_ID, BITS_PER_ID, R!set_bm, set_bm,
     R!OrId, OrId, R!NULL, NULL
<1>1. ASSUME NEW x, NEW s PROVE R!bm_alloc(x, s) = bm_alloc(x, s)
  BY Zenon DEF R!bm_alloc, bm_alloc, R!CanAlloc, CanAlloc, R!Enough, Enough, R!Fits, Fits,
     R!FirstFit, FirstFit, R!Mark, Mark, R!NewId, NewId, R!bm_unique_id, bm_unique_id
<1>2. ASSUME NEW x, NEW p PROVE R!bm_free(x, p) = bm_free(x, p)
  BY Zenon DEF R!bm_free, bm_free, R!InRegion, InRegion, R!MetaBlocks, MetaBlocks,
     R!BM_BLOCKS, BM_BLOCKS, R!Run, Run, R!Cardinality, Cardinality
<1>3. ASSUME NEW x, NEW p, NEW s PROVE R!bm_realloc(x, p, s) = bm_realloc(x, p, s)
  <2>1. ASSUME NEW y, NEW t PROVE R!Run(y, t) = Run(y, t)
    BY Zenon DEF R!Run, Run
  <2>2. R!InRegion(x, p) <=> InRegion(x, p)
    BY Zenon DEF R!InRegion, InRegion, R!MetaBlocks, MetaBlocks, R!BM_BLOCKS, BM_BLOCKS
  <2>3. R!bm_alloc(x, s) = bm_alloc(x, s)
    BY <1>1
  <2>4. R!bm_free(bm_alloc(x, s).b, p) = bm_free(bm_alloc(x, s).b, p)
    BY <1>2
  <2>5. R!Run(bm_alloc(x, s).b, p \div x.bsize) = Run(bm_alloc(x, s).b, p \div x.bsize)
    BY <2>1
  <2> QED
    BY <2>2, <2>3, <2>4, <2>5, SMT DEF R!bm_realloc, bm_realloc
<1>4. ASSUME NEW g PROVE R!init_bitmap(Size, BSize, g) = init_bitmap(Size, BSize, g)
  BY Zenon DEF R!init_bitmap, init_bitmap, R!BM_BLOCKS, BM_BLOCKS
<1>5. ASSUME NEW n, NEW d PROVE R!DIV_CEIL(n, d) = DIV_CEIL(n, d)
  BY Zenon
<1>6. R!Total = Size \div BSize /\ R!Meta = BM_BLOCKS(Size, BSize) /\ R!NULL = NULL
  BY Zenon DEF R!Total, R!Meta, R!BM_BLOCKS, BM_BLOCKS
<1> QED
  BY <1>1, <1>2, <1>3, <1>4, <1>5, <1>6, Zenon DEF Total

\* So it is for the address space.
LEMMA SpaceCopies ==
    /\ V!Total = (VPages * PageSize) \div PageSize
    /\ V!Meta = BM_BLOCKS(VPages * PageSize, PageSize) /\ V!NULL = NULL
    /\ \A x, s : V!bm_alloc(x, s) = bm_alloc(x, s)
    /\ \A x, p : V!bm_free(x, p) = bm_free(x, p)
    /\ \A x, s : V!Run(x, s) = Run(x, s)
    /\ \A g : V!init_bitmap(VPages * PageSize, PageSize, g)
                  = init_bitmap(VPages * PageSize, PageSize, g)
    /\ \A n, d : V!DIV_CEIL(n, d) = DIV_CEIL(n, d)
<1> USE DEF V!DIV_CEIL, DIV_CEIL, V!TBlocks, TBlocks, V!get_bm, get_bm, V!Weight, Weight,
     V!BLOCKS_PER_INT, BLOCKS_PER_INT, V!BITS_PER_ID, BITS_PER_ID, V!set_bm, set_bm,
     V!OrId, OrId, V!NULL, NULL
<1>1. ASSUME NEW x, NEW s PROVE V!bm_alloc(x, s) = bm_alloc(x, s)
  BY Zenon DEF V!bm_alloc, bm_alloc, V!CanAlloc, CanAlloc, V!Enough, Enough, V!Fits, Fits,
     V!FirstFit, FirstFit, V!Mark, Mark, V!NewId, NewId, V!bm_unique_id, bm_unique_id
<1>2. ASSUME NEW x, NEW p PROVE V!bm_free(x, p) = bm_free(x, p)
  BY Zenon DEF V!bm_free, bm_free, V!InRegion, InRegion, V!MetaBlocks, MetaBlocks,
     V!BM_BLOCKS, BM_BLOCKS, V!Run, Run, V!Cardinality, Cardinality
<1>3. ASSUME NEW x, NEW s PROVE V!Run(x, s) = Run(x, s)
  BY Zenon DEF V!Run, Run
<1>4. ASSUME NEW g PROVE V!init_bitmap(VPages * PageSize, PageSize, g) = init_bitmap(VPages * PageSize, PageSize, g)
  BY Zenon DEF V!init_bitmap, init_bitmap, V!BM_BLOCKS, BM_BLOCKS
<1>5. ASSUME NEW n, NEW d PROVE V!DIV_CEIL(n, d) = DIV_CEIL(n, d)
  BY Zenon
<1>6. V!Total = (VPages * PageSize) \div PageSize /\ V!Meta = BM_BLOCKS(VPages * PageSize, PageSize) /\ V!NULL = NULL
  BY Zenon DEF V!Total, V!Meta, V!BM_BLOCKS, BM_BLOCKS
<1> QED
  BY <1>1, <1>2, <1>3, <1>4, <1>5, <1>6, Zenon

-----------------------------------------------------------------------------
(* The regions *)

Meta == BM_BLOCKS(Size, BSize)

\* The bitmap_t of a region.
Structs == [size : {Size}, bsize : {BSize}, used : Nat, ffa : Meta .. Total,
            ids : [0 .. Total - 1 -> 0 .. 3]]

\* Blocks marked in x are marked in y.
Keeps(x, y) == \A j \in 0 .. Total - 1 : x.ids[j] # 0 => y.ids[j] # 0

\* The n blocks from s on are free in x and marked in y.
Fresh(x, y, s, n) ==
    /\ s \in Meta .. Total /\ n \in Nat /\ s + n <= Total
    /\ \A j \in s .. s + n - 1 : x.ids[j] = 0 /\ y.ids[j] # 0

\* The bit array fits into its region.
LEMMA RegionLayout == Total \in Nat /\ Meta \in Nat /\ Meta <= Total
BY R!Layout, RegionAssumption, RegionCopies DEF Meta

\* A well-formed region is a bitmap_t.
LEMMA RegionType == ASSUME NEW x, R!WellFormed(x) PROVE x \in Structs
BY RegionCopies DEF R!WellFormed, Structs, Meta

\* What a granted region means here.
LEMMA GrantedFresh ==
    ASSUME NEW x, NEW y, NEW ptr, NEW size, R!Granted(x, y, R!RegionAt(ptr, size)),
           NEW s, s = ptr \div BSize, NEW n, n = DIV_CEIL(size, BSize)
    PROVE  Fresh(x, y, s, n)
<1>1. R!RegionAt(ptr, size) = [start |-> s, n |-> n]
  BY RegionCopies DEF R!RegionAt
<1>2. /\ s \in Meta .. Total /\ n \in 0 .. Total /\ s + n <= Total
      /\ \A j \in s .. s + n - 1 : x.ids[j] = 0 /\ y.ids[j] # 0
  BY <1>1, RegionCopies DEF R!Granted, R!Region, R!Extent, Meta
<1> QED
  BY <1>2, RegionLayout DEF Fresh

\* bm_alloc, as BitmapProofs has it.
LEMMA RegionAlloc ==
    ASSUME NEW x, R!WellFormed(x), NEW size \in Nat, NEW r, r = bm_alloc(x, size)
    PROVE  /\ R!WellFormed(r.b) /\ Keeps(x, r.b)
           /\ r.ptr # NULL => Fresh(x, r.b, r.ptr \div BSize, DIV_CEIL(size, BSize))
<1>1. r = R!bm_alloc(x, size)
  BY RegionCopies
<1>2. /\ R!WellFormed(r.b) /\ R!Keeps(x, r.b)
      /\ r.ptr # R!NULL => R!Granted(x, r.b, R!RegionAt(r.ptr, size))
  BY <1>1, R!AllocStep, RegionAssumption
<1>3. Keeps(x, r.b)
  BY <1>2, RegionCopies DEF Keeps, R!Keeps
<1> QED
  BY <1>2, <1>3, RegionCopies, GrantedFresh

\* bm_free marks and unmarks nothing.
LEMMA RegionFree ==
    ASSUME NEW x, R!WellFormed(x), NEW ptr \in Int, NEW y, y = bm_free(x, ptr).b
    PROVE  R!WellFormed(y) /\ Keeps(x, y)
<1>1. y = R!bm_free(x, ptr).b
  BY RegionCopies
<1>2. R!WellFormed(y) /\ y.ids = x.ids
  BY <1>1, R!FreeStep, RegionAssumption
<1> QED
  BY <1>2 DEF Keeps

\* bm_realloc, as BitmapProofs has it.
LEMMA RegionRealloc ==
    ASSUME NEW x, R!WellFormed(x), NEW ptr \in Int, NEW size \in Nat,
           NEW r, r = bm_realloc(x, ptr, size)
    PROVE  /\ R!WellFormed(r.b) /\ Keeps(x, r.b) /\ r.fault \in BOOLEAN
           /\ r.ptr # NULL => Fresh(x, r.b, r.ptr \div BSize, DIV_CEIL(size, BSize))
<1>1. r = R!bm_realloc(x, ptr, size)
  BY RegionCopies
<1>2. /\ R!WellFormed(r.b) /\ R!Keeps(x, r.b) /\ r.fault \in BOOLEAN
      /\ r.ptr # R!NULL => R!Granted(x, r.b, R!RegionAt(r.ptr, size))
  BY <1>1, R!ReallocStep, RegionAssumption
<1>3. Keeps(x, r.b)
  BY <1>2, RegionCopies DEF Keeps, R!Keeps
<1> QED
  BY <1>2, <1>3, RegionCopies, GrantedFresh

\* heap_add's init_bitmap makes a region.
LEMMA RegionAdded ==
    ASSUME NEW h \in Seq(Structs), NEW g \in Added(h)
    PROVE  \E x : R!WellFormed(x) /\ g = Append(h, x)
<1>1. PICK garbage \in [0 .. Total - 1 -> Leftover] :
          g = Append(h, init_bitmap(Size, BSize, garbage))
  BY DEF Added
<1>2. R!WellFormed(init_bitmap(Size, BSize, garbage))
  BY R!InitStruct, RegionAssumption, RegionCopies
<1> QED
  BY <1>1, <1>2

-----------------------------------------------------------------------------
(* What callers hold *)

\* The blocks of an allocation.
Run1(a) == a.start .. a.start + a.n - 1

HeapInv ==
    /\ heap \in Seq(Structs) /\ Len(heap) # 0 /\ halted \in BOOLEAN
    /\ \A r \in 1 .. Len(heap) : R!WellFormed(heap[r])
    /\ live \subseteq [region : 1 .. Len(heap), start : Meta .. Total, n : Nat]
    /\ \A a \in live : /\ a.start + a.n <= Total
                       /\ \A j \in Run1(a) : heap[a.region].ids[j] # 0
    /\ \A a, c \in live : a # c /\ a.region = c.region => Run1(a) \cap Run1(c) = {}

\* Blocks of region r get marked, and at most the allocation g joins what is
\* left of the others.
LEMMA HeapStep ==
    ASSUME HeapInv, halted' \in BOOLEAN, NEW r \in 1 .. Len(heap), NEW y,
           R!WellFormed(y), Keeps(heap[r], y), heap' = [heap EXCEPT ![r] = y],
           NEW g, NEW s, NEW n, g = [region |-> r, start |-> s, n |-> n],
           \/ live' \subseteq live
           \/ live' \subseteq live \cup {g} /\ Fresh(heap[r], y, s, n)
    PROVE  HeapInv'
<1>1. /\ heap' \in Seq(Structs) /\ Len(heap') = Len(heap) /\ Len(heap) \in Nat /\ heap'[r] = y
      /\ \A q \in 1 .. Len(heap) : q # r => heap'[q] = heap[q]
  BY RegionType DEF HeapInv
<1>2. \A q \in 1 .. Len(heap') : R!WellFormed(heap'[q])
  BY <1>1 DEF HeapInv
<1>3. live' \subseteq [region : 1 .. Len(heap), start : Meta .. Total, n : Nat]
  BY DEF HeapInv, Fresh
<1>4. ASSUME NEW a \in live
      PROVE  a.start + a.n <= Total /\ \A j \in Run1(a) : heap'[a.region].ids[j] # 0
  <2>1. /\ a.region \in 1 .. Len(heap) /\ a.start \in Meta .. Total /\ a.n \in Nat
        /\ a.start + a.n <= Total /\ \A j \in Run1(a) : heap[a.region].ids[j] # 0
    BY DEF HeapInv
  <2>2. \A j \in Run1(a) : j \in 0 .. Total - 1
    BY <2>1, RegionLayout DEF Run1
  <2>3. CASE a.region = r
    BY <1>1, <2>1, <2>2, <2>3 DEF Keeps
  <2>4. CASE a.region # r
    BY <1>1, <2>1, <2>4
  <2> QED
    BY <2>1, <2>3, <2>4
<1>5. ASSUME Fresh(heap[r], y, s, n)
      PROVE  /\ g.start + g.n <= Total /\ \A j \in Run1(g) : heap'[g.region].ids[j] # 0
             /\ \A a \in live : a.region = r => Run1(a) \cap Run1(g) = {}
  <2>1. g.region = r /\ g.start = s /\ g.n = n
    OBVIOUS
  <2>2. g.start + g.n <= Total /\ \A j \in Run1(g) : heap'[g.region].ids[j] # 0
    BY <1>1, <1>5, <2>1 DEF Fresh, Run1
  <2>3. \A j \in Run1(g) : heap[r].ids[j] = 0
    BY <1>5, <2>1 DEF Fresh, Run1
  <2>4. \A a \in live : a.region = r => \A j \in Run1(a) : heap[r].ids[j] # 0
    BY DEF HeapInv
  <2> QED
    BY <2>2, <2>3, <2>4
<1>6. \A a \in live' : a.start + a.n <= Total /\ \A j \in Run1(a) : heap'[a.region].ids[j] # 0
  BY <1>4, <1>5
<1>7. \A a, c \in live' : a # c /\ a.region = c.region => Run1(a) \cap Run1(c) = {}
  <2>1. \A a, c \in live : a # c /\ a.region = c.region => Run1(a) \cap Run1(c) = {}
    BY DEF HeapInv
  <2>2. g.region = r
    OBVIOUS
  <2> QED
    BY <1>5, <2>1, <2>2
<1> QED
  BY <1>1, <1>2, <1>3, <1>6, <1>7 DEF HeapInv

\* halloc marks the blocks it hands out, which were free.
LEMMA AllocHeap == ASSUME HeapInv, NEW size \in Requests, halloc(size) PROVE HeapInv'
<1>0. halted' = halted /\ size \in Nat
  BY HeapAssumption DEF halloc
<1>1. CASE UNCHANGED <<heap, live>>
  BY <1>0, <1>1 DEF HeapInv
<1>2. ASSUME NEW r \in Serves(heap, size), NEW a, a = bm_alloc(heap[r], size),
             heap' = [heap EXCEPT ![r] = a.b],
             live' = live \cup {Held(r, a.ptr, size)}
      PROVE  HeapInv'
  <2>1. r \in 1 .. Len(heap) /\ a.ptr # NULL /\ R!WellFormed(heap[r])
    BY <1>2 DEF Serves, HeapInv
  <2> DEFINE s == a.ptr \div BSize
             n == DIV_CEIL(size, BSize)
             g == [region |-> r, start |-> s, n |-> n]
  <2>2. R!WellFormed(a.b) /\ Keeps(heap[r], a.b) /\ Fresh(heap[r], a.b, s, n)
    BY <1>0, <1>2, <2>1, RegionAlloc
  <2>3. live' \subseteq live \cup {g}
    BY <1>2 DEF Held
  <2>4. g = [region |-> r, start |-> s, n |-> n]
    OBVIOUS
  <2> HIDE DEF s, n, g
  <2> QED
    BY <1>0, <1>2, <2>1, <2>2, <2>3, <2>4, HeapStep DEF HeapInv
<1> QED
  BY <1>1, <1>2 DEF halloc

\* A pointer is an offset in one region and no offset in the others.
LEMMA InType == ASSUME HeapInv, NEW p \in Ptrs, NEW r PROVE In(r, p) \in Int
<1>1. ASSUME NEW a \in live, p = PtrOf(a) PROVE p.off \in Int
  <2>1. a.start \in Nat
    BY RegionLayout DEF HeapInv
  <2>2. a.start * BSize \in Int
    BY <2>1, HeapAssumption
  <2> QED
    BY <1>1, <2>2 DEF PtrOf
<1>2. p \in Strays => p.off \in Int
  BY HeapAssumption DEF HeapAssumption
<1> QED
  BY <1>1, <1>2 DEF In, Ptrs, NULL

\* Giving up a pointer leaves callers with no more than they held.
LEMMA GivenUpLess == ASSUME NEW p, NEW kept \in GivenUp(live, p) PROVE kept \subseteq live
BY DEF GivenUp

\* hfree unmarks nothing.
LEMMA FreeHeap == ASSUME HeapInv, NEW p \in Ptrs, hfree(p) PROVE HeapInv'
<1>0. halted' = halted /\ live' \subseteq live
  BY GivenUpLess DEF hfree
<1>1. CASE UNCHANGED heap
  BY <1>0, <1>1 DEF HeapInv
<1>2. ASSUME NEW r \in Tried(heap), heap' = [heap EXCEPT ![r] = bm_free(heap[r], In(r, p)).b]
      PROVE  HeapInv'
  <2>1. PICK y : y = bm_free(heap[r], In(r, p)).b
    OBVIOUS
  <2>2. CASE Len(heap) = 0
    BY <1>0, <1>2, <2>2 DEF HeapInv
  <2>3. CASE Len(heap) # 0
    <3>1. r \in 1 .. Len(heap) /\ R!WellFormed(heap[r])
      BY <2>3 DEF Tried, HeadOf, HeapInv
    <3>2. R!WellFormed(y) /\ Keeps(heap[r], y)
      BY <2>1, <3>1, InType, RegionFree
    <3> QED
      BY <1>0, <1>2, <2>1, <3>1, <3>2, HeapStep DEF HeapInv
  <2> QED
    BY <2>2, <2>3
<1> QED
  BY <1>1, <1>2 DEF hfree

\* hrealloc allocates before it frees, and faults without handing anything out.
LEMMA ReallocHeap ==
    ASSUME HeapInv, NEW p \in Ptrs, NEW size \in Requests, hrealloc(p, size)
    PROVE  HeapInv'
<1>0. size \in Nat
  BY HeapAssumption
<1>1. CASE UNCHANGED <<heap, live, halted>>
  BY <1>1 DEF HeapInv
<1>2. ASSUME NEW r \in Tried(heap), NEW m, m = bm_realloc(heap[r], In(r, p), size),
             m.ptr # NULL \/ m.fault, heap' = [heap EXCEPT ![r] = m.b],
             halted' = m.fault, NEW kept, kept \subseteq live,
             \/ m.fault /\ live' = live
             \/ ~ m.fault /\ live' = kept \cup {Held(r, m.ptr, size)}
      PROVE  HeapInv'
  <2>1. r \in 1 .. Len(heap) /\ R!WellFormed(heap[r])
    BY <1>2 DEF Tried, HeadOf, HeapInv
  <2> DEFINE s == m.ptr \div BSize
             n == DIV_CEIL(size, BSize)
             g == [region |-> r, start |-> s, n |-> n]
  <2>2. /\ R!WellFormed(m.b) /\ Keeps(heap[r], m.b) /\ m.fault \in BOOLEAN
        /\ m.ptr # NULL => Fresh(heap[r], m.b, s, n)
    BY <1>0, <1>2, <2>1, InType, RegionRealloc
  <2>3. live' \subseteq live \/ (m.ptr # NULL /\ live' \subseteq live \cup {g})
    BY <1>2 DEF Held
  <2>4. g = [region |-> r, start |-> s, n |-> n]
    OBVIOUS
  <2> HIDE DEF s, n, g
  <2>5. halted' \in BOOLEAN
    BY <1>2, <2>2
  <2> QED
    BY <1>2, <2>1, <2>2, <2>3, <2>4, <2>5, HeapStep
<1>3. \A kept \in GivenUp(live, p) : kept \subseteq live
  BY GivenUpLess
<1>4. live \subseteq live
  OBVIOUS
<1> QED
  BY <1>1, <1>2, <1>3, <1>4 DEF hrealloc

\* A new region holds nothing of anyone.
LEMMA AddHeap == ASSUME HeapInv, heap_add PROVE HeapInv'
<1>1. live' = live /\ halted' \in BOOLEAN
  BY DEF heap_add, HeapInv
<1>2. CASE UNCHANGED heap
  BY <1>1, <1>2 DEF HeapInv
<1>3. CASE heap' \in Added(heap)
  <2>1. PICK x : R!WellFormed(x) /\ heap' = Append(heap, x)
    BY <1>3, RegionAdded DEF HeapInv
  <2>2. /\ heap' \in Seq(Structs) /\ Len(heap') = Len(heap) + 1 /\ Len(heap) \in Nat
        /\ heap'[Len(heap')] = x /\ \A q \in 1 .. Len(heap) : heap'[q] = heap[q]
    BY <2>1, RegionType DEF HeapInv
  <2>3. \A q \in 1 .. Len(heap') : R!WellFormed(heap'[q])
    BY <2>1, <2>2 DEF HeapInv
  <2>4. \A a \in live : a.region \in 1 .. Len(heap) /\ a.region \in 1 .. Len(heap')
    BY <2>2 DEF HeapInv
  <2>5. live \subseteq [region : 1 .. Len(heap'), start : Meta .. Total, n : Nat]
    BY <2>2 DEF HeapInv
  <2> QED
    BY <1>1, <2>2, <2>3, <2>4, <2>5 DEF HeapInv
<1> QED
  BY <1>2, <1>3 DEF heap_add

\* Every step keeps the regions and what callers hold of them.
LEMMA NextHeap == ASSUME HeapInv, Next PROVE HeapInv'
<1>1. CASE heap_add
  BY <1>1, AddHeap
<1>2. ASSUME NEW size \in Requests, halloc(size) PROVE HeapInv'
  BY <1>2, AllocHeap
<1>3. ASSUME NEW size \in Requests, NEW p \in Ptrs, hrealloc(p, size) PROVE HeapInv'
  BY <1>3, ReallocHeap
<1>4. ASSUME NEW p \in Ptrs, hfree(p) PROVE HeapInv'
  BY <1>4, FreeHeap
<1>5. ASSUME NEW n \in StackPages, NewStack(n) PROVE HeapInv'
  BY <1>5 DEF NewStack, HeapInv
<1>6. ASSUME NEW s \in stacks, FreeStack(s) PROVE HeapInv'
  BY <1>6 DEF FreeStack, HeapInv
<1>7. CASE Halted
  BY <1>7 DEF Halted, vars, HeapInv
<1> QED
  BY <1>1, <1>2, <1>3, <1>4, <1>5, <1>6, <1>7 DEF Next

\* A heap starts with one region and no allocation.
LEMMA InitHeap == Init => HeapInv
<1> SUFFICES ASSUME Init PROVE HeapInv
  OBVIOUS
<1>1. heap \in Added(<<>>) /\ live = {} /\ halted \in BOOLEAN
  BY DEF Init
<1>2. PICK x : R!WellFormed(x) /\ heap = Append(<<>>, x)
  <2>1. <<>> \in Seq(Structs)
    OBVIOUS
  <2> QED
    BY <1>1, <2>1, RegionAdded
<1>3. heap \in Seq(Structs) /\ Len(heap) = 1 /\ heap[1] = x
  BY <1>2, RegionType
<1> QED
  BY <1>1, <1>2, <1>3 DEF HeapInv

\* No byte of the heap belongs to two callers of halloc and hrealloc, and none
\* of a region's bit array to any, for any number and size of regions and
\* whatever pointers are passed to hfree and hrealloc (heap.c), which look only
\* at the head of the list.
THEOREM AllocationsDisjoint == Spec => []HeapDisjoint
<1>1. HeapInv /\ [Next]_vars => HeapInv'
  <2> SUFFICES ASSUME HeapInv, UNCHANGED vars PROVE HeapInv'
    BY NextHeap
  <2> QED
    BY DEF vars, HeapInv
<1>2. HeapInv => HeapDisjoint
  <2> SUFFICES ASSUME HeapInv PROVE HeapDisjoint
    OBVIOUS
  <2>1. \A a \in live : a.start \in Meta .. Total
    BY DEF HeapInv
  <2>2. ASSUME NEW a \in live, NEW c \in live, a # c PROVE Extent(a) \cap Extent(c) = {}
    <3>1. a.region = c.region => Run1(a) \cap Run1(c) = {}
      BY <2>2 DEF HeapInv
    <3> QED
      BY <3>1 DEF Extent, Run1
  <2>3. \A a \in live : a.start >= BM_BLOCKS(Size, BSize)
    BY <2>1, RegionLayout DEF Meta
  <2> QED
    BY <2>2, <2>3 DEF HeapDisjoint
<1> QED
  BY <1>1, <1>2, InitHeap, PTL DEF Spec

-----------------------------------------------------------------------------
(* The address space *)

\* Page 1 holds the bit array, so the pages valloc hands out are later ones.
LEMMA SpaceLayout == VPages \in Nat /\ V!Total = VPages /\ V!Meta \in Nat \ {0} /\ V!Meta <= VPages
<1>1. VPages \in Nat \ {0} /\ PageSize \in Nat \ {0}
  BY VmmAssumption
<1>2. (VPages * PageSize) \div PageSize = VPages
  BY <1>1
<1>3. V!Total = VPages /\ V!Meta \in Nat /\ V!Meta <= VPages
  BY <1>2, V!Layout, SpaceAssumption, SpaceCopies
<1>4. \A n \in Nat \ {0}, d \in Nat \ {0} : DIV_CEIL(n, d) \in Nat \ {0}
  BY DEF DIV_CEIL
<1>5. V!Meta = DIV_CEIL(DIV_CEIL(VPages, 4), PageSize)
  BY <1>2, SpaceCopies DEF BM_BLOCKS, BLOCKS_PER_INT, BITS_PER_ID
<1>6. V!Meta # 0
  BY <1>1, <1>4, <1>5
<1> QED
  BY <1>1, <1>3, <1>6

\* A size in pages is that many blocks.
LEMMA PagesOfSize ==
    ASSUME NEW n \in {1, 2} PROVE n * PageSize \in Nat /\ DIV_CEIL(n * PageSize, PageSize) = n
<1>1. PageSize \in Nat \ {0}
  BY VmmAssumption
<1>2. CASE n = 1
  BY <1>1, <1>2 DEF DIV_CEIL
<1>3. CASE n = 2
  BY <1>1, <1>3 DEF DIV_CEIL
<1> QED
  BY <1>2, <1>3

\* A request for n pages, in bytes.
PagesAsked(n, size) == n \in {1, 2} /\ size = n * PageSize

\* bm_alloc of pages: all of them are free before and marked after, and lie
\* above the bit array.
LEMMA SpaceAlloc ==
    ASSUME NEW x, V!WellFormed(x), NEW n, NEW size, PagesAsked(n, size),
           NEW r, r = bm_alloc(x, size), NEW p, p = PageOf(r.ptr)
    PROVE  /\ V!WellFormed(r.b)
           /\ \A j \in 0 .. VPages - 1 : x.ids[j] # 0 => r.b.ids[j] # 0
           /\ p # 0 => /\ p \in 2 .. VPages /\ p + n - 1 <= VPages
                       /\ \A q \in p .. p + n - 1 : x.ids[q - 1] = 0 /\ r.b.ids[q - 1] # 0
<1>0. n \in {1, 2} /\ size = n * PageSize
  BY DEF PagesAsked
<1>1. r = V!bm_alloc(x, n * PageSize) /\ n * PageSize \in Nat
  BY <1>0, SpaceCopies, PagesOfSize
<1>2. /\ V!WellFormed(r.b) /\ V!Keeps(x, r.b)
      /\ r.ptr # NULL => V!Granted(x, r.b, V!RegionAt(r.ptr, n * PageSize))
  BY <1>1, V!AllocStep, SpaceAssumption, SpaceCopies
<1>3. \A j \in 0 .. VPages - 1 : x.ids[j] # 0 => r.b.ids[j] # 0
  BY <1>2, SpaceLayout DEF V!Keeps
<1>4. ASSUME p # 0
      PROVE  /\ p \in 2 .. VPages /\ p + n - 1 <= VPages
             /\ \A q \in p .. p + n - 1 : x.ids[q - 1] = 0 /\ r.b.ids[q - 1] # 0
  <2>1. r.ptr # NULL /\ p = r.ptr \div PageSize + 1
    BY <1>4 DEF PageOf
  <2> DEFINE s == r.ptr \div PageSize
  <2>2. V!RegionAt(r.ptr, n * PageSize) = [start |-> s, n |-> n]
    BY <1>0, PagesOfSize, SpaceCopies DEF V!RegionAt
  <2>3. /\ s \in V!Meta .. V!Total /\ s + n <= V!Total
        /\ \A j \in s .. s + n - 1 : x.ids[j] = 0 /\ r.b.ids[j] # 0
    BY <1>2, <2>1, <2>2 DEF V!Granted, V!Region, V!Extent
  <2>4. p = s + 1
    BY <2>1
  <2> HIDE DEF s
  <2>5. s \in Nat /\ s >= 1 /\ s + n <= VPages
    BY <1>0, <2>3, SpaceLayout
  <2>6. \A q \in p .. p + n - 1 : q - 1 \in s .. s + n - 1
    BY <1>0, <2>4, <2>5
  <2> QED
    BY <1>0, <2>3, <2>4, <2>5, <2>6, SpaceLayout
<1> QED
  BY <1>2, <1>3, <1>4

\* bm_free of a page in use measures one page and marks and unmarks nothing.
LEMMA SpaceFree ==
    ASSUME NEW x, V!WellFormed(x), NEW p \in 2 .. VPages, x.ids[p - 1] # 0,
           NEW ptr, ptr = (p - 1) * PageSize, NEW f, f = bm_free(x, ptr)
    PROVE  /\ V!WellFormed(f.b) /\ f.b.ids = x.ids
           /\ f.bytes \div PageSize \in {0, 1}
<1>0. PageSize \in Nat \ {0} /\ VPages \in Nat /\ p - 1 \in Nat /\ p - 1 \in 0 .. VPages - 1
  BY VmmAssumption, SpaceLayout
<1>1. (p - 1) * PageSize \in Int /\ ((p - 1) * PageSize) \div PageSize = p - 1
  BY <1>0
<1>2. f = V!bm_free(x, (p - 1) * PageSize)
  BY SpaceCopies
<1>3. V!WellFormed(f.b) /\ f.b.ids = x.ids
  BY <1>1, <1>2, V!FreeStep, SpaceAssumption
<1>4. x.bsize = PageSize
  BY DEF V!WellFormed
<1>5. Run(x, p - 1) = {p - 1}
  BY <1>0, V!MarkedRun, SpaceAssumption, SpaceCopies, SpaceLayout
<1>6. f.bytes = 0 \/ f.bytes = Cardinality({p - 1}) * PageSize
  BY <1>1, <1>4, <1>5 DEF bm_free
<1>7. Cardinality({p - 1}) = 1
  BY FS_Singleton
<1>8. 0 \div PageSize = 0 /\ (1 * PageSize) \div PageSize = 1
  BY <1>0
<1> QED
  BY <1>3, <1>6, <1>7, <1>8

-----------------------------------------------------------------------------
(* Frames *)

SpaceType(v) == v \in [bm : {v.bm}, space : [0 .. VPages -> Nat], used : SUBSET Nat]

\* The pages in P have frames of their own, whose bits are set.
Own(v, P) ==
    /\ P \subseteq 2 .. VPages /\ 0 \in v.used
    /\ \A p \in P : v.space[p] \in v.used
    /\ \A p, q \in P : p # q /\ v.space[p] # 0 => v.space[p] # v.space[q]

\* alloc_frame returns a frame that was free, or 0.
LEMMA FrameWasFree ==
    ASSUME NEW u, NEW f, f = alloc_frame(u) PROVE f \in Nat /\ (f = 0 \/ f \notin u)
<1> DEFINE free == (1 .. NumFrames) \ u
<1>1. free \subseteq Nat
  BY VmmAssumption
<1>2. CASE free = {}
  BY <1>2 DEF alloc_frame
<1>3. CASE free # {}
  <2>1. \E m \in free : \A g \in free : m <= g
    <3> HIDE DEF free
    <3> QED
      BY <1>1, <1>3, R!LeastElement, RegionAssumption
  <2>2. f \in free
    BY <1>3, <2>1 DEF alloc_frame
  <2> QED
    BY <1>1, <2>2
<1> QED
  BY <1>2, <1>3

\* w is v with the frame f taken and, unless it is 0, mapped at page.
Mapped(v, w, page, f) ==
    /\ f = 0 \/ f \notin v.used
    /\ SpaceType(w) /\ w.bm = v.bm /\ w.used = v.used \cup {f}
    /\ w.space[page] = IF f = 0 \/ page = 0 THEN v.space[page] ELSE f
    /\ \A q \in 0 .. VPages : q # page => w.space[q] = v.space[q]

\* One turn of the loop of valloc.
LEMMA MapFreshStep ==
    ASSUME NEW v, SpaceType(v), NEW page \in 0 .. VPages, NEW w, w = MapFresh(v, page)
    PROVE  \E f \in Nat : Mapped(v, w, page, f)
<1>1. PICK f : f = alloc_frame(v.used)
  OBVIOUS
<1>2. f \in Nat /\ (f = 0 \/ f \notin v.used)
  BY <1>1, FrameWasFree
<1>3. /\ v.space \in [0 .. VPages -> Nat] /\ v.used \subseteq Nat
      /\ v \in [bm : {v.bm}, space : [0 .. VPages -> Nat], used : SUBSET Nat]
  BY DEF SpaceType
<1>4. w = [v EXCEPT !.used = v.used \cup {f},
                    !.space[page] = IF f = 0 \/ page = 0 THEN v.space[page] ELSE f]
  BY <1>1 DEF MapFresh
<1>5. /\ w.bm = v.bm /\ w.used = v.used \cup {f}
      /\ w.space = [v.space EXCEPT ![page] = IF f = 0 \/ page = 0 THEN v.space[page] ELSE f]
      /\ w = [bm |-> w.bm, space |-> w.space, used |-> w.used]
  BY <1>3, <1>4
<1>6. (IF f = 0 \/ page = 0 THEN v.space[page] ELSE f) \in Nat
  BY <1>2, <1>3
<1>7. w.space \in [0 .. VPages -> Nat] /\ w.used \in SUBSET Nat
  BY <1>2, <1>3, <1>5, <1>6
<1>8. SpaceType(w)
  BY <1>5, <1>7 DEF SpaceType
<1>9. Mapped(v, w, page, f)
  BY <1>2, <1>3, <1>5, <1>8 DEF Mapped
<1> QED
  BY <1>2, <1>9

\* A page that is not in P gets a frame, or none, and P keeps its frames.
LEMMA MapKeeps ==
    ASSUME NEW v, SpaceType(v), NEW P, Own(v, P), NEW page \in 0 .. VPages, page \notin P,
           NEW w, w = MapFresh(v, page)
    PROVE  Own(w, P)
<1>0. PICK f \in Nat : Mapped(v, w, page, f)
  BY MapFreshStep
<1>1. /\ w.used = v.used \cup {f}
      /\ \A q \in 0 .. VPages : q # page => w.space[q] = v.space[q]
  BY <1>0 DEF Mapped
<1>2. \A q \in P : q \in 0 .. VPages /\ w.space[q] = v.space[q]
  <2> TAKE q \in P
  <2>1. q \in 0 .. VPages /\ q # page
    BY DEF Own
  <2> QED
    BY <1>1, <2>1
<1> QED
  BY <1>1, <1>2 DEF Own

\* A page that had no frame can join them.
LEMMA MapTakes ==
    ASSUME NEW v, SpaceType(v), NEW P, Own(v, P), NEW page \in 2 .. VPages, page \notin P,
           v.space[page] = 0, NEW w, w = MapFresh(v, page)
    PROVE  Own(w, P \cup {page})
<1>0. page \in 0 .. VPages /\ page # 0
  BY SpaceLayout
<1>5. PICK f \in Nat : Mapped(v, w, page, f)
  BY <1>0, MapFreshStep
<1>1. /\ f = 0 \/ f \notin v.used
      /\ w.used = v.used \cup {f} /\ w.space[page] = f
      /\ \A q \in 0 .. VPages : q # page => w.space[q] = v.space[q]
  BY <1>0, <1>5 DEF Mapped
<1>2. Own(w, P)
  BY <1>0, MapKeeps
<1>3. \A q \in P : q \in 0 .. VPages /\ w.space[q] = v.space[q] /\ v.space[q] \in v.used
  BY <1>1, SpaceLayout DEF Own
<1>4. \A q \in P : f # 0 => w.space[q] # f
  BY <1>1, <1>3
<1> QED
  BY <1>1, <1>2, <1>4 DEF Own

\* What holds of the space: pages never handed out are not mapped.
SpaceOK(v) ==
    /\ SpaceType(v) /\ V!WellFormed(v.bm) /\ v.space[0] = 0 /\ 0 \in v.used
    /\ \A p \in 2 .. VPages : v.bm.ids[p - 1] = 0 => v.space[p] = 0

\* The pages in P are marked as in use.
InUse(v, P) == P \subseteq 2 .. VPages /\ \A p \in P : v.bm.ids[p - 1] # 0

\* The bitmap of the space is replaced by one in which more is marked.
LEMMA SpaceMore ==
    ASSUME NEW v, SpaceType(v), NEW y, NEW w, w = [v EXCEPT !.bm = y]
    PROVE  SpaceType(w) /\ w.bm = y /\ w.space = v.space /\ w.used = v.used
BY DEF SpaceType

\* A refused valloc of a page takes a frame and maps nothing.
LEMMA Refused ==
    ASSUME NEW v, SpaceOK(v), NEW P, Own(v, P), InUse(v, P), NEW r, r = valloc(1, v), r.page = 0
    PROVE  SpaceOK(r.vm) /\ Own(r.vm, P) /\ InUse(r.vm, P) /\ r.vm.space[0] = 0
<1>1. PICK a : a = bm_alloc(v.bm, 1 * PageSize)
  OBVIOUS
<1>2. 1 * PageSize = PageSize
  BY VmmAssumption
<1>3. PageOf(a.ptr) = 0 /\ r.vm = [MapFresh(v, 0) EXCEPT !.bm = a.b]
  BY <1>1, <1>2 DEF valloc, valloc1
<1>4. /\ V!WellFormed(v.bm) /\ SpaceType(v) /\ 0 \in 0 .. VPages /\ 0 \notin P
      /\ V!WellFormed(a.b) /\ \A j \in 0 .. VPages - 1 : v.bm.ids[j] # 0 => a.b.ids[j] # 0
  <2>1. V!WellFormed(v.bm) /\ SpaceType(v) /\ 1 \in {1, 2}
    BY DEF SpaceOK
  <2>2. 0 \in 0 .. VPages /\ 0 \notin P
    BY SpaceLayout DEF Own
  <2>3. V!WellFormed(a.b) /\ \A j \in 0 .. VPages - 1 : v.bm.ids[j] # 0 => a.b.ids[j] # 0
    <3>1. PICK p, x, n, size : p = PageOf(a.ptr) /\ x = v.bm /\ n = 1 /\ size = 1 * PageSize
      OBVIOUS
    <3>2. V!WellFormed(x) /\ a = bm_alloc(x, size) /\ PagesAsked(n, size)
      BY <1>1, <2>1, <3>1 DEF PagesAsked
    <3>3. V!WellFormed(a.b) /\ \A j \in 0 .. VPages - 1 : x.ids[j] # 0 => a.b.ids[j] # 0
      BY <3>1, <3>2, SpaceAlloc
    <3> QED
      BY <3>1, <3>3
  <2> QED
    BY <2>1, <2>2, <2>3
<1>5. PICK w : w = MapFresh(v, 0)
  OBVIOUS
<1>10. PICK f \in Nat : Mapped(v, w, 0, f)
  BY <1>4, <1>5, MapFreshStep
<1>6. /\ SpaceType(w) /\ w.bm = v.bm /\ w.used = v.used \cup {f}
      /\ w.space[0] = v.space[0]
      /\ \A q \in 0 .. VPages : q # 0 => w.space[q] = v.space[q]
  BY <1>10 DEF Mapped
<1>7. Own(w, P)
  BY <1>4, <1>5, MapKeeps
<1>8. SpaceType(r.vm) /\ r.vm.bm = a.b /\ r.vm.space = w.space /\ r.vm.used = w.used
  <2>1. PICK z, y : z = r.vm /\ y = a.b
    OBVIOUS
  <2>2. z = [w EXCEPT !.bm = y]
    BY <1>3, <1>5, <2>1
  <2>3. SpaceType(z) /\ z.bm = y /\ z.space = w.space /\ z.used = w.used
    BY <1>6, <2>2, SpaceMore
  <2> QED
    BY <2>1, <2>3
<1>9. \A p \in 2 .. VPages : p - 1 \in 0 .. VPages - 1 /\ p \in 0 .. VPages /\ p # 0
  BY SpaceLayout
<1>11. SpaceOK(r.vm)
  <2>1. r.vm.space[0] = 0 /\ 0 \in r.vm.used
    BY <1>6, <1>8 DEF SpaceOK
  <2>2. ASSUME NEW p \in 2 .. VPages, a.b.ids[p - 1] = 0 PROVE w.space[p] = 0
    BY <1>4, <1>6, <1>9, <2>2 DEF SpaceOK
  <2> QED
    BY <1>4, <1>8, <2>1, <2>2 DEF SpaceOK
<1>12. Own(r.vm, P)
  BY <1>7, <1>8 DEF Own
<1>13. InUse(r.vm, P)
  BY <1>4, <1>8, <1>9 DEF InUse
<1> QED
  BY <1>11, <1>12, <1>13 DEF SpaceOK

\* Q is n pages in a row, one or two, from page first on.
PagesFrom(first, n, Q) == n \in {1, 2} /\ Q = first .. first + n - 1

\* valloc hands out pages that are not in use and gives each a frame of its own.
LEMMA Vallocs ==
    ASSUME NEW v, SpaceOK(v), NEW P, Own(v, P), InUse(v, P),
           NEW n, NEW r, r = valloc(n, v), NEW first, r.page = first, first # 0,
           NEW Q, PagesFrom(first, n, Q)
    PROVE  /\ SpaceOK(r.vm) /\ Own(r.vm, P \cup Q) /\ InUse(r.vm, P \cup Q)
           /\ Q \cap P = {} /\ first \in 2 .. VPages
<1>0. n \in {1, 2} /\ Q = r.page .. r.page + n - 1 /\ r.page # 0
  BY DEF PagesFrom
<1>1. PICK a : a = bm_alloc(v.bm, n * PageSize)
  OBVIOUS
<1>2. PICK p : p = PageOf(a.ptr)
  OBVIOUS
<1>3. /\ r.page = p
      /\ n = 1 => r.vm = [MapFresh(v, p) EXCEPT !.bm = a.b]
      /\ n = 2 => r.vm = [MapFresh(MapFresh(v, p), p + 1) EXCEPT !.bm = a.b]
  <2>1. 1 * PageSize = PageSize
    BY VmmAssumption
  <2>2. CASE n = 1
    BY <1>1, <1>2, <2>1, <2>2 DEF valloc, valloc1
  <2>3. CASE n = 2
    BY <1>1, <1>2, <2>3 DEF valloc, valloc2
  <2> QED
    BY <1>0, <2>2, <2>3
<1>4. V!WellFormed(v.bm) /\ SpaceType(v) /\ p # 0
  BY <1>0, <1>3 DEF SpaceOK
<1>5. /\ V!WellFormed(a.b)
      /\ \A j \in 0 .. VPages - 1 : v.bm.ids[j] # 0 => a.b.ids[j] # 0
      /\ p \in 2 .. VPages /\ p + n - 1 <= VPages
      /\ \A q \in p .. p + n - 1 : v.bm.ids[q - 1] = 0 /\ a.b.ids[q - 1] # 0
  <2>1. PICK x, size : x = v.bm /\ size = n * PageSize
    OBVIOUS
  <2>2. V!WellFormed(x) /\ a = bm_alloc(x, size) /\ PagesAsked(n, size)
    BY <1>0, <1>1, <1>4, <2>1 DEF PagesAsked
  <2>3. /\ V!WellFormed(a.b)
        /\ \A j \in 0 .. VPages - 1 : x.ids[j] # 0 => a.b.ids[j] # 0
        /\ p # 0 => /\ p \in 2 .. VPages /\ p + n - 1 <= VPages
                    /\ \A q \in p .. p + n - 1 : x.ids[q - 1] = 0 /\ a.b.ids[q - 1] # 0
    BY <1>2, <2>2, SpaceAlloc
  <2> QED
    BY <1>4, <2>1, <2>3
<1>6. Q = p .. p + n - 1 /\ Q \subseteq 2 .. VPages /\ VPages \in Nat /\ p \in Q
  BY <1>0, <1>3, <1>5, SpaceLayout
<1>7. Q \cap P = {}
  BY <1>5, <1>6 DEF InUse
<1>8. \A q \in Q : v.space[q] = 0
  BY <1>5, <1>6 DEF SpaceOK
<1>9. \A q \in 2 .. VPages : q - 1 \in 0 .. VPages - 1 /\ q \in 0 .. VPages
  BY <1>6
<1>10. PICK w : w = MapFresh(v, p)
  OBVIOUS
<1>11. PICK f \in Nat : Mapped(v, w, p, f)
  BY <1>4, <1>5, <1>9, <1>10, MapFreshStep
<1>12. /\ SpaceType(w) /\ w.bm = v.bm /\ v.used \subseteq w.used
       /\ \A q \in 0 .. VPages : q # p => w.space[q] = v.space[q]
  BY <1>11 DEF Mapped
<1>13. Own(w, P \cup {p})
  BY <1>4, <1>5, <1>6, <1>7, <1>8, <1>10, MapTakes
<1>14. ASSUME NEW u, SpaceType(u), u.bm = v.bm, v.used \subseteq u.used, Own(u, P \cup Q),
              \A q \in 0 .. VPages : q \notin Q => u.space[q] = v.space[q],
              r.vm = [u EXCEPT !.bm = a.b]
       PROVE  SpaceOK(r.vm) /\ Own(r.vm, P \cup Q) /\ InUse(r.vm, P \cup Q)
  <2>1. SpaceType(r.vm) /\ r.vm.bm = a.b /\ r.vm.space = u.space /\ r.vm.used = u.used
    BY <1>14, SpaceMore
  <2>2. ASSUME NEW q \in 2 .. VPages, a.b.ids[q - 1] = 0 PROVE u.space[q] = 0
    BY <1>5, <1>6, <1>9, <1>14, <2>2 DEF SpaceOK
  <2>3. u.space[0] = 0 /\ 0 \in u.used
    <3>1. 0 \in 0 .. VPages /\ 0 \notin Q
      BY <1>6
    <3> QED
      BY <1>14, <3>1 DEF SpaceOK
  <2>4. SpaceOK(r.vm)
    BY <1>5, <2>1, <2>2, <2>3 DEF SpaceOK
  <2>5. Own(r.vm, P \cup Q)
    BY <1>14, <2>1 DEF Own
  <2>6. InUse(r.vm, P \cup Q)
    BY <1>5, <1>6, <1>9, <2>1 DEF InUse
  <2> QED
    BY <2>4, <2>5, <2>6
<1>15. CASE n = 1
  <2>1. Q = {p}
    BY <1>6, <1>15
  <2> QED
    BY <1>3, <1>5, <1>7, <1>10, <1>12, <1>13, <1>14, <1>15, <2>1
<1>16. CASE n = 2
  <2>1. Q = {p, p + 1} /\ p + 1 \in 2 .. VPages /\ p + 1 \notin P /\ p + 1 # p
    <3>1. p \in Nat /\ p + 2 - 1 = p + 1 /\ p + 1 <= VPages /\ VPages \in Nat
      <4>1. VPages \in Nat
        BY <1>6
      <4>2. p \in 2 .. VPages /\ p + n - 1 <= VPages
        BY <1>5
      <4> QED
        BY <1>16, <4>1, <4>2
    <3>2. Q = p .. p + 1
      BY <1>6, <1>16, <3>1
    <3>3. Q = {p, p + 1} /\ p + 1 \in 2 .. VPages /\ p + 1 # p
      <4>1. p .. p + 1 = {p, p + 1}
        BY <3>1
      <4>2. p \in 2 .. VPages
        BY <1>5
      <4>3. p + 1 \in 2 .. VPages /\ p + 1 # p
        BY <3>1, <4>2
      <4> QED
        BY <3>2, <4>1, <4>3
    <3> QED
      BY <1>7, <3>3
  <2>2. PICK x : x = MapFresh(w, p + 1)
    OBVIOUS
  <2>3. PICK g \in Nat : Mapped(w, x, p + 1, g)
    BY <1>9, <1>12, <2>1, <2>2, MapFreshStep
  <2>4. /\ SpaceType(x) /\ x.bm = v.bm /\ v.used \subseteq x.used
        /\ \A q \in 0 .. VPages : q # p + 1 => x.space[q] = w.space[q]
    BY <1>12, <2>3 DEF Mapped
  <2>5. w.space[p + 1] = 0
    BY <1>8, <1>9, <1>12, <2>1
  <2>6. p + 1 \notin P \cup {p}
    BY <2>1
  <2>7. Own(x, P \cup {p} \cup {p + 1})
    <3>1. PICK P1 : P1 = P \cup {p}
      OBVIOUS
    <3>2. Own(x, P1 \cup {p + 1})
      BY <1>12, <1>13, <2>1, <2>2, <2>5, <2>6, <3>1, MapTakes
    <3> QED
      BY <3>1, <3>2
  <2>8. P \cup {p} \cup {p + 1} = P \cup Q
    BY <2>1
  <2>9. \A q \in 0 .. VPages : q \notin Q => x.space[q] = v.space[q]
    BY <1>12, <2>1, <2>4
  <2>10. r.vm = [x EXCEPT !.bm = a.b]
    BY <1>3, <1>10, <1>16, <2>2
  <2>11. Own(x, P \cup Q)
    BY <2>7, <2>8
  <2>12. SpaceOK(r.vm) /\ Own(r.vm, P \cup Q) /\ InUse(r.vm, P \cup Q)
    BY <1>14, <2>4, <2>9, <2>10, <2>11
  <2> QED
    BY <1>3, <1>5, <1>7, <2>12
<1> QED
  BY <1>0, <1>15, <1>16

\* vfree gives back the frame of the page and no frame of another page in use.
LEMMA Vfrees ==
    ASSUME NEW v, SpaceOK(v), NEW P, Own(v, P), InUse(v, P), NEW p \in P,
           NEW w, w = vfree(p, v)
    PROVE  SpaceOK(w) /\ Own(w, P \ {p}) /\ InUse(w, P \ {p})
<1>1. PICK f : f = bm_free(v.bm, (p - 1) * PageSize)
  OBVIOUS
<1>2. p \in 2 .. VPages /\ p \in Nat /\ v.bm.ids[p - 1] # 0 /\ V!WellFormed(v.bm) /\ SpaceType(v)
  <2>1. p \in 2 .. VPages /\ v.bm.ids[p - 1] # 0
    BY Zenon DEF InUse
  <2>2. V!WellFormed(v.bm) /\ SpaceType(v)
    BY DEF SpaceOK
  <2> QED
    BY <2>1, <2>2, SpaceLayout
<1>3. V!WellFormed(f.b) /\ f.b.ids = v.bm.ids /\ f.bytes \div PageSize \in {0, 1}
  <2>1. PICK x, ptr : x = v.bm /\ ptr = (p - 1) * PageSize
    OBVIOUS
  <2>2. /\ V!WellFormed(x) /\ x.ids[p - 1] # 0 /\ f = bm_free(x, ptr)
        /\ ptr = (p - 1) * PageSize
    BY <1>1, <1>2, <2>1
  <2>3. V!WellFormed(f.b) /\ f.b.ids = x.ids /\ f.bytes \div PageSize \in {0, 1}
    BY <1>2, <2>2, SpaceFree
  <2> QED
    BY <2>1, <2>3
<1>4. PICK k : k = f.bytes \div PageSize
  OBVIOUS
<1>5. w = [v EXCEPT !.bm = f.b, !.used = v.used \ ({v.space[q] : q \in p .. p + k - 1} \ {0})]
  BY <1>1, <1>4 DEF vfree
<1>6. p .. p + k - 1 \subseteq {p}
  BY <1>2, <1>3, <1>4
<1>7. /\ w.bm = f.b /\ w.space = v.space /\ SpaceType(w)
      /\ w.used = v.used \ ({v.space[q] : q \in p .. p + k - 1} \ {0})
  BY <1>2, <1>5 DEF SpaceType
<1>8. \A x \in v.used : x = 0 \/ x # v.space[p] => x \in w.used
  BY <1>6, <1>7
<1>9. SpaceOK(w)
  BY <1>3, <1>7, <1>8 DEF SpaceOK
<1>10. Own(w, P \ {p})
  BY <1>7, <1>8 DEF Own
<1>11. InUse(w, P \ {p})
  BY <1>3, <1>7 DEF InUse
<1> QED
  BY <1>9, <1>10, <1>11

-----------------------------------------------------------------------------
(* Regions and stacks *)

\* While the machine runs: the space is in order, the pages of regions and
\* stacks are in use and own their frames, a stack is one or two pages in a
\* row, and no page belongs to two of them.
FrameInv ==
    ~ halted =>
        /\ SpaceOK(vm) /\ Own(vm, HeldPages) /\ InUse(vm, HeldPages)
        /\ at \in Seq(Nat) /\ \A r \in DOMAIN at : at[r] \notin UNION stacks
        /\ \A s \in stacks : \E p \in 0 .. VPages, n \in {1, 2} : s = p .. p + n - 1
        /\ \A s, t \in stacks : s # t => s \cap t = {}

\* The pages of regions and stacks, one by one.
Holds(S, a, H) ==
    /\ H = (UNION S) \cup {a[r] : r \in DOMAIN a}
    /\ \A p : p \in H => p \in UNION S \/ \E r \in DOMAIN a : p = a[r]
    /\ \A r \in DOMAIN a : a[r] \in H
    /\ \A t \in S : \A p \in t : p \in H /\ p \in UNION S
    /\ \A p \in UNION S : p \in H /\ \E t \in S : p \in t

\* HeldPages has them before a step and after it.
LEMMA HeldIn == Holds(stacks, at, HeldPages) /\ Holds(stacks', at', HeldPages')
<1>1. HeldPages = (UNION stacks) \cup {at[r] : r \in DOMAIN at}
  BY DEF HeldPages
<1>2. HeldPages' = (UNION stacks') \cup {at'[r] : r \in DOMAIN at'}
  BY DEF HeldPages
<1>3. ASSUME NEW S, NEW a, NEW H, H = (UNION S) \cup {a[r] : r \in DOMAIN a}
      PROVE  Holds(S, a, H)
  BY <1>3 DEF Holds
<1> QED
  BY <1>1, <1>2, <1>3

\* A new region gets a page that nothing else is on.
LEMMA AddFrames == ASSUME FrameInv, heap_add PROVE FrameInv'
<1> SUFFICES ASSUME ~ halted' PROVE FrameInv'
  BY DEF FrameInv
<1>1. PICK v : v = valloc(1, vm)
  OBVIOUS
<1>2. /\ ~ halted /\ vm' = v.vm /\ at' = Append(at, v.page) /\ stacks' = stacks
      /\ v.vm.space[v.page] # 0
  BY <1>1 DEF heap_add
<1>3. /\ SpaceOK(vm) /\ Own(vm, HeldPages) /\ InUse(vm, HeldPages) /\ at \in Seq(Nat)
      /\ \A r \in DOMAIN at : at[r] \notin UNION stacks
      /\ \A s \in stacks : \E p \in 0 .. VPages, n \in {1, 2} : s = p .. p + n - 1
      /\ \A s, t \in stacks : s # t => s \cap t = {}
  BY <1>2 DEF FrameInv
<1>4. PICK P, n : P = HeldPages /\ n = 1
  OBVIOUS
<1>5. v.page # 0
  BY <1>1, <1>2, <1>3, Refused
<1>6. PICK Q : Q = v.page .. v.page + n - 1
  OBVIOUS
<1>7. /\ SpaceOK(v.vm) /\ Own(v.vm, P \cup Q) /\ InUse(v.vm, P \cup Q)
      /\ Q \cap P = {} /\ v.page \in 2 .. VPages
  <2>1. PICK x : x = vm
    OBVIOUS
  <2>2. /\ SpaceOK(x) /\ Own(x, P) /\ InUse(x, P) /\ n \in {1, 2} /\ v = valloc(n, x)
    BY <1>1, <1>3, <1>4, <2>1
  <2>3. PICK first : first = v.page
    OBVIOUS
  <2>4. PagesFrom(first, n, Q) /\ first # 0
    BY <1>5, <1>6, <2>2, <2>3 DEF PagesFrom
  <2>5. /\ SpaceOK(v.vm) /\ Own(v.vm, P \cup Q) /\ InUse(v.vm, P \cup Q)
        /\ Q \cap P = {} /\ first \in 2 .. VPages
    BY <2>2, <2>3, <2>4, Vallocs
  <2> QED
    BY <2>3, <2>5
<1>8. v.page \in Nat /\ Q = {v.page}
  BY <1>4, <1>6, <1>7, SpaceLayout
<1>9. /\ at' \in Seq(Nat) /\ DOMAIN at' = DOMAIN at \cup {Len(at) + 1}
      /\ at'[Len(at) + 1] = v.page /\ \A r \in DOMAIN at : at'[r] = at[r]
  BY <1>2, <1>3, <1>8
<1>10. HeldPages' = P \cup Q
  <2>1. \A x : (\E r \in DOMAIN at' : x = at'[r])
                  <=> (\E r \in DOMAIN at : x = at[r]) \/ x = v.page
    BY <1>9
  <2>2. PICK S, a, a2, H2 : S = stacks /\ a = at /\ a2 = at' /\ H2 = HeldPages'
    OBVIOUS
  <2>3. P = (UNION S) \cup {a[r] : r \in DOMAIN a} /\ H2 = (UNION S) \cup {a2[r] : r \in DOMAIN a2}
    BY <1>2, <1>4, <2>2 DEF HeldPages
  <2>4. \A x : (\E r \in DOMAIN a2 : x = a2[r]) <=> (\E r \in DOMAIN a : x = a[r]) \/ x = v.page
    BY <2>1, <2>2
  <2>5. H2 = P \cup {v.page}
    BY <2>3, <2>4
  <2> QED
    BY <1>8, <2>2, <2>5
<1>11. v.page \notin UNION stacks
  BY <1>4, <1>7, <1>8, HeldIn DEF Holds
<1> QED
  BY <1>2, <1>3, <1>7, <1>9, <1>10, <1>11 DEF FrameInv

\* So does a new stack.
LEMMA NewStackFrames == ASSUME FrameInv, NEW n \in StackPages, NewStack(n) PROVE FrameInv'
<1> SUFFICES ASSUME ~ halted' PROVE FrameInv'
  BY DEF FrameInv
<1>0. n \in {1, 2}
  BY HeapAssumption
<1>1. PICK v : v = valloc(n, vm)
  OBVIOUS
<1>2. /\ ~ halted /\ vm' = v.vm /\ at' = at /\ (v.page # 0 \/ n = 1)
      /\ stacks' = IF v.page = 0 THEN stacks ELSE stacks \cup {v.page .. v.page + n - 1}
  <2>1. /\ ~ halted /\ vm' = v.vm /\ at' = at /\ halted' = (v.page = 0 /\ n > 1)
        /\ stacks' = IF v.page = 0 THEN stacks ELSE stacks \cup {v.page .. v.page + n - 1}
    BY <1>1, Zenon DEF NewStack
  <2>2. ~ (v.page = 0 /\ n > 1)
    BY <2>1, Zenon
  <2>3. v.page # 0 \/ n = 1
    BY <1>0, <2>2
  <2> QED
    BY <2>1, <2>3
<1>3. /\ SpaceOK(vm) /\ Own(vm, HeldPages) /\ InUse(vm, HeldPages) /\ at \in Seq(Nat)
      /\ \A r \in DOMAIN at : at[r] \notin UNION stacks
      /\ \A s \in stacks : \E p \in 0 .. VPages, m \in {1, 2} : s = p .. p + m - 1
      /\ \A s, t \in stacks : s # t => s \cap t = {}
  BY <1>2 DEF FrameInv
<1>4. PICK P : P = HeldPages
  OBVIOUS
<1>5. CASE v.page = 0
  <2>1. SpaceOK(v.vm) /\ Own(v.vm, P) /\ InUse(v.vm, P)
    BY <1>1, <1>2, <1>3, <1>4, <1>5, Refused
  <2>2. HeldPages' = P
    BY <1>2, <1>4, <1>5 DEF HeldPages
  <2> QED
    BY <1>2, <1>3, <1>5, <2>1, <2>2 DEF FrameInv
<1>6. CASE v.page # 0
  <2>1. PICK Q : Q = v.page .. v.page + n - 1
    OBVIOUS
  <2>2. /\ SpaceOK(v.vm) /\ Own(v.vm, P \cup Q) /\ InUse(v.vm, P \cup Q)
        /\ Q \cap P = {} /\ v.page \in 2 .. VPages
    <3>1. PICK x : x = vm
      OBVIOUS
    <3>2. /\ SpaceOK(x) /\ Own(x, P) /\ InUse(x, P) /\ n \in {1, 2} /\ v = valloc(n, x)
      BY <1>0, <1>1, <1>3, <1>4, <3>1
    <3>3. PICK first : first = v.page
      OBVIOUS
    <3>4. PagesFrom(first, n, Q) /\ first # 0
      BY <1>6, <2>1, <3>2, <3>3 DEF PagesFrom
    <3>5. /\ SpaceOK(v.vm) /\ Own(v.vm, P \cup Q) /\ InUse(v.vm, P \cup Q)
          /\ Q \cap P = {} /\ first \in 2 .. VPages
      BY <3>2, <3>3, <3>4, Vallocs
    <3> QED
      BY <3>3, <3>5
  <2>3. v.page \in Nat /\ stacks' = stacks \cup {Q}
    BY <1>2, <1>6, <2>1, <2>2, SpaceLayout
  <2>4. HeldPages' = P \cup Q /\ UNION stacks' = (UNION stacks) \cup Q
    <3>1. UNION (stacks \cup {Q}) = (UNION stacks) \cup Q
      OBVIOUS
    <3>2. UNION stacks' = (UNION stacks) \cup Q
      BY <2>3, <3>1
    <3>3. HeldPages' = (UNION stacks') \cup {at[r] : r \in DOMAIN at}
      BY <1>2 DEF HeldPages
    <3> QED
      BY <1>4, <3>2, <3>3 DEF HeldPages
  <2>5. /\ \A r \in DOMAIN at : at[r] \notin Q
        /\ \A s \in stacks : s \cap Q = {}
    BY <1>4, <2>2, HeldIn DEF Holds
  <2>6. \A s \in stacks' : \E p \in 0 .. VPages, m \in {1, 2} : s = p .. p + m - 1
    <3>1. v.page \in 0 .. VPages
      BY <2>2, SpaceLayout
    <3> QED
      BY <1>0, <1>3, <2>1, <2>3, <3>1
  <2>7. \A s, t \in stacks' : s # t => s \cap t = {}
    BY <1>3, <2>3, <2>5
  <2>8. \A r \in DOMAIN at : at[r] \notin UNION stacks'
    <3>1. \A r \in DOMAIN at : at[r] \notin UNION stacks
      BY <1>3
    <3>2. UNION stacks' = (UNION stacks) \cup Q
      BY <2>4
    <3> QED
      BY <2>5, <3>1, <3>2
  <2> QED
    BY <1>2, <1>3, <2>2, <2>4, <2>6, <2>7, <2>8 DEF FrameInv
<1> QED
  BY <1>5, <1>6

\* A stack that is given back gives up its pages and the frame of the first.
LEMMA FreeStackFrames == ASSUME FrameInv, NEW s \in stacks, FreeStack(s) PROVE FrameInv'
<1>1. PICK p : p = CHOOSE x \in s : \A q \in s : x <= q
  OBVIOUS
<1>2. ~ halted /\ halted' = halted /\ vm' = vfree(p, vm) /\ at' = at /\ stacks' = stacks \ {s}
  BY <1>1 DEF FreeStack
<1>3. /\ SpaceOK(vm) /\ Own(vm, HeldPages) /\ InUse(vm, HeldPages) /\ at \in Seq(Nat)
      /\ \A r \in DOMAIN at : at[r] \notin UNION stacks
      /\ \A t \in stacks : \E x \in 0 .. VPages, m \in {1, 2} : t = x .. x + m - 1
      /\ \A t, u \in stacks : t # u => t \cap u = {}
  BY <1>2 DEF FrameInv
<1>4. p \in s
  <2>1. PICK x \in 0 .. VPages, m \in {1, 2} : s = x .. x + m - 1
    BY <1>3
  <2>2. x \in s /\ \A q \in s : x <= q
    BY <2>1
  <2> QED
    BY <1>1, <2>2
<1>5. PICK P, w : P = HeldPages /\ w = vm'
  OBVIOUS
<1>6. p \in P
  BY <1>4, <1>5 DEF HeldPages
<1>7. SpaceOK(w) /\ Own(w, P \ {p}) /\ InUse(w, P \ {p})
  BY <1>2, <1>3, <1>5, <1>6, Vfrees
<1>8. HeldPages' \subseteq P \ {p}
  <2>1. \A t \in stacks' : p \notin t
    BY <1>2, <1>3, <1>4
  <2>2. \A r \in DOMAIN at : at[r] # p
    BY <1>3, <1>4
  <2> QED
    BY <1>2, <1>5, <2>1, <2>2, HeldIn DEF Holds
<1>9. Own(w, HeldPages') /\ InUse(w, HeldPages')
  BY <1>7, <1>8 DEF Own, InUse
<1> QED
  BY <1>2, <1>3, <1>5, <1>7, <1>9 DEF FrameInv

\* halloc, hfree and hrealloc leave the space, the regions and the stacks alone.
LEMMA QuietFrames ==
    ASSUME FrameInv, UNCHANGED pages, halted => halted' PROVE FrameInv'
<1> SUFFICES ASSUME ~ halted' PROVE FrameInv'
  BY DEF FrameInv
<1>1. vm' = vm /\ at' = at /\ stacks' = stacks /\ ~ halted
  BY DEF pages
<1>2. HeldPages' = HeldPages
  BY <1>1 DEF HeldPages
<1> QED
  BY <1>1, <1>2 DEF FrameInv

\* Every step keeps the invariant.
LEMMA NextFrames == ASSUME FrameInv, Next PROVE FrameInv'
<1>1. CASE heap_add
  BY <1>1, AddFrames
<1>2. ASSUME NEW size \in Requests, halloc(size) PROVE FrameInv'
  <2>1. UNCHANGED pages /\ (halted => halted')
    BY <1>2, Zenon DEF halloc
  <2> QED
    BY <2>1, QuietFrames
<1>3. ASSUME NEW size \in Requests, NEW p \in Ptrs, hrealloc(p, size) PROVE FrameInv'
  <2>1. UNCHANGED pages /\ ~ halted
    BY <1>3 DEF hrealloc
  <2> QED
    BY <2>1, QuietFrames
<1>4. ASSUME NEW p \in Ptrs, hfree(p) PROVE FrameInv'
  <2>1. UNCHANGED pages /\ (halted => halted')
    BY <1>4, Zenon DEF hfree
  <2> QED
    BY <2>1, QuietFrames
<1>5. ASSUME NEW n \in StackPages, NewStack(n) PROVE FrameInv'
  BY <1>5, NewStackFrames
<1>6. ASSUME NEW s \in stacks, FreeStack(s) PROVE FrameInv'
  BY <1>6, FreeStackFrames
<1>7. CASE Halted
  <2>1. UNCHANGED pages /\ (halted => halted')
    BY <1>7 DEF Halted, vars, pages
  <2> QED
    BY <2>1, QuietFrames
<1> QED
  BY <1>1, <1>2, <1>3, <1>4, <1>5, <1>6, <1>7 DEF Next

\* A fresh space is in order, and none of its pages is in use.
LEMMA FreshSpace ==
    ASSUME NEW garbage \in [0 .. VPages - 1 -> VLeftover], NEW w, w = init_vmm(garbage)
    PROVE  SpaceOK(w) /\ Own(w, {}) /\ InUse(w, {})
<1>1. PICK x : x = init_bitmap(VPages * PageSize, PageSize, garbage)
  OBVIOUS
<1>2. V!WellFormed(x)
  <2>1. garbage \in [0 .. V!Total - 1 -> VLeftover]
    BY SpaceLayout
  <2>2. x = V!init_bitmap(VPages * PageSize, PageSize, garbage)
    BY <1>1, SpaceCopies
  <2> QED
    BY <2>1, <2>2, SpaceAssumption, V!InitStruct
<1>3. PICK v : v = [bm |-> x, space |-> [p \in 0 .. VPages |-> 0], used |-> {0}]
  OBVIOUS
<1>4. SpaceType(v) /\ v.bm = x /\ v.used = {0} /\ \A q \in 0 .. VPages : v.space[q] = 0
  BY <1>3 DEF SpaceType
<1>5. w = MapFresh(v, 1) /\ 1 \in 0 .. VPages /\ 0 \in 0 .. VPages
  BY <1>1, <1>3, SpaceLayout DEF init_vmm
<1>6. PICK f \in Nat : Mapped(v, w, 1, f)
  BY <1>4, <1>5, MapFreshStep
<1>7. /\ SpaceType(w) /\ w.bm = x /\ 0 \in w.used
      /\ \A q \in 0 .. VPages : q # 1 => w.space[q] = 0
  BY <1>4, <1>6 DEF Mapped
<1>8. SpaceOK(w)
  <2>1. \A p \in 2 .. VPages : p \in 0 .. VPages /\ p # 1
    BY SpaceLayout
  <2>2. w.space[0] = 0
    BY <1>5, <1>7
  <2> QED
    BY <1>2, <1>7, <2>1, <2>2 DEF SpaceOK
<1> QED
  BY <1>7, <1>8 DEF Own, InUse

\* The first region of the heap is on a page of its own, or the machine halts.
LEMMA InitFrames == Init => FrameInv
<1> SUFFICES ASSUME Init, ~ halted PROVE FrameInv
  BY DEF FrameInv
<1>1. PICK garbage \in [0 .. VPages - 1 -> VLeftover] :
         LET h == valloc(1, init_vmm(garbage)) IN
         /\ at = <<h.page>> /\ vm = h.vm /\ stacks = {} /\ halted = (h.vm.space[h.page] = 0)
  BY DEF Init
<1>2. PICK w : w = init_vmm(garbage)
  OBVIOUS
<1>3. PICK h, first, n : h = valloc(n, w) /\ first = h.page /\ n = 1
  OBVIOUS
<1>4. at = <<first>> /\ vm = h.vm /\ stacks = {} /\ vm.space[first] # 0
  BY <1>1, <1>2, <1>3
<1>5. PICK P : P = {}
  OBVIOUS
<1>6. SpaceOK(w) /\ Own(w, P) /\ InUse(w, P)
  BY <1>2, <1>5, FreshSpace
<1>7. first # 0
  <2>1. h = valloc(1, w)
    BY <1>3
  <2> QED
    BY <1>3, <1>4, <1>6, <2>1, Refused
<1>8. PICK Q : PagesFrom(first, n, Q)
  BY <1>3 DEF PagesFrom
<1>9. SpaceOK(h.vm) /\ Own(h.vm, P \cup Q) /\ InUse(h.vm, P \cup Q) /\ first \in 2 .. VPages
  <2>1. h = valloc(n, w) /\ h.page = first
    BY <1>3
  <2> QED
    BY <1>6, <1>7, <1>8, <2>1, Vallocs
<1>10. Q = {first} /\ first \in Nat
  BY <1>3, <1>8, <1>9, SpaceLayout DEF PagesFrom
<1>11. HeldPages = P \cup Q
  <2>1. UNION stacks = {}
    BY <1>4
  <2>2. DOMAIN at = {1} /\ at[1] = first
    BY <1>4
  <2>3. {at[r] : r \in DOMAIN at} = {first}
    BY <2>2
  <2> QED
    BY <1>5, <1>10, <2>1, <2>3 DEF HeldPages
<1>12. at \in Seq(Nat) /\ \A r \in DOMAIN at : at[r] \notin UNION stacks
  <2>1. \A r : r \notin UNION stacks
    BY <1>4
  <2>2. at \in Seq(Nat)
    BY <1>4, <1>10
  <2> QED
    BY <2>1, <2>2
<1>13. SpaceOK(vm) /\ Own(vm, HeldPages) /\ InUse(vm, HeldPages)
  BY <1>4, <1>9, <1>11
<1> QED
  BY <1>4, <1>12, <1>13 DEF FrameInv

\* Every page of a region or of a stack in use keeps a frame of its own, whose
\* bit is set, for any region, space and memory size and any ids left in memory.
THEOREM FramesStayOwned == Spec => []FramesOwned
<1>1. FrameInv /\ [Next]_vars => FrameInv'
  <2> SUFFICES ASSUME FrameInv, UNCHANGED vars PROVE FrameInv'
    BY NextFrames
  <2>1. UNCHANGED pages /\ (halted => halted')
    BY DEF vars, pages
  <2> QED
    BY <2>1, QuietFrames
<1>2. FrameInv => FramesOwned
  BY DEF FrameInv, Own, FramesOwned
<1> QED
  BY <1>1, <1>2, InitFrames, PTL DEF Spec
=============================================================================
