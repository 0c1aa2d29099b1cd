---------------------------- MODULE BitmapProofs ----------------------------
(***************************************************************************)
(* Proofs about Bitmap for every region size, block size, leftover memory, *)
(* request and pointer.                                                    *)
(***************************************************************************)
EXTENDS Bitmap, FiniteSetTheorems, WellFoundedInduction, TLAPS

(* Arithmetic of the block layout *)

\* A nonempty set of naturals has a least element (the scan of bm_alloc stops
\* at the first block that fits).
LEMMA LeastElement ==
    ASSUME NEW S, S \subseteq Nat, S # {}
    PROVE  \E m \in S : \A k \in S : m <= k
<1>1. \E x \in S : \A y \in S : ~ (<<y, x>> \in OpToRel(<, Nat))
  BY WFMin, NatLessThanWellFounded, Zenon
<1>2. \A x, y \in Nat : y < x => <<y, x>> \in OpToRel(<, Nat)
  BY Zenon DEF OpToRel
<1>3. \E x \in S : \A y \in S : ~ (y < x)
  BY <1>1, <1>2, Zenon
<1>4. QED
  BY <1>3

\* DIV_CEIL yields a natural number no larger than its numerator.
LEMMA DivCeilBound ==
    ASSUME NEW n \in Nat, NEW d \in Nat \ {0}
    PROVE  DIV_CEIL(n, d) \in Nat /\ DIV_CEIL(n, d) <= n
BY DEF DIV_CEIL

\* The bit array of init_bitmap fits into the blocks of its own region.
LEMMA Layout == Total \in Nat /\ Meta \in Nat /\ Meta <= Total
<1>1. Total \in Nat
  BY BitmapAssumption DEF Total
<1>2. BLOCKS_PER_INT = 4
  BY DEF BLOCKS_PER_INT, BITS_PER_ID
<1>3. DIV_CEIL(Total, 4) \in Nat /\ DIV_CEIL(Total, 4) <= Total
  BY <1>1, DivCeilBound
<1>4. DIV_CEIL(DIV_CEIL(Total, 4), BSize) \in Nat
      /\ DIV_CEIL(DIV_CEIL(Total, 4), BSize) <= DIV_CEIL(Total, 4)
  BY <1>3, DivCeilBound, BitmapAssumption
<1>5. Meta = DIV_CEIL(DIV_CEIL(Total, 4), BSize)
  BY <1>2 DEF Meta, BM_BLOCKS, Total
<1>6. QED
  BY <1>1, <1>3, <1>4, <1>5

\* The pointer to block i divides back to i, and a pointer at or after block q
\* belongs to block q or a later one.
LEMMA BlockOfPointer ==
    ASSUME NEW q \in Nat, NEW ptr \in Nat
    PROVE  /\ (q * BSize) \div BSize = q
           /\ q * BSize <= ptr => q <= ptr \div BSize
           /\ q * BSize # NULL
BY BitmapAssumption DEF NULL

(* The bit array *)

\* What bm_alloc and bm_free keep true of the struct.
WellFormed(x) ==
    /\ x \in [size : {Size}, bsize : {BSize}, used : Nat, ffa : Meta .. Total,
              ids : [0 .. Total - 1 -> 0 .. 3]]
    /\ \A j \in 0 .. x.ffa - 1 : x.ids[j] # 0
    /\ x.used <= Cardinality({j \in 0 .. Total - 1 : x.ids[j] # 0})

\* A field read by get_bm is zero exactly when the id is.
LEMMA GetBmZero ==
    ASSUME NEW x, WellFormed(x), NEW j \in 0 .. Total - 1
    PROVE  get_bm(x, j) = 0 <=> x.ids[j] = 0
<1>1. x.ids[j] \in 0 .. 3
  BY DEF WellFormed
<1>2. Weight(j) \in {1, 4, 16, 64}
  BY DEF Weight, BLOCKS_PER_INT, BITS_PER_ID
<1>3. QED
  BY <1>1, <1>2 DEF get_bm

\* get_bm never returns anything but a small natural number.
LEMMA GetBmType ==
    ASSUME NEW x, WellFormed(x), NEW j \in 0 .. Total - 1
    PROVE  get_bm(x, j) \in Nat
<1>1. x.ids[j] \in 0 .. 3
  BY DEF WellFormed
<1>2. Weight(j) \in {1, 4, 16, 64}
  BY DEF Weight, BLOCKS_PER_INT, BITS_PER_ID
<1>3. QED
  BY <1>1, <1>2 DEF get_bm

\* Two values leave bm_unique_id an id to return, and it is never zero.
LEMMA UniqueIdType ==
    ASSUME NEW a \in Nat, NEW c \in Nat
    PROVE  bm_unique_id(a, c) \in 1 .. 3
<1> DEFINE P(id) == /\ id # a /\ id # c
                    /\ \A lower \in 1 .. (id - 1) : lower = a \/ lower = c
<1>1. \E id \in 1 .. 3 : P(id)
  <2>1. CASE 1 # a /\ 1 # c
    BY <2>1
  <2>2. CASE (1 = a \/ 1 = c) /\ 2 # a /\ 2 # c
    BY <2>2
  <2>3. CASE (1 = a \/ 1 = c) /\ (2 = a \/ 2 = c)
    <3>1. P(3)
      BY <2>3
    <3>2. QED
      BY <3>1
  <2>4. QED
    BY <2>1, <2>2, <2>3
<1>2. QED
  BY <1>1 DEF bm_unique_id

-----------------------------------------------------------------------------
(* bm_alloc *)

\* A request that is granted is granted at a block from ffa on at which it
\* fits.
LEMMA FirstFitFits ==
    ASSUME NEW x, WellFormed(x), NEW n \in Nat, CanAlloc(x, n)
    PROVE  FirstFit(x, n) \in x.ffa .. Total - 1 /\ Fits(x, n, FirstFit(x, n))
<1> DEFINE S == {i \in x.ffa .. Total - 1 : Fits(x, n, i)}
<1>1. TBlocks(x) = Total
  BY DEF TBlocks, Total, WellFormed
<1>2. x.ffa \in Nat /\ Total \in Nat
  BY Layout DEF WellFormed
<1>3. S \subseteq Nat /\ S # {}
  BY <1>1, <1>2 DEF CanAlloc
<1>4. PICK m \in S : \A k \in S : m <= k
  BY <1>3, LeastElement
<1>5. \A j \in x.ffa .. m - 1 : ~ Fits(x, n, j)
  BY <1>2, <1>3, <1>4
<1>6. QED
  BY <1>1, <1>4, <1>5 DEF FirstFit

\* A run that fits is free and ends inside the region.
LEMMA FittingRunIsFree ==
    ASSUME NEW x, WellFormed(x), NEW n \in Nat, NEW i \in x.ffa .. Total - 1,
           Fits(x, n, i)
    PROVE  /\ i \in Nat /\ i + n <= Total
           /\ \A j \in i .. (i + n - 1) : j \in 0 .. Total - 1 /\ x.ids[j] = 0
<1>1. TBlocks(x) = Total
  BY DEF TBlocks, Total, WellFormed
<1>2. x.ffa \in Nat /\ Total \in Nat
  BY Layout DEF WellFormed
<1>3. i \in Nat /\ i + n <= Total
  BY <1>1, <1>2 DEF Fits
<1>4. ASSUME NEW j \in i .. (i + n - 1)
      PROVE  j \in 0 .. Total - 1 /\ x.ids[j] = 0
  <2>1. j \in 0 .. Total - 1
    BY <1>2, <1>3
  <2>2. get_bm(x, j) = 0
    BY DEF Fits
  <2>3. QED
    BY <2>1, <2>2, GetBmZero
<1>5. QED
  BY <1>3, <1>4

\* The id of a new run is a nonzero two-bit id.
LEMMA NewIdType ==
    ASSUME NEW x, WellFormed(x), NEW n \in Nat, NEW i \in Nat, i < Total
    PROVE  NewId(x, n, i) \in 1 .. 3
<1>1. TBlocks(x) = Total /\ Total \in Nat
  BY Layout DEF TBlocks, Total, WellFormed
<1>2. (IF i > 0 THEN get_bm(x, i - 1) ELSE 0) \in Nat
  BY <1>1, GetBmType
<1>3. (IF i + n < TBlocks(x) - 1 THEN get_bm(x, i + n) ELSE 0) \in Nat
  BY <1>1, GetBmType
<1>4. QED
  BY <1>2, <1>3, UniqueIdType DEF NewId

\* Marking a free run keeps the struct well formed and marks exactly the run.
LEMMA MarkRun ==
    ASSUME NEW x, WellFormed(x), NEW n \in Nat, NEW i \in x.ffa .. Total - 1,
           Fits(x, n, i)
    PROVE  /\ WellFormed(Mark(x, n, i))
           /\ \A j \in 0 .. Total - 1 :
                  Mark(x, n, i).ids[j] # 0
                      <=> x.ids[j] # 0 \/ j \in i .. (i + n - 1)
<1> DEFINE y == Mark(x, n, i)
           run == i .. (i + n - 1)
           old == {j \in 0 .. Total - 1 : x.ids[j] # 0}
           new == {j \in 0 .. Total - 1 : y.ids[j] # 0}
<1>1. /\ i \in Nat /\ i + n <= Total /\ Total \in Nat /\ Meta \in Nat
      /\ \A j \in run : j \in 0 .. Total - 1 /\ x.ids[j] = 0
  BY FittingRunIsFree, Layout
<1>2. NewId(x, n, i) \in 1 .. 3
  BY <1>1, NewIdType
<1>3. /\ x.ids \in [0 .. Total - 1 -> 0 .. 3]
      /\ x.ffa \in Meta .. Total /\ x.used \in Nat
      /\ x.size = Size /\ x.bsize = BSize
  BY DEF WellFormed
<1>4. y.ids = [j \in 0 .. Total - 1 |->
                 IF j \in run THEN OrId(x.ids[j], NewId(x, n, i)) ELSE x.ids[j]]
  BY <1>3 DEF Mark, set_bm, WellFormed
<1>5. \A j \in run : y.ids[j] = NewId(x, n, i)
  BY <1>1, <1>2, <1>4 DEF OrId
<1>6. \A j \in (0 .. Total - 1) \ run : y.ids[j] = x.ids[j]
  BY <1>4
<1>7. y.ids \in [0 .. Total - 1 -> 0 .. 3]
  <2>1. \A j \in 0 .. Total - 1 :
            (IF j \in run THEN OrId(x.ids[j], NewId(x, n, i)) ELSE x.ids[j])
                \in 0 .. 3
    BY <1>1, <1>2, <1>3 DEF OrId
  <2>2. QED
    BY <1>4, <2>1
<1>8. \A j \in 0 .. Total - 1 : y.ids[j] # 0 <=> x.ids[j] # 0 \/ j \in run
  BY <1>1, <1>2, <1>5, <1>6
<1>9. y.ffa = (IF i = x.ffa THEN i + n ELSE x.ffa) /\ y.used = x.used + n
  BY DEF Mark, WellFormed
<1>10. y \in [size : {Size}, bsize : {BSize}, used : Nat, ffa : Meta .. Total,
              ids : [0 .. Total - 1 -> 0 .. 3]]
  <2>1. y.ffa \in Meta .. Total
    BY <1>1, <1>3, <1>9
  <2>2. y.used \in Nat
    BY <1>3, <1>9
  <2>3. QED
    BY <1>3, <1>7, <2>1, <2>2 DEF Mark, WellFormed
<1>11. \A j \in 0 .. y.ffa - 1 : y.ids[j] # 0
  BY <1>1, <1>3, <1>8, <1>9 DEF WellFormed
<1>12. y.used <= Cardinality(new)
  <2>1. new = old \cup run /\ old \cap run = {}
    BY <1>1, <1>8
  <2>2. IsFiniteSet(0 .. Total - 1)
    BY <1>1, FS_Interval
  <2>3. IsFiniteSet(old)
    BY <2>2, FS_Subset
  <2>4. IsFiniteSet(run) /\ Cardinality(run) = n
    BY <1>1, FS_Interval
  <2>5. Cardinality(old \cap run) = 0
    BY <2>1, FS_EmptySet
  <2>6. Cardinality(old) \in Nat
    BY <2>3, FS_CardinalityType
  <2>7. Cardinality(new) = Cardinality(old) + n
    <3>1. Cardinality(old \cup run)
              = Cardinality(old) + Cardinality(run) - Cardinality(old \cap run)
      BY <2>3, <2>4, FS_Union
    <3> HIDE DEF old, run, new
    <3>2. QED
      BY <2>1, <2>4, <2>5, <2>6, <3>1
  <2>8. x.used <= Cardinality(old)
    BY DEF WellFormed
  <2>9. QED
    BY <1>3, <1>9, <2>6, <2>7, <2>8
<1>13. QED
  BY <1>8, <1>10, <1>11, <1>12 DEF WellFormed

\* Blocks marked in x are marked in y.
Keeps(x, y) == \A j \in 0 .. Total - 1 : x.ids[j] # 0 => y.ids[j] # 0

\* The blocks of the region g are free in x and marked in y.
Granted(x, y, g) ==
    /\ g \in Region /\ g.start + g.n <= Total
    /\ \A j \in Extent(g) :
           j \in 0 .. Total - 1 /\ x.ids[j] = 0 /\ y.ids[j] # 0

\* bm_alloc keeps the struct well formed and unmarks nothing; the blocks of a
\* region it returns were free before and are marked after.
LEMMA AllocStep ==
    ASSUME NEW x, WellFormed(x), NEW size \in Nat, NEW r, r = bm_alloc(x, size)
    PROVE  /\ WellFormed(r.b)
           /\ Keeps(x, r.b)
           /\ r.ptr = NULL => r.b = x
           /\ r.ptr # NULL => Granted(x, r.b, RegionAt(r.ptr, size))
<1> DEFINE n == DIV_CEIL(size, BSize)
           i == FirstFit(x, n)
<1>1. n \in Nat
  BY BitmapAssumption, DivCeilBound
<1>2. x.bsize = BSize
  BY DEF WellFormed
<1>3. CASE ~ CanAlloc(x, n)
  <2>1. r.ptr = NULL /\ r.b = x
    BY <1>2, <1>3 DEF bm_alloc
  <2>2. QED
    BY <2>1 DEF Keeps
<1>4. CASE CanAlloc(x, n)
  <2>1. i \in x.ffa .. Total - 1 /\ Fits(x, n, i)
    BY <1>1, <1>4, FirstFitFits
  <2>2. r.ptr = i * BSize /\ r.b = Mark(x, n, i)
    BY <1>2, <1>4 DEF bm_alloc
  <2>3. /\ i \in Nat /\ i + n <= Total
        /\ \A j \in i .. (i + n - 1) : j \in 0 .. Total - 1 /\ x.ids[j] = 0
    BY <1>1, <2>1, FittingRunIsFree
  <2>4. /\ WellFormed(r.b)
        /\ \A j \in 0 .. Total - 1 :
               r.b.ids[j] # 0 <=> x.ids[j] # 0 \/ j \in i .. (i + n - 1)
    BY <1>1, <2>1, <2>2, MarkRun
  <2>5. RegionAt(r.ptr, size) = [start |-> i, n |-> n] /\ r.ptr # NULL
    BY <2>2, <2>3, BlockOfPointer DEF RegionAt
  <2>6. [start |-> i, n |-> n] \in Region
    BY <1>1, <2>1, <2>3, Layout DEF Region, WellFormed
  <2>7. QED
    BY <2>3, <2>4, <2>5, <2>6 DEF Extent, Keeps, Granted
<1>5. QED
  BY <1>3, <1>4

-----------------------------------------------------------------------------
(* bm_free *)

\* bm_free clears no bit: it may lower ffa, to a block of the region with only
\* marked blocks before it.
LEMMA FreeStep ==
    ASSUME NEW x, WellFormed(x), NEW ptr \in Int
    PROVE  WellFormed(bm_free(x, ptr).b) /\ bm_free(x, ptr).b.ids = x.ids
<1> DEFINE y == bm_free(x, ptr).b
           s == ptr \div BSize
<1>1. /\ x.ids \in [0 .. Total - 1 -> 0 .. 3] /\ x.bsize = BSize
      /\ x.size = Size /\ x.ffa \in Meta .. Total
  BY DEF WellFormed
<1>2. CASE ~ InRegion(x, ptr)
  BY <1>2 DEF bm_free
<1>3. CASE InRegion(x, ptr)
  <2>1. y = [x EXCEPT !.ids = set_bm(x.ids, Run(x, s), 0),
                      !.ffa = IF s < x.ffa THEN s ELSE x.ffa]
    BY <1>1, <1>3 DEF bm_free
  <2>2. set_bm(x.ids, Run(x, s), 0) = x.ids
    BY <1>1 DEF set_bm, OrId
  <2>3. Meta * BSize <= ptr
    BY <1>1, <1>3 DEF InRegion, MetaBlocks, Meta
  <2>4. Meta \in Nat /\ Total \in Nat /\ ptr \in Nat
    BY <2>3, Layout, BitmapAssumption
  <2>5. s \in Nat /\ Meta <= s
    BY <2>3, <2>4, BlockOfPointer, BitmapAssumption
  <2>6. (IF s < x.ffa THEN s ELSE x.ffa) \in Meta .. Total
    BY <1>1, <2>4, <2>5
  <2>7. /\ y.ids = x.ids /\ y.used = x.used
        /\ y.ffa = IF s < x.ffa THEN s ELSE x.ffa
    BY <2>1, <2>2 DEF WellFormed
  <2>8. y \in [size : {Size}, bsize : {BSize}, used : Nat, ffa : Meta .. Total,
               ids : [0 .. Total - 1 -> 0 .. 3]]
    BY <2>1, <2>2, <2>6 DEF WellFormed
  <2>9. \A j \in 0 .. y.ffa - 1 : y.ids[j] # 0
    BY <1>1, <2>4, <2>5, <2>7 DEF WellFormed
  <2>10. y.used <= Cardinality({j \in 0 .. Total - 1 : y.ids[j] # 0})
    BY <2>7 DEF WellFormed
  <2>11. QED
    BY <2>7, <2>8, <2>9, <2>10 DEF WellFormed
<1>4. QED
  BY <1>2, <1>3

\* bm_realloc is bm_alloc followed by bm_free: the struct stays well formed,
\* and a region it returns was free before and is marked after.
LEMMA ReallocStep ==
    ASSUME NEW x, WellFormed(x), NEW ptr \in Int, NEW size \in Nat,
           NEW r, r = bm_realloc(x, ptr, size)
    PROVE  /\ WellFormed(r.b)
           /\ Keeps(x, r.b)
           /\ r.fault \in BOOLEAN
           /\ r.ptr # NULL => Granted(x, r.b, RegionAt(r.ptr, size))
<1>1. CASE ~ InRegion(x, ptr)
  <2>1. r = [ptr |-> NULL, b |-> x, fault |-> FALSE]
    BY <1>1 DEF bm_realloc
  <2>2. QED
    BY <2>1 DEF Keeps
<1>2. CASE InRegion(x, ptr)
  <2> DEFINE a == bm_alloc(x, size)
  <2>1. /\ r.ptr = a.ptr /\ r.b = bm_free(a.b, ptr).b
        /\ r.fault \in BOOLEAN
    BY <1>2 DEF bm_realloc
  <2>2. /\ WellFormed(a.b) /\ Keeps(x, a.b)
        /\ a.ptr # NULL => Granted(x, a.b, RegionAt(a.ptr, size))
    BY AllocStep
  <2> HIDE DEF a
  <2>3. WellFormed(r.b) /\ r.b.ids = a.b.ids
    BY <2>1, <2>2, FreeStep
  <2>4. QED
    BY <2>1, <2>2, <2>3 DEF Keeps, Granted
<1>3. QED
  BY <1>1, <1>2

-----------------------------------------------------------------------------
(* The inductive invariant *)

\* The regions in held lie inside the region managed by x, no block belongs to
\* two of them, and all of their blocks are marked, so that FirstFit cannot
\* choose one of them again.
Held(held, x) ==
    /\ held \subseteq Region
    /\ \A r \in held : /\ r.start + r.n <= Total
                       /\ \A j \in Extent(r) : x.ids[j] # 0
    /\ \A r, s \in held : r # s => Extent(r) \cap Extent(s) = {}

IInv ==
    /\ WellFormed(b)
    /\ Held(live, b)
    /\ halted \in BOOLEAN

\* The caller of bm_free gives up at most what callers hold.
LEMMA GivenUpSubset ==
    ASSUME NEW held, NEW ptr, NEW kept \in GivenUp(held, ptr)
    PROVE  kept \subseteq held
BY DEF GivenUp

\* Regions stay held while blocks are only ever marked.
LEMMA StillHeld ==
    ASSUME NEW x, NEW y, Keeps(x, y), NEW held, Held(held, x),
           NEW kept, kept \subseteq held
    PROVE  Held(kept, y)
<1>1. \A r \in held : \A j \in Extent(r) : j \in 0 .. Total - 1
  BY Layout DEF Held, Region, Extent
<1>2. QED
  BY <1>1 DEF Held, Keeps

\* A region that was free when it was granted can join the regions held.
LEMMA Join ==
    ASSUME NEW x, NEW y, Keeps(x, y), NEW held, Held(held, x),
           NEW kept, kept \subseteq held, NEW g, Granted(x, y, g)
    PROVE  Held(kept \cup {g}, y)
<1>1. Held(kept, y)
  BY StillHeld
<1>2. \A r \in kept : Extent(r) \cap Extent(g) = {}
  BY DEF Held, Granted
<1>3. QED
  BY <1>1, <1>2 DEF Held, Granted

\* init_bitmap leaves a well-formed struct whatever the memory held before.
LEMMA InitStruct ==
    ASSUME NEW garbage \in [0 .. Total - 1 -> Leftover], NEW x,
           x = init_bitmap(Size, BSize, garbage)
    PROVE  WellFormed(x)
<1>2. Total \in Nat /\ Meta \in Nat /\ Meta <= Total
  BY Layout
<1> DEFINE ids == [j \in 0 .. Total - 1 |->
                     IF j \in 0 .. Meta - 1 THEN OrId(garbage[j], 1)
                                            ELSE garbage[j]]
<1>3. set_bm(garbage, DOMAIN garbage, 0) = garbage
  BY DEF set_bm, OrId
<1>4. x = [size |-> Size, bsize |-> BSize, used |-> Meta, ffa |-> Meta,
           ids |-> ids]
  BY <1>3 DEF init_bitmap, set_bm, Meta
<1>5. \A j \in 0 .. Total - 1 : garbage[j] \in 0 .. 3
  BY BitmapAssumption
<1>6. /\ ids \in [0 .. Total - 1 -> 0 .. 3]
      /\ \A j \in 0 .. Meta - 1 : ids[j] # 0
  BY <1>2, <1>5 DEF OrId
<1>7. Meta <= Cardinality({j \in 0 .. Total - 1 : ids[j] # 0})
  <2> DEFINE marked == {j \in 0 .. Total - 1 : ids[j] # 0}
  <2>1. IsFiniteSet(0 .. Total - 1)
    BY <1>2, FS_Interval
  <2>2. IsFiniteSet(marked)
    BY <2>1, FS_Subset
  <2>3. (0 .. Meta - 1) \in SUBSET marked
    BY <1>2, <1>6
  <2>4. Cardinality(0 .. Meta - 1) <= Cardinality(marked)
    BY <2>2, <2>3, FS_Subset
  <2>5. Cardinality(0 .. Meta - 1) = Meta
    BY <1>2, FS_Interval
  <2>6. QED
    BY <2>4, <2>5
<1> HIDE DEF ids
<1>8. QED
  BY <1>2, <1>4, <1>6, <1>7 DEF WellFormed

\* The first state satisfies the invariant.
LEMMA InitInv == Init => IInv
<1> SUFFICES ASSUME Init PROVE IInv
  OBVIOUS
<1>1. WellFormed(b)
  BY InitStruct DEF Init
<1>2. QED
  BY <1>1 DEF Init, IInv, Held

\* Every operation keeps the invariant.
LEMMA NextInv == IInv /\ [Next]_vars => IInv'
<1> SUFFICES ASSUME IInv, [Next]_vars PROVE IInv'
  OBVIOUS
<1>1. ASSUME NEW size \in Requests, Alloc(size) PROVE IInv'
  <2> DEFINE r == bm_alloc(b, size)
             g == RegionAt(r.ptr, size)
  <2>1. size \in Nat /\ WellFormed(b) /\ Held(live, b)
    BY BitmapAssumption DEF IInv
  <2>2. /\ WellFormed(r.b) /\ Keeps(b, r.b)
        /\ r.ptr # NULL => Granted(b, r.b, g)
    BY <2>1, AllocStep
  <2>3. /\ b' = r.b /\ UNCHANGED halted
        /\ live' = IF r.ptr = NULL THEN live ELSE live \cup {g}
    BY <1>1 DEF Alloc
  <2> HIDE DEF r, g
  <2>4. Held(live', b')
    BY <2>1, <2>2, <2>3, StillHeld, Join
  <2>5. QED
    BY <2>2, <2>3, <2>4 DEF IInv, WellFormed
<1>2. ASSUME NEW ptr \in Pointers, Free(ptr) PROVE IInv'
  <2>1. ptr \in Int /\ WellFormed(b) /\ Held(live, b)
    BY BitmapAssumption DEF IInv
  <2>2. b' = bm_free(b, ptr).b /\ UNCHANGED halted
    BY <1>2 DEF Free
  <2>3. live' \subseteq live
    BY <1>2, GivenUpSubset DEF Free
  <2>4. WellFormed(b') /\ Keeps(b, b')
    BY <2>1, <2>2, FreeStep DEF Keeps
  <2>5. Held(live', b')
    BY <2>1, <2>3, <2>4, StillHeld
  <2>6. QED
    BY <2>2, <2>4, <2>5 DEF IInv
<1>3. ASSUME NEW ptr \in Pointers, NEW size \in Requests, Realloc(ptr, size)
      PROVE  IInv'
  <2> DEFINE r == bm_realloc(b, ptr, size)
             g == RegionAt(r.ptr, size)
  <2>1. ptr \in Int /\ size \in Nat /\ WellFormed(b) /\ Held(live, b)
    BY BitmapAssumption DEF IInv
  <2>2. /\ WellFormed(r.b) /\ Keeps(b, r.b) /\ r.fault \in BOOLEAN
        /\ r.ptr # NULL => Granted(b, r.b, g)
    BY <2>1, ReallocStep
  <2>3. /\ b' = r.b /\ halted' = r.fault
        /\ IF r.ptr = NULL
           THEN live' = live
           ELSE \E kept \in GivenUp(live, ptr) : live' = kept \cup {g}
    BY <1>3 DEF Realloc
  <2> HIDE DEF r, g
  <2>4. Held(live', b')
    <3>1. CASE r.ptr = NULL
      BY <2>1, <2>2, <2>3, <3>1, StillHeld
    <3>2. CASE r.ptr # NULL
      <4>1. PICK kept \in GivenUp(live, ptr) : live' = kept \cup {g}
        BY <2>3, <3>2
      <4>2. kept \subseteq live
        BY GivenUpSubset
      <4>3. QED
        BY <2>1, <2>2, <2>3, <3>2, <4>1, <4>2, Join
    <3>3. QED
      BY <3>1, <3>2
  <2>5. QED
    BY <2>2, <2>3, <2>4 DEF IInv
<1>4. CASE Halted \/ UNCHANGED vars
  BY <1>4 DEF Halted, vars, IInv
<1>5. QED
  BY <1>1, <1>2, <1>3, <1>4 DEF Next

-----------------------------------------------------------------------------
(* The theorems *)

\* The invariant holds in every reachable state.
THEOREM Invariance == Spec => []IInv
<1>1. QED
  BY InitInv, NextInv, PTL DEF Spec

\* The fields of bitmap_t stay in range under every sequence of calls.
THEOREM TypeCorrect == Spec => []TypeOK
<1>1. IInv => TypeOK
  BY DEF IInv, WellFormed, Held, TypeOK
<1>2. QED
  BY Invariance, <1>1, PTL

\* bm_alloc and bm_realloc never hand out a block that is still held.
THEOREM NoBlockTwice == Spec => []RegionsDisjoint
<1>1. IInv => RegionsDisjoint
  BY DEF IInv, Held, RegionsDisjoint
<1>2. QED
  BY Invariance, <1>1, PTL

\* The subtraction tblocks - used in bm_alloc never wraps.
THEOREM UsedNeverWraps == Spec => []UsedIsBounded
<1>1. IInv => UsedIsBounded
  BY DEF IInv, WellFormed, UsedIsBounded, Marked
<1>2. QED
  BY Invariance, <1>1, PTL

\* A run of free blocks leaves room for it beside everything used counts.
LEMMA RoomForRun ==
    ASSUME NEW x, WellFormed(x), NEW n \in Nat, NEW i \in Nat, i + n <= Total,
           \A j \in i .. (i + n - 1) : x.ids[j] = 0
    PROVE  x.used \in Nat /\ x.used + n <= Total
<1> DEFINE marked == {j \in 0 .. Total - 1 : x.ids[j] # 0}
           run == i .. (i + n - 1)
           all == 0 .. Total - 1
<1>1. Total \in Nat /\ x.used \in Nat /\ x.used <= Cardinality(marked)
  BY Layout DEF WellFormed
<1>2. IsFiniteSet(all) /\ Cardinality(all) = Total
  <2>1. 0 \in Int /\ Total - 1 \in Int
    BY <1>1
  <2>2. /\ IsFiniteSet(all)
        /\ Cardinality(all) = IF 0 > Total - 1 THEN 0 ELSE (Total - 1) - 0 + 1
    BY <2>1, FS_Interval
  <2> QED
    BY <1>1, <2>2
<1>3. IsFiniteSet(run) /\ Cardinality(run) = n
  <2>1. i \in Int /\ i + n - 1 \in Int
    OBVIOUS
  <2>2. /\ IsFiniteSet(run)
        /\ Cardinality(run) = IF i > i + n - 1 THEN 0 ELSE (i + n - 1) - i + 1
    BY <2>1, FS_Interval
  <2>3. QED
    BY <2>2
<1>4. IsFiniteSet(marked) /\ Cardinality(marked) \in Nat
  BY <1>2, FS_Subset, FS_CardinalityType
<1>5. marked \cap run = {} /\ (marked \cup run) \in SUBSET all
  BY <1>1
<1>6. Cardinality(marked \cup run)
          = Cardinality(marked) + Cardinality(run) - Cardinality(marked \cap run)
  BY <1>3, <1>4, FS_Union
<1>7. Cardinality(marked \cap run) = 0
  BY <1>5, FS_EmptySet
<1>8. Cardinality(marked \cup run) <= Cardinality(all)
  BY <1>2, <1>5, FS_Subset
<1> HIDE DEF marked, run, all
<1>9. QED
  BY <1>1, <1>2, <1>3, <1>4, <1>6, <1>7, <1>8

\* bm_alloc refuses a request only when no free run in the region is long
\* enough for it.
THEOREM RefusalIsJustified == Spec => []ScanIsComplete
<1>1. ASSUME IInv PROVE ScanIsComplete
  <2> SUFFICES ASSUME NEW size \in Requests,
                      NEW i \in 0 .. Total - 1,
                      Fits(b, DIV_CEIL(size, BSize), i)
               PROVE  CanAlloc(b, DIV_CEIL(size, BSize))
    BY DEF ScanIsComplete
  <2> DEFINE n == DIV_CEIL(size, BSize)
  <2>1. /\ WellFormed(b) /\ n \in Nat /\ Total \in Nat /\ i \in Nat
        /\ TBlocks(b) = Total /\ b.ffa \in Nat
    <3>1. n \in Nat
      BY BitmapAssumption, DivCeilBound
    <3>2. QED
      BY <1>1, <3>1, Layout DEF IInv, WellFormed, TBlocks, Total
  <2> HIDE DEF n
  <2>2. i + n <= Total /\ b.ids[i] = 0
    BY <2>1, GetBmZero DEF Fits, n
  <2>3. \A j \in i .. (i + n - 1) : b.ids[j] = 0
    <3> TAKE j \in i .. (i + n - 1)
    <3>1. j \in 0 .. Total - 1
      BY <2>1, <2>2
    <3>2. get_bm(b, j) = 0
      BY DEF Fits, n
    <3>3. QED
      BY <2>1, <3>1, <3>2, GetBmZero
  <2>4. Enough(b, n)
    BY <2>1, <2>2, <2>3, RoomForRun DEF Enough
  <2>5. b.ffa <= i
    BY <2>1, <2>2 DEF WellFormed
  <2>6. QED
    BY <2>1, <2>4, <2>5 DEF CanAlloc, n
<1>2. QED
  BY Invariance, <1>1, PTL

\* Marked neighbours never read alike: get_bm leaves the ids in different bits.
LEMMA NeighboursDiffer ==
    ASSUME NEW x, WellFormed(x), NEW j \in Nat, j + 1 < Total, x.ids[j] # 0
    PROVE  get_bm(x, j + 1) # get_bm(x, j)
<1>1. x.ids[j] \in 1 .. 3 /\ x.ids[j + 1] \in 0 .. 3
  BY Layout DEF WellFormed
<1>2. \/ Weight(j) = 1 /\ Weight(j + 1) = 4
      \/ Weight(j) = 4 /\ Weight(j + 1) = 16
      \/ Weight(j) = 16 /\ Weight(j + 1) = 64
      \/ Weight(j) = 64 /\ Weight(j + 1) = 1
  BY DEF Weight, BLOCKS_PER_INT, BITS_PER_ID
<1>3. QED
  BY <1>1, <1>2 DEF get_bm

\* So the run that bm_free finds at a marked block is that block alone.
LEMMA MarkedRun ==
    ASSUME NEW x, WellFormed(x), NEW s \in 0 .. Total - 1, x.ids[s] # 0
    PROVE  Run(x, s) = {s}
<1>1. Total \in Nat /\ TBlocks(x) = Total
  BY Layout DEF WellFormed, TBlocks, Total
<1>2. s \in Run(x, s)
  BY <1>1 DEF Run
<1>3. ASSUME NEW j \in Run(x, s) PROVE j = s
  <2>1. j \in s .. Total - 1 /\ \A k \in s .. j : get_bm(x, k) = get_bm(x, s)
    BY <1>1 DEF Run
  <2>2. QED
    BY <1>1, <2>1, NeighboursDiffer
<1>4. QED
  BY <1>2, <1>3

\* What bm_free releases for a pointer a caller holds lies in that caller's
\* region.
THEOREM FreeTouchesOwnRegion == Spec => []FreeStaysInside
<1>1. ASSUME IInv PROVE FreeStaysInside
  <2> SUFFICES ASSUME NEW r \in live, r.n > 0, NEW j \in Run(b, r.start)
               PROVE  j \in Extent(r)
    BY DEF FreeStaysInside
  <2>1. /\ WellFormed(b) /\ Total \in Nat
        /\ r.start \in Nat /\ r.n \in Nat /\ r.start + r.n <= Total
        /\ \A k \in Extent(r) : b.ids[k] # 0
    BY <1>1, Layout DEF IInv, Held, Region
  <2>2. b.ids[r.start] # 0 /\ r.start \in Extent(r) /\ r.start \in 0 .. Total - 1
    BY <2>1 DEF Extent
  <2>3. QED
    BY <2>1, <2>2, MarkedRun
<1>2. QED
  BY Invariance, <1>1, PTL

\* Seen by the regions its callers hold, bitmap.c is a RegionAllocator.
THEOREM Refinement == Spec => ImplementsAllocator
<1>1. Init => Allocator!Init
  BY DEF Init, Allocator!Init
<1>2. ASSUME NEW x, Held(live, b), NEW g, Granted(b, x, g)
      PROVE  g \in Allocator!Region /\ Allocator!Fresh(g, live)
  <2>1. g \in Allocator!Region
    BY <1>2, Layout DEF Granted, Region, Allocator!Region
  <2>2. \A h \in live : Extent(g) \cap Extent(h) = {}
    BY <1>2 DEF Granted, Held
  <2>3. QED
    BY <1>2, <2>1, <2>2 DEF Granted, Allocator!Fresh, Allocator!Extent, Extent
<1>3. ASSUME IInv, [Next]_vars PROVE [Allocator!Next]_live
  <2>1. ASSUME NEW size \in Requests, Alloc(size) PROVE [Allocator!Next]_live
    <3> DEFINE r == bm_alloc(b, size)
               g == RegionAt(r.ptr, size)
    <3>1. size \in Nat /\ WellFormed(b) /\ Held(live, b)
      BY <1>3, BitmapAssumption DEF IInv
    <3>2. r.ptr # NULL => Granted(b, r.b, g)
      BY <3>1, AllocStep
    <3>3. live' = IF r.ptr = NULL THEN live ELSE live \cup {g}
      BY <2>1 DEF Alloc
    <3> HIDE DEF r, g
    <3>4. QED
      BY <1>2, <3>1, <3>2, <3>3 DEF Allocator!Next, Allocator!Allocate
  <2>2. ASSUME NEW ptr \in Pointers, Free(ptr) PROVE [Allocator!Next]_live
    <3>1. live' = live \/ \E r \in live : live' = live \ {r}
      BY <2>2 DEF Free, GivenUp
    <3>2. QED
      BY <3>1 DEF Allocator!Next, Allocator!Release
  <2>3. ASSUME NEW ptr \in Pointers, NEW size \in Requests, Realloc(ptr, size)
        PROVE  [Allocator!Next]_live
    <3> DEFINE r == bm_realloc(b, ptr, size)
               g == RegionAt(r.ptr, size)
    <3>1. ptr \in Int /\ size \in Nat /\ WellFormed(b) /\ Held(live, b)
      BY <1>3, BitmapAssumption DEF IInv
    <3>2. r.ptr # NULL => Granted(b, r.b, g)
      BY <3>1, ReallocStep
    <3>3. \/ live' = live
          \/ /\ r.ptr # NULL
             /\ \/ live' = live \cup {g}
                \/ \E h \in live : live' = (live \ {h}) \cup {g}
      BY <2>3 DEF Realloc, GivenUp
    <3> HIDE DEF r, g
    <3>4. QED
      BY <1>2, <3>1, <3>2, <3>3
         DEF Allocator!Next, Allocator!Allocate, Allocator!Move
  <2>4. CASE Halted \/ UNCHANGED vars
    BY <2>4 DEF Halted, vars
  <2>5. QED
    BY <1>3, <2>1, <2>2, <2>3, <2>4 DEF Next
<1>4. QED
  BY Invariance, <1>1, <1>3, PTL DEF Spec, ImplementsAllocator, Allocator!Spec

(* The loops of bm_alloc *)

\* f is the value of a loop over 0 .. m that is left at the members of S with
\* the value v and goes on at nx from the others.
LoopValue(f, m, S, v, nx) ==
    \A i \in 0 .. m : f[i] = IF i \in S THEN v[i] ELSE f[nx[i]]

\* The loop variable only grows.
GoesOn(m, S, nx) == \A i \in 0 .. m : i \notin S => nx[i] \in i + 1 .. m

\* h maps every number up to n to the next member of S.
IsNextStop(h, n, S) ==
    h = [k \in 0 .. n |-> CHOOSE r \in S : k <= r /\ \A j \in k .. r - 1 : j \notin S]

\* From k on, h is that of the loop "while not in S, add one".
StopsNext(h, S, k) ==
    /\ h[k] \in S /\ k <= h[k] /\ \A j \in k .. h[k] - 1 : j \notin S
    /\ h[k] = IF k \in S THEN k ELSE h[k + 1]

\* Two functions that leave a loop at the same numbers with the same values
\* and jump forward alike at the others agree: the loop variable only grows
\* and is bounded, so a largest number at which they differ cannot exist.
LEMMA LoopsAgree ==
    ASSUME NEW m \in Nat, NEW S, NEW v, NEW nx, NEW f, NEW h,
           GoesOn(m, S, nx), LoopValue(f, m, S, v, nx), LoopValue(h, m, S, v, nx)
    PROVE  \A i \in 0 .. m : f[i] = h[i]
<1> USE DEF GoesOn, LoopValue
<1> DEFINE D == {d \in 0 .. m : f[m - d] # h[m - d]}
<1>1. CASE D = {}
  <2> SUFFICES ASSUME NEW i \in 0 .. m PROVE f[i] = h[i]
    OBVIOUS
  <2>1. m - i \in 0 .. m /\ m - (m - i) = i
    OBVIOUS
  <2>2. QED
    BY <1>1, <2>1
<1>2. CASE D # {}
  <2>0. D \subseteq Nat
    OBVIOUS
  <2>1. PICK d \in D : \A e \in D : d <= e
    <3> HIDE DEF D
    <3>1. QED
      BY ONLY <1>2, <2>0, LeastElement
  <2>2. PICK i \in 0 .. m : i = m - d
    OBVIOUS
  <2>3. f[i] # h[i]
    BY <2>2
  <2>4. i \notin S
    BY <2>3
  <2>5. PICK k \in i + 1 .. m : k = nx[i]
    BY <2>4
  <2>6. f[i] = f[k] /\ h[i] = h[k]
    BY <2>4, <2>5
  <2>7. f[k] # h[k]
    BY <2>3, <2>6
  <2>8. m - k \in 0 .. m /\ m - (m - k) = k /\ m - k < d
    BY <2>2
  <2>9. m - k \in D
    BY <2>7, <2>8
  <2>10. QED
    BY <2>1, <2>8, <2>9
<1>3. QED
  BY <1>1, <1>2

\* A set of naturals up to n that holds n has a least member from k on.
LEMMA NextStop ==
    ASSUME NEW n \in Nat, NEW S, S \subseteq 0 .. n, n \in S, NEW k \in 0 .. n
    PROVE  \E r \in S : k <= r /\ \A j \in k .. r - 1 : j \notin S
<1>1. PICK A : A = {r \in S : k <= r}
  OBVIOUS
<1>2. n \in A /\ A \subseteq S /\ S \subseteq Nat
  BY <1>1
<1>3. PICK r \in A : \A e \in A : r <= e
  BY <1>2, LeastElement
<1>4. r \in S /\ k <= r /\ r \in Nat
  BY <1>1, <1>2, <1>3
<1>5. ASSUME NEW j \in k .. r - 1 PROVE j \notin S
  <2>1. j \in Nat /\ k <= j /\ ~ (r <= j)
    BY <1>4
  <2>2. QED
    BY <2>1, <1>1, <1>3
<1>6. QED
  BY <1>4, <1>5

\* The function that maps each number to the next member of S is the value of
\* the loop "while not in S, add one".
LEMMA NextStopLoops ==
    ASSUME NEW n \in Nat, NEW S, S \subseteq 0 .. n, n \in S,
           NEW h, IsNextStop(h, n, S),
           NEW k \in 0 .. n
    PROVE  StopsNext(h, S, k)
<1> USE DEF StopsNext
<1>1. ASSUME NEW l \in 0 .. n
      PROVE  h[l] \in S /\ l <= h[l] /\ \A j \in l .. h[l] - 1 : j \notin S
  <2>1. \E r \in S : l <= r /\ \A j \in l .. r - 1 : j \notin S
    BY ONLY NextStop, n \in Nat, S \subseteq 0 .. n, n \in S, l \in 0 .. n
  <2>2. h[l] = CHOOSE r \in S : l <= r /\ \A j \in l .. r - 1 : j \notin S
    BY DEF IsNextStop
  <2>3. QED
    BY ONLY <2>1, <2>2
<1>2. CASE k \in S
  <2>1. PICK p : p = h[k]
    OBVIOUS
  <2>2. p \in S /\ k <= p /\ \A j \in k .. p - 1 : j \notin S
    BY ONLY <1>1, <2>1, k \in 0 .. n
  <2>3. p \in Nat /\ ~ (k < p)
    BY <2>2, <1>2
  <2>4. p = k
    BY <2>2, <2>3
  <2>5. QED
    BY <1>2, <2>1, <2>2, <2>4
<1>3. CASE k \notin S
  <2>1. PICK l \in 0 .. n : l = k + 1
    BY <1>3
  <2>2. PICK p, q : p = h[k] /\ q = h[l]
    OBVIOUS
  <2>3. /\ p \in S /\ k <= p /\ \A j \in k .. p - 1 : j \notin S
        /\ q \in S /\ l <= q /\ \A j \in l .. q - 1 : j \notin S
    BY ONLY <1>1, <2>2, k \in 0 .. n, l \in 0 .. n
  <2>4. p \in Nat /\ q \in Nat /\ p # k
    BY <2>3, <1>3
  <2>5. ~ (p < q) /\ ~ (q < p)
    BY ONLY <2>1, <2>3, <2>4, k \in 0 .. n, n \in Nat
  <2>6. p = q
    BY ONLY <2>4, <2>5
  <2>7. QED
    BY ONLY <1>3, <2>1, <2>2, <2>3, <2>6
<1>4. QED
  BY <1>2, <1>3

\* The r blocks from i are free, and r cannot grow.
Counted(c, n, i, T, r) ==
    /\ r \in 0 .. n
    /\ \A j \in 0 .. r - 1 : i + j < T /\ get_bm(c, i + j) = 0
    /\ r = n \/ i + r >= T \/ get_bm(c, i + r) # 0

\* The inner loop counts the free blocks from i: all it counted are free, and
\* it stopped at n, at the end of the region or at a block in use.
LEMMA FreeRunCounts ==
    ASSUME NEW c, NEW n \in Nat, NEW i \in Nat, NEW T \in Nat, T = TBlocks(c)
    PROVE  \E r : r = FreeRun(c, n, i) /\ Counted(c, n, i, T, r)
<1> DEFINE go(k) == k < n /\ i + k < T /\ get_bm(c, i + k) = 0
           is(g) == g = [k \in 0 .. n |-> IF go(k) THEN g[k + 1] ELSE k]
<1>1. PICK S : S = {k \in 0 .. n : ~ go(k)}
  OBVIOUS
<1>2. n \in S /\ S \subseteq 0 .. n /\ \A k \in 0 .. n : go(k) <=> k \notin S
  BY <1>1
<1>3. PICK h : IsNextStop(h, n, S)
  BY DEF IsNextStop
<1>4. ASSUME NEW k \in 0 .. n
      PROVE  StopsNext(h, S, k)
  <2>1. n \in S /\ S \subseteq 0 .. n
    BY <1>2
  <2> HIDE DEF go, is
  <2>2. QED
    BY ONLY <2>1, <1>3, NextStopLoops, n \in Nat, k \in 0 .. n
<1>5. h = [k \in 0 .. n |-> h[k]]
  BY <1>3 DEF IsNextStop
<1>6. is(h)
  <2>1. \A k \in 0 .. n : h[k] = IF go(k) THEN h[k + 1] ELSE k
    BY <1>2, <1>4 DEF StopsNext
  <2> HIDE DEF go
  <2>2. QED
    BY ONLY <1>5, <2>1
<1>7. PICK f : f = (CHOOSE g : is(g))
  OBVIOUS
<1>8. is(f)
  <2> HIDE DEF is
  <2>1. QED
    BY ONLY <1>6, <1>7
<1>9. FreeRun(c, n, i) = f[0]
  BY <1>7 DEF FreeRun
<1>10. PICK nx, v : nx = [k \in 0 .. n |-> k + 1] /\ v = [k \in 0 .. n |-> k]
  OBVIOUS
<1>11. GoesOn(n, S, nx)
  BY <1>2, <1>10 DEF GoesOn
<1>12. LoopValue(f, n, S, v, nx) /\ LoopValue(h, n, S, v, nx)
  <2>1. \A k \in 0 .. n : f[k] = IF go(k) THEN f[k + 1] ELSE k
    <3> HIDE DEF go
    <3>1. QED
      BY <1>8
  <2> HIDE DEF go, is
  <2>2. QED
    BY <1>2, <1>4, <1>10, <2>1 DEF LoopValue, StopsNext
<1>13. \A k \in 0 .. n : f[k] = h[k]
  BY ONLY <1>11, <1>12, LoopsAgree, n \in Nat
<1>14. PICK r : r = h[0]
  OBVIOUS
<1>15. r \in S /\ r = FreeRun(c, n, i) /\ \A j \in 0 .. r - 1 : j \notin S
  BY ONLY <1>4, <1>9, <1>13, <1>14, n \in Nat DEF StopsNext
<1>16. r \in 0 .. n /\ \A j \in 0 .. r - 1 : j \in 0 .. n
  BY ONLY <1>2, <1>15, n \in Nat
<1>17. (\A j \in 0 .. r - 1 : go(j)) /\ ~ go(r)
  BY ONLY <1>2, <1>15, <1>16
<1>18. r = n \/ i + r >= T \/ get_bm(c, i + r) # 0
  BY <1>16, <1>17
<1>19. \A j \in 0 .. r - 1 : i + j < T /\ get_bm(c, i + j) = 0
  BY <1>17
<1>20. QED
  BY <1>15, <1>16, <1>18, <1>19 DEF Counted

\* m is the first member of F from i on.
IsFirst(m, F, i) == m \in F /\ i <= m /\ \A j \in i .. m - 1 : j \notin F

\* h maps every number up to T + 1 to the first member of F from there on.
IsFirstFrom(h, F, T) ==
    h = [i \in 0 .. T + 1 |-> IF \E j \in F : i <= j
                              THEN CHOOSE m \in F : IsFirst(m, F, i) ELSE NULL]

\* What h tells about the first member of F from i on.
TellsFirst(h, F, i) ==
    /\ (\A j \in F : j < i) => h[i] = NULL
    /\ \A m \in F : IsFirst(m, F, i) => h[i] = m
    /\ h[i] # NULL => IsFirst(h[i], F, i)

\* There is at most one first member, and there is one unless there is none.
LEMMA FirstIs ==
    ASSUME NEW T \in Nat, NEW F, F \subseteq 0 .. T - 1, NEW h, IsFirstFrom(h, F, T),
           NEW i \in 0 .. T + 1
    PROVE  TellsFirst(h, F, i)
<1> USE DEF TellsFirst
<1>0. \A j \in F : j \in Nat
  OBVIOUS
<1>1. CASE \A j \in F : j < i
  <2>1. h[i] = NULL
    BY <1>0, <1>1 DEF IsFirstFrom
  <2>2. \A m \in F : ~ IsFirst(m, F, i)
    BY <1>0, <1>1 DEF IsFirst
  <2>3. QED
    BY <2>1, <2>2
<1>2. CASE \E j \in F : i <= j
  <2>1. PICK A : A = {j \in F : i <= j}
    OBVIOUS
  <2>2. A # {} /\ A \subseteq Nat
    BY <1>0, <1>2, <2>1
  <2>3. PICK p \in A : \A e \in A : p <= e
    BY <2>2, LeastElement
  <2>4. p \in F /\ i <= p /\ p \in Nat
    BY <2>1, <2>2, <2>3
  <2>5. \A j \in i .. p - 1 : j \notin F
    BY <2>1, <2>3, <2>4
  <2>6. IsFirst(p, F, i)
    BY <2>4, <2>5 DEF IsFirst
  <2>7. h[i] = CHOOSE m \in F : IsFirst(m, F, i)
    BY <1>2 DEF IsFirstFrom
  <2>8. h[i] \in F /\ IsFirst(h[i], F, i)
    BY ONLY <2>4, <2>6, <2>7
  <2>9. ASSUME NEW m \in F, IsFirst(m, F, i) PROVE h[i] = m
    <3>1. PICK q : q = h[i]
      OBVIOUS
    <3>2. q \in Nat /\ m \in Nat
      BY <1>0, <2>8, <3>1
    <3>3. ~ (q < m) /\ ~ (m < q)
      BY ONLY <2>8, <2>9, <3>1, <3>2, i \in 0 .. T + 1, T \in Nat DEF IsFirst
    <3>4. QED
      BY <3>1, <3>2, <3>3
  <2>10. QED
    BY <1>0, <1>2, <2>8, <2>9
<1>3. QED
  BY <1>0, <1>1, <1>2

\* No number from i up to k, which is left out, is in F.
JumpsOver(F, T, i, k) ==
    /\ F \subseteq 0 .. T - 1 /\ i \in 0 .. T + 1 /\ k \in i .. T + 1
    /\ \A j \in i .. k - 1 : j \notin F

\* A jump over numbers outside F leads to the same first member.
LEMMA JumpKeepsFirst ==
    ASSUME NEW T \in Nat, NEW F, NEW h, IsFirstFrom(h, F, T), NEW i, NEW k, JumpsOver(F, T, i, k)
    PROVE  h[i] = h[k]
<1> USE DEF JumpsOver
<1>0. k \in 0 .. T + 1 /\ \A j \in F : j \in Nat
  OBVIOUS
<1>a. TellsFirst(h, F, i) /\ TellsFirst(h, F, k)
  BY <1>0, FirstIs
<1>1. CASE h[i] = NULL
  <2>1. CASE h[k] = NULL
    BY <1>1, <2>1
  <2>2. CASE h[k] # NULL
    <3>1. PICK m : m = h[k]
      OBVIOUS
    <3>2. IsFirst(m, F, k)
      BY <1>a, <1>0, <2>2, <3>1 DEF TellsFirst
    <3>3. m \in F /\ IsFirst(m, F, i)
      BY <1>0, <3>2 DEF IsFirst
    <3>4. h[i] = m
      BY <1>a, <3>3 DEF TellsFirst
    <3>5. QED
      BY <3>1, <3>4
  <2>3. QED
    BY <2>1, <2>2
<1>2. CASE h[i] # NULL
  <2>1. PICK m : m = h[i]
    OBVIOUS
  <2>2. IsFirst(m, F, i)
    BY <1>a, <1>2, <2>1 DEF TellsFirst
  <2>3. m \in F /\ IsFirst(m, F, k)
    BY <1>0, <2>2 DEF IsFirst
  <2>4. h[k] = m
    BY <1>a, <1>0, <2>3 DEF TellsFirst
  <2>5. QED
    BY <2>1, <2>4
<1>3. QED
  BY <1>1, <1>2

\* At a free block the inner loop counts up to n exactly when a run fits there.
LEMMA FreeRunFits ==
    ASSUME NEW c, NEW n \in Nat, NEW T \in Nat, T = TBlocks(c),
           NEW i \in 0 .. T - 1, get_bm(c, i) = 0, NEW r, r = FreeRun(c, n, i)
    PROVE  /\ r \in 0 .. n
           /\ i + r + 1 <= T + 1
           /\ r = n <=> Fits(c, n, i)
           /\ r # n => \A j \in i .. i + r : ~ Fits(c, n, j)
<1>1. /\ r \in 0 .. n
      /\ \A j \in 0 .. r - 1 : i + j < T /\ get_bm(c, i + j) = 0
      /\ r = n \/ i + r >= T \/ get_bm(c, i + r) # 0
  <2>1. i \in Nat
    OBVIOUS
  <2>2. Counted(c, n, i, T, r)
    BY <2>1, FreeRunCounts
  <2>3. QED
    BY <2>2 DEF Counted
<1>2. i + r <= T
  <2>1. CASE r = 0
    BY <2>1
  <2>2. CASE r # 0
    <3>1. r - 1 \in 0 .. r - 1
      BY <1>1, <2>2
    <3>2. i + (r - 1) < T
      BY <1>1, <3>1
    <3>3. QED
      BY <1>1, <3>2
  <2>3. QED
    BY <2>1, <2>2
<1>3. CASE r = n
  <2>1. \A j \in i .. (i + n - 1) : get_bm(c, j) = 0
    <3> TAKE j \in i .. (i + n - 1)
    <3>1. PICK d \in 0 .. r - 1 : j = i + d
      <4>1. j - i \in 0 .. r - 1 /\ j = i + (j - i)
        BY <1>3
      <4>2. QED
        BY <4>1
    <3>2. QED
      BY <1>1, <3>1
  <2>2. Fits(c, n, i)
    BY <1>2, <1>3, <2>1 DEF Fits
  <2>3. QED
    BY <1>1, <1>2, <1>3, <2>2
<1>4. CASE r # n
  <2>1. r < n /\ (i + r >= T \/ get_bm(c, i + r) # 0)
    BY <1>1, <1>4
  <2>2. ASSUME NEW j \in i .. i + r, Fits(c, n, j) PROVE FALSE
    <3>1. j + n <= T /\ i + r \in j .. (j + n - 1)
      BY <1>1, <2>1, <2>2 DEF Fits
    <3>2. get_bm(c, i + r) = 0
      BY <2>2, <3>1 DEF Fits
    <3>3. QED
      BY <1>1, <2>1, <3>1, <3>2
  <2>3. ~ Fits(c, n, i)
    BY <1>1, <2>2
  <2>4. QED
    BY <1>1, <1>2, <1>4, <2>2, <2>3
<1>5. QED
  BY <1>3, <1>4

\* The loop of bm_alloc ends at the first block a run of n fits at, or finds
\* that there is none.
LEMMA ScanIsFirstFit ==
    ASSUME NEW c, NEW n \in Nat, NEW T \in Nat, T = TBlocks(c), c.ffa \in 0 .. T
    PROVE  Scan(c, n) = IF \E i \in c.ffa .. T - 1 : Fits(c, n, i)
                        THEN FirstFit(c, n) ELSE NULL
<1> DEFINE step(g, i) == IF i >= T THEN NULL
                         ELSE IF get_bm(c, i) # 0 THEN g[i + 1]
                         ELSE IF FreeRun(c, n, i) = n THEN i
                         ELSE g[i + FreeRun(c, n, i) + 1]
           is(g) == g = [i \in 0 .. T + 1 |-> step(g, i)]
<1>1. PICK F : F = {i \in 0 .. T - 1 : Fits(c, n, i)}
  OBVIOUS
<1>2. F \subseteq 0 .. T - 1
  BY <1>1
<1>3. PICK S : S = F \cup {i \in 0 .. T + 1 : i >= T}
  OBVIOUS
<1>4. PICK nx : nx = [i \in 0 .. T + 1 |-> IF get_bm(c, i) # 0 THEN i + 1
                                            ELSE i + FreeRun(c, n, i) + 1]
  OBVIOUS
<1>5. PICK v : v = [i \in 0 .. T + 1 |-> IF i >= T THEN NULL ELSE i]
  OBVIOUS
<1>6. PICK h : IsFirstFrom(h, F, T)
  BY DEF IsFirstFrom
<1>7. ASSUME NEW i \in 0 .. T - 1, i \notin F
      PROVE  /\ nx[i] \in i + 1 .. T + 1 /\ \A j \in i .. nx[i] - 1 : j \notin F
             /\ \A g : step(g, i) = g[nx[i]]
  <2>1. ~ Fits(c, n, i)
    BY <1>1, <1>7
  <2>2. CASE get_bm(c, i) # 0
    BY <1>4, <1>7, <2>2
  <2>3. CASE get_bm(c, i) = 0
    <3>1. PICK r : r = FreeRun(c, n, i)
      OBVIOUS
    <3>2. /\ r \in 0 .. n /\ i + r + 1 <= T + 1 /\ r # n
          /\ \A j \in i .. i + r : ~ Fits(c, n, j)
      BY <2>1, <2>3, <3>1, FreeRunFits
    <3>3. nx[i] = i + r + 1
      BY <1>4, <2>3, <3>1
    <3>4. nx[i] - 1 = i + r /\ nx[i] \in i + 1 .. T + 1
      BY <3>2, <3>3
    <3>5. \A j \in i .. nx[i] - 1 : j \notin F
      BY <1>1, <3>2, <3>4
    <3>6. ~ (i >= T)
      OBVIOUS
    <3>7. \A g : step(g, i) = g[nx[i]]
      BY <2>3, <3>1, <3>2, <3>3, <3>6
    <3>8. QED
      BY <3>4, <3>5, <3>7
  <2>4. QED
    BY <2>2, <2>3
<1>8. ASSUME NEW i \in F PROVE \A g : step(g, i) = i
  <2>1. i \in 0 .. T - 1 /\ Fits(c, n, i) /\ get_bm(c, i) = 0 /\ ~ (i >= T)
    BY <1>1, <1>8 DEF Fits
  <2>2. FreeRun(c, n, i) = n
    BY <2>1, FreeRunFits
  <2>3. QED
    BY <2>1, <2>2
<1>9. ASSUME NEW i \in 0 .. T + 1, i >= T PROVE i \in S /\ \A g : step(g, i) = NULL
  BY <1>3, <1>9
<1>10. GoesOn(T + 1, S, nx)
  BY <1>3, <1>7 DEF GoesOn
<1>11. ASSUME NEW g, \A i \in 0 .. T + 1 : g[i] = step(g, i)
       PROVE  LoopValue(g, T + 1, S, v, nx)
  <2> HIDE DEF step
  <2>1. ASSUME NEW i \in 0 .. T + 1 PROVE g[i] = IF i \in S THEN v[i] ELSE g[nx[i]]
    <3>1. CASE i >= T
      BY <1>5, <1>9, <1>11, <3>1
    <3>2. CASE i \in F
      BY <1>2, <1>3, <1>5, <1>8, <1>11, <3>2
    <3>3. CASE ~ (i >= T) /\ i \notin F
      <4>1. i \in 0 .. T - 1 /\ i \notin S
        BY <1>3, <3>3
      <4>2. QED
        BY <1>7, <1>11, <3>3, <4>1
    <3>4. QED
      BY <3>1, <3>2, <3>3
  <2>2. QED
    BY <2>1 DEF LoopValue
<1>12. ASSUME NEW i \in 0 .. T + 1 PROVE h[i] = step(h, i)
  <2> HIDE DEF step
  <2>a. TellsFirst(h, F, i)
    BY <1>2, <1>6, FirstIs
  <2>1. CASE i >= T
    <3>1. \A j \in F : j < i
      BY <1>2, <2>1
    <3>2. h[i] = NULL
      BY <3>1, <2>a DEF TellsFirst
    <3>3. QED
      BY <1>9, <2>1, <3>2
  <2>2. CASE i \in F
    <3>1. IsFirst(i, F, i)
      BY <2>2 DEF IsFirst
    <3>2. h[i] = i
      BY <2>2, <3>1, <2>a DEF TellsFirst
    <3>3. QED
      BY <1>8, <2>2, <3>2
  <2>3. CASE ~ (i >= T) /\ i \notin F
    <3>1. i \in 0 .. T - 1
      BY <2>3
    <3>2. PICK k : k = nx[i]
      OBVIOUS
    <3>3. k \in i .. T + 1 /\ (\A j \in i .. k - 1 : j \notin F) /\ step(h, i) = h[k]
      BY <1>7, <2>3, <3>1, <3>2
    <3>4. h[i] = h[k]
      <4>1. JumpsOver(F, T, i, k)
        BY <1>2, <3>3 DEF JumpsOver
      <4>2. QED
        BY ONLY <1>6, <4>1, JumpKeepsFirst, T \in Nat
    <3>5. QED
      BY <3>3, <3>4
  <2>4. QED
    BY <2>1, <2>2, <2>3
<1>13. is(h)
  <2>1. h = [i \in 0 .. T + 1 |-> h[i]]
    BY <1>6 DEF IsFirstFrom
  <2> HIDE DEF step
  <2>2. QED
    BY ONLY <1>12, <2>1
<1>14. PICK f : f = (CHOOSE g : is(g))
  OBVIOUS
<1>15. is(f)
  <2> HIDE DEF is
  <2>1. QED
    BY ONLY <1>13, <1>14
<1>16. Scan(c, n) = f[c.ffa]
  BY <1>14 DEF Scan
<1>17. \A i \in 0 .. T + 1 : f[i] = step(f, i)
  <2> HIDE DEF step
  <2>1. QED
    BY ONLY <1>15
<1>18. LoopValue(f, T + 1, S, v, nx) /\ LoopValue(h, T + 1, S, v, nx)
  <2> HIDE DEF step, is
  <2>1. QED
    BY ONLY <1>11, <1>12, <1>17
<1>19. \A i \in 0 .. T + 1 : f[i] = h[i]
  <2>1. PICK m \in Nat : m = T + 1
    OBVIOUS
  <2> HIDE DEF step, is
  <2>2. QED
    BY ONLY <1>10, <1>18, <2>1, LoopsAgree
<1>20. PICK s \in 0 .. T + 1 : s = c.ffa /\ s <= T
  OBVIOUS
<1>21. Scan(c, n) = h[s]
  BY ONLY <1>16, <1>19, <1>20
<1> HIDE DEF step, is
<1>a. TellsFirst(h, F, s)
  BY <1>2, <1>6, FirstIs
<1>22. CASE \E i \in s .. T - 1 : Fits(c, n, i)
  <2>1. PICK m : m = FirstFit(c, n)
    OBVIOUS
  <2>2. m \in s .. T - 1 /\ Fits(c, n, m) /\ \A j \in s .. m - 1 : ~ Fits(c, n, j)
    <3>1. PICK A : A = {j \in s .. T - 1 : Fits(c, n, j)}
      OBVIOUS
    <3>2. A # {} /\ A \subseteq Nat
      BY <1>22, <3>1
    <3>3. PICK p \in A : \A e \in A : p <= e
      BY <3>2, LeastElement
    <3>4. p \in s .. T - 1 /\ Fits(c, n, p) /\ \A j \in s .. p - 1 : ~ Fits(c, n, j)
      BY <3>1, <3>3
    <3>5. FirstFit(c, n) = CHOOSE i \in s .. T - 1 :
                             Fits(c, n, i) /\ \A j \in s .. i - 1 : ~ Fits(c, n, j)
      BY <1>20 DEF FirstFit
    <3>6. QED
      BY ONLY <2>1, <3>4, <3>5
  <2>3. m \in F /\ IsFirst(m, F, s)
    BY <1>1, <2>2 DEF IsFirst
  <2>4. h[s] = m
    BY <1>a, <2>3 DEF TellsFirst
  <2>5. QED
    BY <1>20, <1>21, <1>22, <2>1, <2>4
<1>23. CASE ~ \E i \in s .. T - 1 : Fits(c, n, i)
  <2>1. \A j \in F : j < s
    BY <1>1, <1>23
  <2>2. h[s] = NULL
    BY <1>a, <2>1 DEF TellsFirst
  <2>3. QED
    BY <1>20, <1>21, <1>23, <2>2
<1>24. QED
  BY <1>20, <1>22, <1>23

\* The loop of bm_alloc and the first fit agree in every reachable state.
THEOREM LoopFindsFirstFit == Spec => []ScanFindsFirstFit
<1>1. ASSUME IInv PROVE ScanFindsFirstFit
  <2>1. TBlocks(b) = Total /\ Total \in Nat /\ b.ffa \in 0 .. Total
    BY <1>1, Layout DEF IInv, WellFormed, TBlocks, Total
  <2>2. ASSUME NEW size \in Requests, NEW n, n = DIV_CEIL(size, BSize)
        PROVE  Scan(b, n) = IF \E i \in b.ffa .. Total - 1 : Fits(b, n, i)
                            THEN FirstFit(b, n) ELSE NULL
    <3>1. n \in Nat
      BY <2>2, BitmapAssumption, DivCeilBound
    <3>2. QED
      BY <2>1, <3>1, ScanIsFirstFit
  <2>3. QED
    BY <2>2 DEF ScanFindsFirstFit
<1>2. QED
  BY <1>1, Invariance, PTL
=============================================================================
