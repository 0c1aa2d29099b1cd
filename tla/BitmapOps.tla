----------------------------- MODULE BitmapOps -----------------------------
(***************************************************************************)
(* The region bitmap of src/kernel/mem/bitmap.c as operators on a          *)
(* bitmap_t.  A region of b.size bytes is cut into blocks of b.bsize       *)
(* bytes; its first blocks hold the bitmap itself, two bits (an "id") for  *)
(* every block, zero meaning free.  The struct is a record                 *)
(*    [size, bsize, used, ffa, ids]                                        *)
(* where ids is the bit array read as a function from blocks to 0..3.      *)
(* Pointers are byte offsets from b->bm.  The loops of the C code are      *)
(* given by what they compute; bm_alloc's loop is also written step by     *)
(* step (Scan), to be compared with FirstFit.                              *)
(***************************************************************************)
EXTENDS Integers, FiniteSets

BITS_PER_ID == 2
BLOCKS_PER_INT == 8 \div BITS_PER_ID

DIV_CEIL(n, d) == (n + (d - 1)) \div d

\* The blocks at the start of the region that hold the bit array.
BM_BLOCKS(size, bsize) ==
    DIV_CEIL(DIV_CEIL(size \div bsize, BLOCKS_PER_INT), bsize)

\* A null pointer.  It is below every region, as any offset under 0 is.
NULL == -1

TBlocks(b) == b.size \div b.bsize
Blocks(b) == 0 .. TBlocks(b) - 1
MetaBlocks(b) == BM_BLOCKS(b.size, b.bsize)

\* Bitwise or of two ids of BITS_PER_ID bits.
OrId(x, y) == IF y = 0 \/ x = y THEN x ELSE IF x = 0 THEN y ELSE 3

\* Mutant of set_bm: the field is assigned, so that storing 0 frees a block.
SetAssigns(ids, blocks, id) ==
    [j \in DOMAIN ids |-> IF j \in blocks THEN id ELSE ids[j]]

\* set_bm ors the id into the field of the block: bits are never cleared.
set_bm(ids, blocks, id) ==
    [j \in DOMAIN ids |-> IF j \in blocks THEN OrId(ids[j], id) ELSE ids[j]]

\* Mutant of Weight: get_bm shifts the field back.
WeightShifted(block) == 1

\* The weight of a block's field inside its byte, 1 << col.
Weight(block) ==
    LET col == block % BLOCKS_PER_INT
    IN IF col = 0 THEN 1 ELSE IF col = 1 THEN 4 ELSE IF col = 2 THEN 16 ELSE 64

\* get_bm masks the field but does not shift it back.
get_bm(b, block) == b.ids[block] * Weight(block)

\* The smallest id from 1 that differs from two values returned by get_bm.
bm_unique_id(a, c) ==
    CHOOSE id \in 1 .. 3 :
        /\ id # a /\ id # c
        /\ \A lower \in 1 .. (id - 1) : lower = a \/ lower = c

\* init_bitmap on memory whose bit array holds the ids in garbage: the loop
\* that stores 0 in every field leaves them as they are.
init_bitmap(size, bsize, garbage) ==
    LET meta == BM_BLOCKS(size, bsize)
        zeroed == set_bm(garbage, DOMAIN garbage, 0)
    IN [size |-> size, bsize |-> bsize, used |-> meta, ffa |-> meta,
        ids |-> set_bm(zeroed, 0 .. meta - 1, 1)]

-----------------------------------------------------------------------------
(* bm_alloc *)

\* A free run of n blocks starts at i; block i itself must be free (n = 0).
Fits(b, n, i) ==
    /\ i + n <= TBlocks(b)
    /\ get_bm(b, i) = 0
    /\ \A j \in i .. (i + n - 1) : get_bm(b, j) = 0

\* tblocks - used is unsigned: were used larger, it would wrap and pass.
Enough(b, n) == ~ (b.used <= TBlocks(b) /\ TBlocks(b) - b.used < n)

CanAlloc(b, n) ==
    /\ Enough(b, n)
    /\ \E i \in b.ffa .. TBlocks(b) - 1 : Fits(b, n, i)

\* Mutant of FirstFit: the scan goes on to the last fit.
LastFit(b, n) ==
    CHOOSE i \in b.ffa .. TBlocks(b) - 1 :
        /\ Fits(b, n, i)
        /\ \A j \in i + 1 .. TBlocks(b) - 1 : ~ Fits(b, n, j)

\* The block the scan of bm_alloc settles on.
FirstFit(b, n) ==
    CHOOSE i \in b.ffa .. TBlocks(b) - 1 :
        /\ Fits(b, n, i)
        /\ \A j \in b.ffa .. i - 1 : ~ Fits(b, n, j)

\* The inner loop of bm_alloc: how many blocks from i are free, up to n.
FreeRun(b, n, i) ==
    LET run[fblocks \in 0 .. n] ==
            IF fblocks < n /\ i + fblocks < TBlocks(b) /\ get_bm(b, i + fblocks) = 0
            THEN run[fblocks + 1]
            ELSE fblocks
    IN run[0]

\* The outer loop from block ffa, which jumps over a run it found too short:
\* the block to allocate, or NULL.
Scan(b, n) ==
    LET scan[i \in 0 .. TBlocks(b) + 1] ==
            IF i >= TBlocks(b) THEN NULL
            ELSE IF get_bm(b, i) # 0 THEN scan[i + 1]
            ELSE IF FreeRun(b, n, i) = n THEN i
            ELSE scan[i + FreeRun(b, n, i) + 1]
    IN scan[b.ffa]

\* The id of the new run; the neighbour above is looked at only when it is
\* below the last block.
NewId(b, n, i) ==
    bm_unique_id(IF i > 0 THEN get_bm(b, i - 1) ELSE 0,
                 IF i + n < TBlocks(b) - 1 THEN get_bm(b, i + n) ELSE 0)

\* Mutants of Mark: ffa moves past every new run; used counts a block too many;
\* the last block of the run is not marked.
MarkFfaAlways(b, n, i) ==
    [b EXCEPT !.ids = set_bm(@, i .. (i + n - 1), NewId(b, n, i)),
              !.ffa = i + n,
              !.used = @ + n]

MarkUsedMore(b, n, i) ==
    [b EXCEPT !.ids = set_bm(@, i .. (i + n - 1), NewId(b, n, i)),
              !.ffa = IF i = @ THEN i + n ELSE @,
              !.used = @ + n + 1]

MarkLess(b, n, i) ==
    [b EXCEPT !.ids = set_bm(@, i .. (i + n - 2), NewId(b, n, i)),
              !.ffa = IF i = @ THEN i + n ELSE @,
              !.used = @ + n]

\* The struct after a successful bm_alloc of n blocks at block i.
Mark(b, n, i) ==
    [b EXCEPT !.ids = set_bm(@, i .. (i + n - 1), NewId(b, n, i)),
              !.ffa = IF i = @ THEN i + n ELSE @,
              !.used = @ + n]

bm_alloc(b, size) ==
    LET n == DIV_CEIL(size, b.bsize) IN
    IF CanAlloc(b, n)
    THEN [ptr |-> FirstFit(b, n) * b.bsize, b |-> Mark(b, n, FirstFit(b, n))]
    ELSE [ptr |-> NULL, b |-> b]

-----------------------------------------------------------------------------
(* bm_free, bm_realloc *)

\* The range check both functions start with.
InRegion(b, ptr) == MetaBlocks(b) * b.bsize <= ptr /\ ptr < b.size

\* The blocks from s on whose get_bm value is that of s.  The bytes of the
\* region that do not fill a block have s = TBlocks(b) and no run.
Run(b, s) ==
    {j \in s .. TBlocks(b) - 1 :
        \A k \in s .. j : get_bm(b, k) = get_bm(b, s)}

\* [bytes: the value returned, b: the struct afterwards].  used is left alone.
bm_free(b, ptr) ==
    LET s == ptr \div b.bsize IN
    IF InRegion(b, ptr)
    THEN [bytes |-> Cardinality(Run(b, s)) * b.bsize,
          b |-> [b EXCEPT !.ids = set_bm(@, Run(b, s), 0),
                          !.ffa = IF s < @ THEN s ELSE @]]
    ELSE [bytes |-> 0, b |-> b]

\* The run of the old block is measured after the new one has been allocated
\* and copied whether or not there is a new one: page 0 is never mapped, so
\* the copy to NULL faults, and exception_handler halts the machine.
bm_realloc(b, ptr, size) ==
    LET new == bm_alloc(b, size)
        old == Run(new.b, ptr \div b.bsize) IN
    IF InRegion(b, ptr)
    THEN [ptr |-> new.ptr, b |-> bm_free(new.b, ptr).b,
          fault |-> new.ptr = NULL /\ old # {}]
    ELSE [ptr |-> NULL, b |-> b, fault |-> FALSE]
=============================================================================
