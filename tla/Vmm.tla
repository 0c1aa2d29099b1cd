--------------------------------- MODULE Vmm --------------------------------
(***************************************************************************)
(* A virtual memory manager (mem/vmm.c) as operators on a record           *)
(*    [bm, space, used]                                                    *)
(* bm is the region bitmap of vi->bm, with one block per page; space maps  *)
(* virtual pages to frames, 0 where nothing is mapped; used is the set of  *)
(* frames whose bit is set.  A user region starts at virtual page 1, where *)
(* its bit array lies, so block j is virtual page j + 1.                   *)
(***************************************************************************)
EXTENDS BitmapOps

CONSTANTS PageSize, VPages,   \* PAGE_SIZE, and init_vmm's max_pages
          NumFrames           \* frames 1 .. NumFrames; 0 is never free

ASSUME VmmAssumption ==
    /\ PageSize \in Nat \ {0} /\ VPages \in Nat \ {0} /\ NumFrames \in Nat

PageOf(ptr) == IF ptr = NULL THEN 0 ELSE ptr \div PageSize + 1

\* alloc_frame: the lowest free frame, 0 if there is none.
alloc_frame(used) ==
    LET free == (1 .. NumFrames) \ used
    IN IF free = {} THEN 0 ELSE CHOOSE f \in free : \A g \in free : f <= g

\* One turn of the loops of init_vmm and valloc.  map_addr returns at once if
\* the frame or the page is 0: the frame is taken all the same.
MapFresh(vm, page) ==
    LET f == alloc_frame(vm.used)
    IN [vm EXCEPT !.used = @ \cup {f},
                  !.space[page] = IF f = 0 \/ page = 0 THEN @ ELSE f]

\* A user space whose bit array holds the ids in garbage.
init_vmm(garbage) ==
    MapFresh([bm |-> init_bitmap(VPages * PageSize, PageSize, garbage),
              space |-> [p \in 0 .. VPages |-> 0], used |-> {0}], 1)

\* valloc of one page: [page: 0 when refused, vm].
valloc1(vm) ==
    LET a == bm_alloc(vm.bm, PageSize)
    IN [page |-> PageOf(a.ptr), vm |-> [MapFresh(vm, PageOf(a.ptr)) EXCEPT !.bm = a.b]]

\* valloc of two pages.  Refused, it maps the second frame at page 1, in the
\* place of the bit array.
valloc2(vm) ==
    LET a == bm_alloc(vm.bm, 2 * PageSize)
        p == PageOf(a.ptr)
    IN [page |-> p, vm |-> [MapFresh(MapFresh(vm, p), p + 1) EXCEPT !.bm = a.b]]

valloc(pages, vm) == IF pages = 1 THEN valloc1(vm) ELSE valloc2(vm)

\* Mutant of vfree: the frames of the pages are given back, and one more.
vfree_more(page, vm) ==
    LET f == bm_free(vm.bm, (page - 1) * PageSize)
        pages == page .. page + f.bytes \div PageSize
    IN [vm EXCEPT !.bm = f.b,
                  !.used = @ \ ({vm.space[p] : p \in pages \cap DOMAIN vm.space} \ {0})]

\* The frames of the pages that bm_free measured are given back; the pages
\* stay mapped.  Of a region of two pages only the first is measured.
vfree(page, vm) ==
    LET f == bm_free(vm.bm, (page - 1) * PageSize)
        pages == page .. page + f.bytes \div PageSize - 1
    IN [vm EXCEPT !.bm = f.b, !.used = @ \ ({vm.space[p] : p \in pages} \ {0})]
=============================================================================
