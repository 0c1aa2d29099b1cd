------------------------------- MODULE Paging -------------------------------
(***************************************************************************)
(* Address spaces: the page tables of mem/pmm.c, the pages init_vmm and    *)
(* valloc map (mem/vmm.c), the tables of a new thread (scheduler/thread.c) *)
(* and the kernel's own, which the boot loader began (boot/mem.c).         *)
(*                                                                         *)
(* Page tables live in frames that are themselves read and written through *)
(* virtual addresses: map_addr takes the table in frame f to be mapped at  *)
(* address f of the space in CR3.  When it is not, the access faults, and  *)
(* the exception handler halts the machine, or goes astray.                *)
(*                                                                         *)
(* Addresses are page numbers.  Only the boot processor runs this code,    *)
(* before the timer is started.  A step is one level of map_addr, or one   *)
(* round of a loop that calls it.                                          *)
(***************************************************************************)
EXTENDS Integers, Sequences

CONSTANTS Fan,           \* entries of a table, 512 on x86-64
          MemPages,      \* KMEM.mem_pages
          FreeSets,      \* the free frames the firmware may report
          LoaderFrames,  \* frames the boot loader's tables are taken from
          Kernel,        \* the kernel_entry_t of the image, [paddr, vaddr, num_pages]
          Stack,         \* frame of the boot processor's stack
          PmmBitmap,     \* frame of KMEM.bitmap
          Framebuffer,   \* pages of the framebuffer, [start, count]
          Lapic, IoApic, \* pages of their registers
          Trampoline,    \* page 0x8000
          VmmPages,      \* frames init_vmm(Supervisor) maps for its bitmap
          VmmFirst,      \* the first block of that bitmap bm_alloc hands out
          MaxThreads     \* bound: threads created

Limit == Fan * (Fan * (Fan * Fan))
Half == Limit \div 2

\* HIGHER_HALF_OFFSET is the upper half of the address space.
VADDR(page) == Half + page

\* The frames map_kernel_entries and map_framebuffer open to user code.
Opened ==
    (Kernel.paddr .. Kernel.paddr + Kernel.num_pages - 1)
        \cup (Framebuffer.start .. Framebuffer.start + Framebuffer.count - 1)

\* The bitmap of the kernel's pages has at least two pages of its own: there
\* are more than 16 MB of memory.
ASSUME PagingAssumption ==
    /\ Fan \in Nat \ {0, 1} /\ MemPages \in Nat \ {0} /\ MemPages < Half
    /\ \A s \in FreeSets \cup {LoaderFrames} :
           s \subseteq 1 .. MemPages - 1 /\ s \cap Opened = {}
    /\ \A s \in FreeSets : s \cap (LoaderFrames \cup {Stack, PmmBitmap}) = {}
    /\ Kernel \in [paddr : Nat \ {0}, vaddr : Half .. Limit - 1, num_pages : Nat]
    /\ Kernel.vaddr + Kernel.num_pages <= Limit
    /\ Framebuffer \in [start : Nat \ {0}, count : Nat]
    /\ Framebuffer.start + Framebuffer.count <= Limit
    /\ Stack \in 1 .. MemPages - 1 /\ PmmBitmap \in 1 .. MemPages - 1
    /\ {Lapic, IoApic, Trampoline} \subseteq 1 .. Limit - 1
    /\ VmmPages \in 2 .. Half /\ VmmFirst \in 1 .. VmmPages - 1
    /\ MaxThreads \in Nat

VARIABLES mem,      \* the tables, [frame -> [index -> entry]], present entries only
          used,     \* frames whose bit is set
          cr3,      \* the space the CPU is in; 0 under the firmware, which maps all
          stray,    \* a table was accessed at an address it is not mapped at
          calls,    \* the calls of map_addr under way, innermost first
          todo,     \* what the current callers of map_addr have yet to do
          asked,    \* what each space was asked to map, [p4_tbl -> [page -> frame]]
          kernel,   \* KMEM.pml4
          threads,  \* the p4_tbl of each thread, idle first
          free,     \* the frames that were free at boot
          x2mode,   \* KLAPIC.x2mode
          phase     \* the next call of efi_main and init_kernel

paging_vars == <<mem, used, cr3, stray, calls, todo, asked, kernel, threads, free, x2mode, phase>>

Spaces == DOMAIN asked

None == [x \in {} |-> x]

\* f with x mapped to y.
Put(f, x, y) == [z \in DOMAIN f \cup {x} |-> IF z = x THEN y ELSE f[z]]

-----------------------------------------------------------------------------
(* pmm.c *)

\* A page's number shifted right until the index of a level is at its end.
Above(page, level) ==
    LET p2 == page \div Fan
        p3 == p2 \div Fan
    IN IF level = 1 THEN page ELSE IF level = 2 THEN p2
       ELSE IF level = 3 THEN p3 ELSE p3 \div Fan

\* Mutant of Entry: the address is shifted by one bit too many.
EntryShifted(page, level) == Above(page \div 2, level) % Fan

\* P4_ENTRY to P1_ENTRY.
Entry(page, level) == Above(page, level) % Fan

\* What the entry for a page leads to in the table in frame t, 0 if it is absent.
Child(m, t, page, level) ==
    IF t \in DOMAIN m /\ Entry(page, level) \in DOMAIN m[t]
    THEN m[t][Entry(page, level)].frame ELSE 0

\* The table of a level on the way to a page, 0 if it is missing.
TableFor(m, p4_tbl, page, level) ==
    LET p3_tbl == Child(m, p4_tbl, page, 4)
        p2_tbl == Child(m, p3_tbl, page, 3)
    IN IF level = 4 THEN p4_tbl ELSE IF level = 3 THEN p3_tbl
       ELSE IF level = 2 THEN p2_tbl ELSE Child(m, p2_tbl, page, 2)

\* 0 for a page that is not mapped.
translate_addr(m, p4_tbl, page) == Child(m, TableFor(m, p4_tbl, page, 1), page, 1)

\* The table in frame t can be accessed at address t.
Accessible(m, t) == t # 0 /\ (cr3 = 0 \/ translate_addr(m, cr3, t) = t)

FreeFrames == (1 .. MemPages - 1) \ used

\* The lowest free frame, 0 if there is none.
Lowest ==
    IF FreeFrames = {} THEN 0
    ELSE CHOOSE f \in FreeFrames : \A g \in FreeFrames : f <= g

\* alloc_frame returns Lowest.
alloc_frame == used' = used \cup ({Lowest} \ {0})

\* The table in frame t with an entry set.
SetEntry(t, i, frame, user) ==
    Put(mem, t, Put(mem[t], i, [frame |-> frame, user |-> user]))

\* A call of map_addr about to look into its P4.
Call(phys, page, user, p4_tbl) ==
    [phys |-> phys, page |-> page, user |-> user, space |-> p4_tbl,
     table |-> p4_tbl, level |-> 4]

Astray ==
    /\ stray' = TRUE
    /\ UNCHANGED <<mem, used, cr3, calls, todo, asked, kernel, threads, free, x2mode, phase>>

callers == <<cr3, todo, asked, kernel, threads, free, x2mode, phase>>

\* The entry is there: on to the next table.
Descend ==
    LET c == Head(calls)
        i == Entry(c.page, c.level)
    IN /\ c.level > 1 /\ i \in DOMAIN mem[c.table]
       /\ calls' = <<[c EXCEPT !.table = mem[c.table][i].frame, !.level = @ - 1]>>
                       \o Tail(calls)
       /\ UNCHANGED <<mem, used, stray, callers>>

\* A missing table: allocated, linked, cleaned (clean_table) and then mapped at
\* its own address, which may take further tables.
AddTable ==
    LET c == Head(calls)
        f == Lowest
        linked == SetEntry(c.table, Entry(c.page, c.level), f, TRUE)
    IN /\ c.level > 1 /\ Entry(c.page, c.level) \notin DOMAIN mem[c.table]
       /\ IF Accessible(linked, f)
          THEN /\ alloc_frame
               /\ mem' = Put(linked, f, None)
               /\ calls' = <<Call(f, f, FALSE, c.space)>> \o calls
               /\ UNCHANGED <<stray, callers>>
          ELSE Astray

SetLeaf ==
    LET c == Head(calls) IN
    /\ c.level = 1
    /\ mem' = SetEntry(c.table, Entry(c.page, 1), c.phys, c.user)
    /\ calls' = Tail(calls)
    /\ UNCHANGED <<used, stray, callers>>

\* Each level of map_addr looks at a table where it expects it.
map_addr ==
    /\ ~ stray /\ calls # <<>>
    /\ IF Accessible(mem, Head(calls).table)
       THEN Descend \/ AddTable \/ SetLeaf
       ELSE Astray

-----------------------------------------------------------------------------
(* The loops that call it *)

Op(op, phys, page, count, user, p4_tbl) ==
    [op |-> op, phys |-> phys, page |-> page, count |-> count, user |-> user,
     space |-> p4_tbl]

\* A loop over count pages, which is nothing when there are none.
Loop(op, phys, page, count, user, p4_tbl) ==
    IF count = 0 THEN <<>> ELSE <<Op(op, phys, page, count, user, p4_tbl)>>

map_range(phys, page, num_pages, user, p4_tbl) ==
    Loop("map", phys, page, num_pages, user, p4_tbl)

Map(phys, page, user, p4_tbl) == map_range(phys, page, 1, user, p4_tbl)

\* The loops of init_vmm and, on the pages bm_alloc has placed, of valloc.
valloc(page, pages, user, p4_tbl) == Loop("valloc", 0, page, pages, user, p4_tbl)

load_cr3(p4_tbl) == <<Op("load", 0, 0, 1, FALSE, p4_tbl)>>

\* map_kernel_entries; in the loader, the mappings of LoadSegment.
MapImage(user, p4_tbl) ==
    map_range(Kernel.paddr, Kernel.vaddr, Kernel.num_pages, user, p4_tbl)

map_framebuffer(user, p4_tbl) ==
    map_range(Framebuffer.start, Framebuffer.start, Framebuffer.count, user, p4_tbl)

\* Nothing in x2APIC mode.
map_lapic(p4_tbl) == IF x2mode THEN <<>> ELSE Map(Lapic, Lapic, FALSE, p4_tbl)

\* The one page of KHEAP, which map_heap maps as the kernel has it mapped.
HeapPage == VADDR(VmmFirst)

map_heap(p4_tbl) == <<Op("heap", 0, HeapPage, 1, FALSE, p4_tbl)>>

\* What is left when the first operation has done a round.
Rest ==
    LET op == Head(todo)
        next == [op EXCEPT !.phys = @ + 1, !.page = @ + 1, !.count = @ - 1]
    IN IF op.count = 1 THEN Tail(todo) ELSE <<next>> \o Tail(todo)

Ready == ~ stray /\ calls = <<>> /\ todo # <<>>

\* A call of map_addr, which returns at once when an address is 0.
Ask(phys, op) ==
    IF phys = 0 \/ op.page = 0 THEN UNCHANGED <<calls, asked>>
    ELSE /\ calls' = <<Call(phys, op.page, op.user, op.space)>>
         /\ asked' = [asked EXCEPT ![op.space] = Put(@, op.page, phys)]

others == <<mem, stray, kernel, threads, free, x2mode, phase>>

MapPage ==
    /\ Ready /\ Head(todo).op = "map" /\ Ask(Head(todo).phys, Head(todo)) /\ todo' = Rest
    /\ UNCHANGED <<used, cr3, others>>

CopyPage ==
    /\ Ready /\ Head(todo).op = "heap"
    /\ Ask(translate_addr(mem, kernel, HeapPage), Head(todo)) /\ todo' = Rest
    /\ UNCHANGED <<used, cr3, others>>

LoadCr3 ==
    /\ Ready /\ Head(todo).op = "load" /\ cr3' = Head(todo).space /\ todo' = Rest
    /\ UNCHANGED <<used, calls, asked, others>>

\* Mutant of VallocPage: the bit of the frame is not set.
VallocUnmarked ==
    /\ Ready /\ Head(todo).op = "valloc"
    /\ IF Lowest = 0 THEN Astray
       ELSE /\ Ask(Lowest, Head(todo)) /\ todo' = Rest
            /\ UNCHANGED <<used, cr3, others>>

\* A page of valloc: a fresh frame.  Without one nothing is mapped, and the
\* caller's first access to the page faults.
VallocPage ==
    /\ Ready /\ Head(todo).op = "valloc"
    /\ IF Lowest = 0 THEN Astray
       ELSE /\ alloc_frame /\ Ask(Lowest, Head(todo)) /\ todo' = Rest
            /\ UNCHANGED <<cr3, others>>

-----------------------------------------------------------------------------
(* The boot loader and init_kernel *)

\* Mutant of Regions: the stack at an address where the frames of tables are.
RegionsHigher(p4_tbl) ==
    valloc(1, 1, TRUE, p4_tbl) \o valloc(2, 1, TRUE, p4_tbl)
        \o valloc(13, 1, TRUE, p4_tbl)

\* The bitmap of a thread's vmm at page 1, its heap and its stack on the two
\* pages behind it.
Regions(p4_tbl) ==
    valloc(1, 1, TRUE, p4_tbl) \o valloc(2, 1, TRUE, p4_tbl)
        \o valloc(3, 1, TRUE, p4_tbl)

\* Mutant of init_thread_vmm: the new P4 is not mapped at its own address.
InitThreadNoSelf(p4_tbl) ==
    Map(Stack, VADDR(Stack), FALSE, p4_tbl)
        \o load_cr3(p4_tbl) \o Regions(p4_tbl) \o load_cr3(kernel)

\* The mappings of init_thread_vmm up to its load_cr3 are made in the kernel's
\* space, the others in the thread's own.  map_pmm takes bitmap_size, which
\* counts pages, for bytes, and so maps one page.
init_thread_vmm(p4_tbl) ==
    Map(p4_tbl, p4_tbl, FALSE, p4_tbl) \o Map(Stack, VADDR(Stack), FALSE, p4_tbl)
        \o MapImage(TRUE, p4_tbl) \o map_framebuffer(TRUE, p4_tbl)
        \o map_lapic(p4_tbl) \o map_heap(p4_tbl)
        \o Map(PmmBitmap, PmmBitmap, FALSE, p4_tbl)
        \o load_cr3(p4_tbl) \o Regions(p4_tbl) \o load_cr3(kernel)

\* The loader maps its P4, the kernel image, the stack and all of memory but
\* page 0, at the address it has.
ConfigurePaging(p4_tbl) ==
    Map(p4_tbl, p4_tbl, FALSE, p4_tbl) \o MapImage(FALSE, p4_tbl)
        \o Map(Stack, VADDR(Stack), FALSE, p4_tbl)
        \o map_range(1, 1, MemPages - 1, FALSE, p4_tbl)

PagingInit ==
    /\ mem = None /\ used = (1 .. MemPages - 1) \ LoaderFrames /\ cr3 = 0
    /\ stray = FALSE /\ calls = <<>> /\ todo = <<>> /\ asked = None
    /\ kernel = 0 /\ threads = <<>> /\ free = {} /\ x2mode = FALSE
    /\ phase = "loader"

Idle == ~ stray /\ calls = <<>> /\ todo = <<>>

\* The next call, whose work is ops.
Start(now, next, ops) ==
    /\ Idle /\ phase = now /\ phase' = next /\ todo' = ops
    /\ UNCHANGED <<stray, calls>>

\* A new space in the lowest free frame.
NewSpace ==
    /\ alloc_frame
    /\ mem' = Put(mem, Lowest, None) /\ asked' = Put(asked, Lowest, None)

\* efi_main: AllocTable takes frames from the firmware, and MapAddr is
\* map_addr in other words.
efi_main ==
    /\ Lowest # 0 /\ Start("loader", "pmm", ConfigurePaging(Lowest)) /\ NewSpace
    /\ kernel' = Lowest
    /\ UNCHANGED <<cr3, threads, free, x2mode>>

\* Mutant of init_pmm: it takes the memory of the loader for free.
InitFreesLoader ==
    /\ Start("pmm", "framebuffer", <<>>)
    /\ free' \in {s \cup LoaderFrames : s \in FreeSets}
    /\ used' = (1 .. MemPages - 1) \ free'
    /\ cr3' = kernel /\ x2mode' \in BOOLEAN
    /\ UNCHANGED <<mem, asked, kernel, threads>>

\* The loader's tables are in use, and what the memory map says is free, is.
init_pmm ==
    /\ Start("pmm", "framebuffer", <<>>)
    /\ free' \in FreeSets
    /\ used' = (1 .. MemPages - 1) \ free'
    /\ cr3' = kernel /\ x2mode' \in BOOLEAN
    /\ UNCHANGED <<mem, asked, kernel, threads>>

memory == <<mem, used, cr3, asked, kernel, threads, free, x2mode>>

init_framebuffer ==
    Start("framebuffer", "vmm", map_framebuffer(FALSE, kernel)) /\ UNCHANGED memory

InitKernelVmm ==
    Start("vmm", "heap", valloc(VADDR(0), VmmPages, FALSE, kernel)) /\ UNCHANGED memory

\* heap_add: the page it gets is one init_vmm has mapped already.
AddKernelHeap ==
    Start("heap", "lapic", valloc(HeapPage, 1, FALSE, kernel)) /\ UNCHANGED memory

init_lapic == Start("lapic", "ioapic", map_lapic(kernel)) /\ UNCHANGED memory

init_ioapic ==
    Start("ioapic", "threads", Map(IoApic, IoApic, FALSE, kernel)) /\ UNCHANGED memory

\* The idle thread, and those init_kernel may create after it.
create_thread ==
    /\ Idle /\ phase = "threads" /\ Len(threads) < MaxThreads
    /\ IF Accessible(mem, Lowest)
       THEN /\ Start("threads", "threads", init_thread_vmm(Lowest)) /\ NewSpace
            /\ threads' = Append(threads, Lowest)
            /\ UNCHANGED <<cr3, kernel, free, x2mode>>
       ELSE Astray

start_aps ==
    /\ threads # <<>>
    /\ Start("threads", "stack", Map(Trampoline, Trampoline, FALSE, kernel))
    /\ UNCHANGED memory

\* The first AP's stack goes into the kernel's and into the idle thread's
\* space; then start_aps waits for the AP.
AddApStack ==
    /\ Idle /\ phase = "stack"
    /\ IF Lowest = 0 THEN Astray
       ELSE /\ Start("stack", "waiting", Map(Lowest, VADDR(Lowest), FALSE, threads[1])
                                             \o Map(Lowest, Lowest, FALSE, kernel))
            /\ alloc_frame
            /\ UNCHANGED <<mem, cr3, asked, kernel, threads, free, x2mode>>

\* init_kernel spins, start_aps waits, or the machine is halted.
Stop ==
    /\ stray \/ (Idle /\ (phase = "waiting" \/ Len(threads) = MaxThreads))
    /\ UNCHANGED paging_vars

PagingNext ==
    \/ map_addr \/ MapPage \/ CopyPage \/ LoadCr3 \/ VallocPage
    \/ efi_main \/ init_pmm \/ init_framebuffer \/ InitKernelVmm \/ AddKernelHeap
    \/ init_lapic \/ init_ioapic \/ create_thread \/ start_aps \/ AddApStack \/ Stop

PagingSpec == PagingInit /\ [][PagingNext]_paging_vars

-----------------------------------------------------------------------------
(* Properties, of the states between two calls of efi_main and init_kernel *)

\* The links out of a set of tables, and the tables they lead to.
Links(ts) == {l \in ts \X (0 .. Fan - 1) : l[2] \in DOMAIN mem[l[1]]}
Below(ts) == {mem[l[1]][l[2]].frame : l \in Links(ts)}

\* The tables of a space, but the lowest level and with it.
Upper(space) == {space} \cup Below({space}) \cup Below(Below({space}))
Tables(space) == Upper(space) \cup Below(Below(Below({space})))

\* Every page a space was asked to map leads to the frame it was last asked
\* for: neither the tables map_addr adds and maps at their own addresses nor
\* the mappings of other spaces get in the way.
SpacesFaithful ==
    Idle => \A s \in Spaces : \A page \in DOMAIN asked[s] :
        translate_addr(mem, s, page) = asked[s][page]

\* Every table of a space is mapped in that space at the address map_addr will
\* look for it.
TablesReachable ==
    Idle => \A s \in Spaces : \A t \in Tables(s) : translate_addr(mem, s, t) = t

\* No table is part of two spaces or used twice in one, and the bits of all of
\* them are set.
TablesOwned ==
    Idle => \A s \in Spaces :
        /\ Tables(s) \subseteq used
        /\ \A k, l \in Links(Upper(s)) :
               mem[k[1]][k[2]].frame = mem[l[1]][l[2]].frame => k = l
        /\ \A r \in Spaces \ {s} : Tables(s) \cap Tables(r) = {}

\* User code cannot write a page table: no page of a thread's space that user
\* code may access leads to a table of any space.
UserKeptFromTables ==
    Idle => \A n \in 1 .. Len(threads) : \A page \in DOMAIN asked[threads[n]] :
        LET e == mem[TableFor(mem, threads[n], page, 1)][Entry(page, 1)]
        IN e.user => \A s \in Spaces : e.frame \notin Tables(s)

\* map_addr reaches every table it needs as long as there are free frames in the
\* first Fan pages, although init_thread_vmm calls it in a space that maps
\* little more than its own tables.
LowMemorySuffices == stray => free \cap (1 .. Fan - 1) \subseteq used
=============================================================================
