------------------------------- MODULE Frames -------------------------------
(***************************************************************************)
(* The physical frame allocator (mem/pmm.c): one bit per page of physical  *)
(* memory, set when the page may not be handed out.  init_pmm fills it and *)
(* clears the areas of the UEFI memory map that are free; init_acpi,       *)
(* map_framebuffer, init_lapic and start_aps set and clear bits of their   *)
(* own; everything else calls alloc_frame and gives frames back through    *)
(* pmm_clear_bit (vfree, free_page_table).  Addresses are page numbers.    *)
(*                                                                         *)
(* Only the boot processor calls these functions: none of them locks.      *)
(***************************************************************************)
EXTENDS Integers, Sequences

CONSTANTS MemPages,     \* KMEM.mem_pages, the end of the highest area
          RowBits,      \* BITMAP_ROW_BITS
          RowValues,    \* the values of the uint16_t that counts rows
          MemoryMaps,   \* the memory maps the firmware may pass
          Framebuffer,  \* the pages of KFB.buffer
          Lapic,        \* the page of KLAPIC.addr
          Trampoline,   \* page 0x8000, where the APs start
          CpuCounts     \* the numbers of CPUs the firmware may list

\* KMEM.bitmap_entries as ParseMMAP computes it, and the bits of those rows.
Entries == (MemPages + (RowBits - 1)) \div RowBits
Bits == 0 .. Entries * RowBits - 1

\* The pages of an mmap_desc_t.
Area(desc) == desc.start .. desc.start + desc.count - 1

\* The pages of the areas of some types.
PagesOf(m, types) == UNION {Area(m[i]) : i \in {j \in DOMAIN m : m[j].type \in types}}

\* Boot services code and data and conventional memory; ACPI reclaim memory.
FreeTypes == {3, 4, 7}
AcpiType == 9

\* The pages init_pmm frees.  It keeps the 32-bit type of an area in a uint8_t:
\* the types of OEMs and of OS loaders, from 0x70000000, lose their upper bytes.
Freed(m) ==
    UNION {Area(m[i]) : i \in {j \in DOMAIN m : m[j].type % 256 \in FreeTypes}}

\* A memory map lists disjoint areas below MemPages (UEFI, ParseMMAP), one of
\* which holds the ACPI tables; device pages are not declared free memory.
ASSUME FramesAssumption ==
    /\ MemPages \in Nat /\ RowBits \in Nat \ {0} /\ RowValues \in Nat \ {0}
    /\ CpuCounts \subseteq Nat \ {0}
    /\ Framebuffer \subseteq Nat /\ Lapic \in Nat \ {0} /\ Trampoline \in Nat \ {0}
    /\ Trampoline < MemPages

ASSUME MapAssumption ==
    \A m \in MemoryMaps :
        /\ m \in Seq([type : Nat, start : Nat, count : Nat])
        /\ \E i \in DOMAIN m : m[i].type = AcpiType
        /\ \A i \in DOMAIN m : m[i].start + m[i].count <= MemPages
        /\ \A i, j \in DOMAIN m : i # j => Area(m[i]) \cap Area(m[j]) = {}
        /\ \A f \in PagesOf(m, FreeTypes \cup {AcpiType}) :
               f \notin Framebuffer \cup {Lapic}

VARIABLES mmap,      \* KMEM.mmap
          used,      \* the bits that are set
          held,      \* the frames callers were given and have not given back
          phase,     \* how far init_kernel is
          spinning   \* pmm_request_frame counts its rows for ever

vars == <<mmap, used, held, phase, spinning>>

-----------------------------------------------------------------------------
(* The operations of pmm.c on the bits *)

\* Mutant of pmm_set_area: a bound one page higher.
SetAreaHigher(s, pages) == s \cup {p \in pages : p # 0 /\ ~ p > MemPages + 1}

pmm_set_bit(s, page) ==
    IF page = 0 \/ page > MemPages THEN s ELSE s \cup {page}

pmm_set_area(s, pages) == s \cup {p \in pages : p # 0 /\ ~ p > MemPages}

\* There is no upper bound here.
pmm_clear_bit(s, page) == IF page = 0 THEN s ELSE s \ {page}

pmm_clear_area(s, pages) == s \ {p \in pages : p # 0}

\* Mutant of init_pmm: the pages of the boot loader count as free.
InitFreesLoader(m) ==
    pmm_clear_area(pmm_set_bit(Bits, Trampoline), Freed(m) \cup PagesOf(m, {2}))

\* init_pmm: every bit is set, the one of the trampoline once more, and those
\* of free memory are cleared.
init_pmm(m) ==
    pmm_clear_area(pmm_set_bit(Bits, Trampoline), Freed(m))

\* The clear bits pmm_request_frame can come to: its row is a uint16_t.
Scanned(s) == {f \in Bits \ s : f \div RowBits < RowValues}

\* f is the first of them.
pmm_request_frame(s, f) ==
    f \in Scanned(s) /\ \A g \in Scanned(s) : f <= g

\* The row wraps before it reaches the number of rows.
RowWraps == Entries >= RowValues

-----------------------------------------------------------------------------

Init ==
    /\ mmap \in MemoryMaps
    /\ used = init_pmm(mmap)
    /\ held = {}
    /\ phase = "pmm"
    /\ spinning = FALSE

Runs == ~ spinning /\ phase # "waiting"

\* alloc_frame returns frame f.
Granted(f) ==
    /\ pmm_request_frame(used, f) /\ f > 0
    /\ used' = pmm_set_bit(used, f)
    /\ held' = held \cup {f}
    /\ UNCHANGED spinning

\* alloc_frame finds no clear bit: it returns NULL, or never.
Refused ==
    /\ Scanned(used) = {}
    /\ spinning' = RowWraps
    /\ UNCHANGED <<used, held>>

alloc_frame ==
    /\ Runs
    /\ (\E f \in Bits : Granted(f)) \/ Refused
    /\ UNCHANGED <<mmap, phase>>

\* Mutant of FreeFrame: the bit of a freed frame stays set.
FreeFrameMarked(f) ==
    /\ Runs
    /\ f \in held
    /\ held' = held \ {f}
    /\ UNCHANGED <<mmap, used, phase, spinning>>

\* vfree and free_page_table give a frame back.
FreeFrame(f) ==
    /\ Runs
    /\ f \in held
    /\ used' = pmm_clear_bit(used, f)
    /\ held' = held \ {f}
    /\ UNCHANGED <<mmap, phase, spinning>>

\* map_framebuffer: at boot and for every thread.
MapFramebuffer ==
    /\ Runs
    /\ used' = pmm_set_area(used, Framebuffer)
    /\ UNCHANGED <<mmap, held, phase, spinning>>

\* Mutant of AcpiArea: the search stops at the first area of any type.
FirstArea(i) == i = 1

\* The first area of the ACPI type.
AcpiArea(i) ==
    /\ mmap[i].type = AcpiType
    /\ \A j \in DOMAIN mmap : j < i => mmap[j].type # AcpiType

\* init_acpi: parse the tables and reclaim the area they are in, or give up on
\* a table with a wrong checksum.
init_acpi ==
    /\ Runs /\ phase = "pmm"
    /\ \/ \E i \in DOMAIN mmap :
              AcpiArea(i) /\ used' = pmm_clear_area(used, Area(mmap[i]))
       \/ used' = used
    /\ phase' = "acpi"
    /\ UNCHANGED <<mmap, held, spinning>>

\* init_lapic: the registers of the local APIC are no memory.
init_lapic ==
    /\ Runs /\ phase = "acpi"
    /\ used' = pmm_set_bit(used, Lapic)
    /\ phase' = "lapic"
    /\ UNCHANGED <<mmap, held, spinning>>

\* start_aps copies the trampoline to its page.  On one CPU it then releases
\* the page; on more it allocates the stack of the first AP and waits for
\* ever: nothing sets ap_boot->ready.
start_aps ==
    /\ Runs /\ phase = "lapic"
    /\ \/ /\ 1 \in CpuCounts
          /\ used' = pmm_clear_bit(used, Trampoline)
          /\ phase' = "smp"
          /\ UNCHANGED <<held, spinning>>
       \/ /\ \E n \in CpuCounts : n > 1
          /\ (\E f \in Bits : Granted(f)) \/ Refused
          /\ phase' = "waiting"
    /\ UNCHANGED mmap

\* The boot processor spins.
Spins == ~ Runs /\ UNCHANGED vars

Next ==
    \/ alloc_frame \/ \E f \in Bits : FreeFrame(f)
    \/ MapFramebuffer \/ init_acpi \/ init_lapic \/ start_aps
    \/ Spins

Spec == Init /\ [][Next]_vars

-----------------------------------------------------------------------------
(* Properties *)

\* The bits, the frames and the phase stay in range.
TypeOK ==
    /\ mmap \in MemoryMaps
    /\ used \subseteq Bits \cup {MemPages} /\ held \subseteq Bits
    /\ phase \in {"pmm", "acpi", "lapic", "smp", "waiting"}
    /\ spinning \in BOOLEAN

\* pmm_set_bit is given the addresses of devices, which may lie anywhere.  The
\* only bit it ever sets outside the rows of KMEM.bitmap is the one behind the
\* last page, which its test for the end lets through, for a device that is
\* there when memory fills its last row.
InsideBitmap == used \ Bits \subseteq {MemPages} \cap (Framebuffer \cup {Lapic})

\* The pages start_aps has released whether or not they were handed out.
Released == IF phase = "smp" THEN {Trampoline} ELSE {}

\* A frame somebody holds has its bit set, so alloc_frame never gives it to a
\* second caller, whatever areas were set and cleared in between.
NoFrameTwice == held \ Released \subseteq used

\* What may be handed out: the memory the firmware declared free and, once
\* init_acpi has parsed the tables, the memory they were in; never page 0.
Ram ==
    PagesOf(mmap, IF phase = "pmm" THEN FreeTypes ELSE FreeTypes \cup {AcpiType})
        \ {0}

\* What init_pmm takes for free memory because of the low byte of its type.
Mistaken ==
    {p \in Freed(mmap) : p # 0 /\ \E i \in DOMAIN mmap :
         mmap[i].type > 255 /\ p \in Area(mmap[i])}

\* alloc_frame hands out nothing else: no device, no page of the kernel image
\* or of the boot loader's page tables, none of the bits past the end, and of
\* the areas the firmware keeps only those whose type ends in that of a free
\* one.
OnlyFreeMemory == held \ Released \subseteq Ram \cup Mistaken

\* No frame is lost: the bit of every page of free memory is clear unless a
\* caller holds the page.  (A clear bit in a row that the uint16_t of
\* pmm_request_frame does not reach is never found.)
NoFrameLost == PagesOf(mmap, FreeTypes) \ {0} \subseteq held \cup (Bits \ used)

\* pmm.c sets the bit of the trampoline page with the comment "Need for SMP":
\* nobody holds the page when start_aps overwrites it.
TrampolineKept == phase \in {"pmm", "acpi", "lapic"} => Trampoline \notin held
=============================================================================
