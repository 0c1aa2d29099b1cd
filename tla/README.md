# A verification project for pivot-os

pivot-os is a small x86-64 kernel in C, with its own UEFI boot loader. This
directory holds TLA+ modules that model its loader, memory management,
scheduler, console, interrupt set-up, keyboard and processor start-up, TLC
configurations that check them on small instances, and proofs, checked by TLAPS,
of what holds for every size.

The repository has no documents and no tests: what the code promises is said by
its comments, its log messages and its headers. Paths below are relative to the
root of the repository.

## The system

| Part | State | Operations | Modelled in |
|---|---|---|---|
| Boot loader (`src/boot`) | page tables, memory map, `kernel_info_t` | `MapAddr`, `GetMMAP`, `ParseMMAP`, `LoadKernel` | `Loader`, start of `Paging` |
| Region bitmap (`mem/bitmap.c`) | `bitmap_t`: 2-bit id per block, `used`, `ffa` | `init_bitmap`, `bm_alloc`, `bm_free`, `bm_realloc` | `BitmapOps`, `Bitmap` |
| Heap (`mem/heap.c`) | list of regions | `heap_add`, `halloc`, `hfree`, `hrealloc`, `map_heap` | `Heap`, `Paging` |
| Frame allocator (`mem/pmm.c`) | one bit per page of memory | `init_pmm`, `alloc_frame`, `pmm_set_*`, `pmm_clear_*` | `Frames` |
| Page tables (`mem/pmm.c`) | tables in frames | `map_addr`, `translate_addr`, `map_range` | `Paging` |
| Virtual memory (`mem/vmm.c`) | a region bitmap per space | `init_vmm`, `valloc`, `vfree` | `Vmm`, used by `Heap`; `Paging` |
| Scheduler (`scheduler/`) | ready list and wakeup list per CPU, threads | `schedule`, list functions, sleep, yield, exit | `Scheduler` |
| Console (`kernel/logging.c`, `io/stdio.c`) | two spin locks, one line buffer | `log`, `printf`, `vprintf`, `flush_screen` | `Console` |
| AP start-up (`cpu/smp.c`, `ap.c`, `cpu/ap_trampoline.asm`) | boot page, IPIs, the APs' page tables and stacks | `start_aps`, `start_ap`, the trampoline | `SmpBoot` |
| Timers (`cpu/lapic.c`) | periodic and one-shot timer per CPU | handlers, `delay`, `calibrate_apic_timer` | `Interrupts`, `Scheduler`, `SmpBoot`, `Console` |
| ACPI tables, IO APIC (`acpi/`, `cpu/ioapic.c`) | addresses, overrides, redirection entries | `init_acpi`, `parse_madt`, `set_irq`, `set_irq_mask` | `Interrupts`, `Frames` |
| Keyboard (`drivers/keyboard.c`) | modifiers, prefix flag | `init_keyboard`, `keyboard_handler` | `Keyboard` |
| Text screen (`drivers/framebuffer.c`) | cursor, pixels | `fb_print_char`, `clear_screen` | `Screen` |
| Real-time clock (`kernel/rtc.c`) | `global_time` | `rtc_handler`, `get_dow` | `Rtc` |
| Serial port, port I/O, progress bar, libc | - | - | not modelled, see below |

How they interact. The loader builds the kernel's page tables, maps all memory
at its own address, and passes the memory map. `init_kernel` then runs on the
boot processor alone: `init_pmm` turns the map into frame bits; `init_vmm` and
`heap_add` take frames and map them; `init_acpi` frees the memory of the ACPI
tables; `create_thread` builds an address space; `start_aps` starts the other
processors through a shared page at 0x8000 and IPIs. From then on timers
interrupt every CPU; the handler calls `schedule`, which logs. Nothing in the
memory code locks: it relies on running on one CPU. The console has two locks.

What is hard here, and hardly reached by a test: pointers freed twice or freed
into the wrong region; cached values that two functions move by different rules
(`ffa`, `used`); bits set and cleared by six functions in the order of boot;
page tables read through the mappings they define; ticks inside system calls
that leave interrupts enabled; one `next` pointer for two lists; threads woken to
the front of a list while others wait at its end; handlers that
log on top of code that logs; IPIs that arrive during a reset; a stack mapped in
one page table and used under another; a memory map that changes while it is being mapped;
waits without a limit for a device; key codes split over two interrupts; integers
of 8 and 16 bits. `PROJECT.json` lists each
of these hazards at its line, with the properties that would catch it.

## Modules

**BitmapOps** has the functions of `bitmap.c` as operators on a record, among
them two peculiarities. `set_bm` only ors, so a block that was marked never
becomes free again. `get_bm` masks a field without shifting it, so the ids of
two blocks can differ although their bits agree. The scan of `bm_alloc` is
stated as the first run that fits (`FirstFit`); `Scan` is the loop itself, with its
jump over a run that is too short, as a recursive function, and the two are
proved to agree.

**Bitmap** is one region and its callers, who may pass any pointer to `bm_free`
and `bm_realloc`. `b` is the `bitmap_t`, `live` what callers hold. A refused
`bm_realloc` copies to address 0, which faults: `halted`. **RegionAllocator** is
the abstract specification (allocate blocks nobody has, give back, move), and
`ImplementsAllocator` says that Bitmap implements it.

**Vmm** has the functions of `vmm.c` as operators on a user address space: its
region bitmap, its mappings and the frames taken. A refused `valloc` takes frames
all the same, and for more than one page maps them over the bit array of the
space. **Heap** is a list of regions in pages from `valloc`, with the loops of
`heap.c` (`hfree` and `hrealloc` look into the head region on every turn; callers
pass them what they hold or any other pointer), next
to the stacks of the same space, which come and go through `valloc` and `vfree`.
It composes `BitmapOps` twice: blocks in a region, and pages in a space. A space
without a frame for its first region faults at once (`halted`).

**Loader** is `efi_main`. `pc` is its next stage; a stage that maps something
leaves `MapAddr` calls in `work`, among them those by which a new table maps
itself, so the recursion is explicit. The firmware (external) allocates at the
top or at the bottom of memory, may refuse, and may take pages for itself between
two steps, which makes the key of the memory map stale (`fresh`). `kmap` is the
map last read: the kernel gets the second one, and everything was mapped by the
first. Calls whose status the code ignores set `dropped`.

**Interrupts** follows the boot processor from `init_acpi` to the end of
`calibrate_apic_timer`, with the redirection entries of the IO APIC and a PIT that
is wired as the firmware says. The kernel does not mask the entries it does not
use, so they start as the firmware left them, and a device on an unmasked pin may
interrupt at any time. The counters of `get_madt_item` are a `uint8_t`
(`CountValues`): a MADT with that many items of a type is counted for ever. **Screen** has the cursor of the text screen and
the cells that show something; **Keyboard** prints on it what a keyboard sends,
byte by byte and interrupt by interrupt. `held` and `owed` are what the hands of
the user did, against which the driver is compared.

**Frames** is the frame bitmap and everybody who sets or clears its bits, in the
order of `init_kernel` (`phase`). `held` is what callers of `alloc_frame` have
and have not given back. Types are 32-bit numbers of which `init_pmm` looks at the
low byte (`Freed`), so it frees areas of some OEM types (`Mistaken`). Devices may be
anywhere, at page `mem_pages` too, whose bit `pmm_set_bit` sets although it may lie
behind the last row. `spinning` is the endless search of
`pmm_request_frame`, whose row counter is a `uint16_t`.

**Paging** is the address spaces, from `efi_main`, which makes the kernel's, to
`start_aps`: tables of four levels with their entries, `CR3`, and `stray`, set
when `map_addr` accesses a table at an address where the current space does not
map it. A step is one level of a call of `map_addr`: `calls` are the calls under
way, since a table that is added is mapped at its own address by a call inside
the call. `todo` is what the callers have left, loop by loop (`map_range`, the
pages of `valloc`, `map_heap`, `load_cr3`). `asked` records what each space was
asked to map. The number of entries per table and the size of memory are
constants. The loader's `MapAddr` is `map_addr` with the firmware's allocator, and
is treated as such.

**Scheduler** has the fields of `cpu_data_t` and `thread_t` in `k`, with the
linked lists as pointers. `running` is the context each CPU executes, `at` how
far each thread is in a system call. A tick can come anywhere, also before, between
and after the two assignments of `thread_sleep_syscall`, because its gate is a trap
gate. Threads may go to sleep for ever and ever: times are only compared with each
other, so that once `MaxTicks` ticks are counted the wakeup times move down instead
of the clock up (`CountTick`). A thread switched away from inside a system call leaves its frames on the kernel
stack that the next entry reuses (`torn`); when it is resumed nothing is known
of the machine (`wild`).

**Console** has `log` step by step on several CPUs, each with a base context and
an interrupt context on top of it. **SmpBoot** has `start_aps`, the IPIs and the
trampoline up to its jump to `ap_start`, with what the two page tables map that
matter: the kernel's, which an AP runs on, and that of the idle thread. Nothing
bounds how long an IPI or a reset takes. **Rtc** has the decoding of the date and `get_dow`
with its 8-bit sum, against a clock that counts days.

Definitions called "Mutant of ..." stand in front of the definition they vary.
They are not used by any specification: each is a plausible bug, and replacing
the definition by it makes a property fail.

## Runs

| Run | Result | Checks |
|---|---|---|
| `bitmap` | pass | no block handed out twice, `used` bounded, the scan misses nothing and equals its reference, freeing stays inside the region, refinement of RegionAllocator |
| `heap` | pass | callers never share a byte, over one region and two, whatever pointers they free and reallocate; every page of a heap region or stack keeps a frame of its own, though vallocs are refused and stacks freed |
| `frames` | pass | frames are exclusive and never lost; they come from free memory, and else only from areas whose truncated type says so; device addresses overrun the bitmap by one bit at most; on one CPU and on more |
| `frames_trampoline` | violation | the page reserved "for SMP" is freed again by `init_pmm` and can be handed out |
| `paging` | pass | spaces map what they were asked to; tables are owned, reachable and kept from user code; `map_addr` faults only when low memory is used up |
| `scheduler` | pass | lists stay intact, no thread is lost, contexts go to their owner, the dead stay dead, nobody wakes early; sleepers run, and ready threads do unless others keep going to sleep |
| `console` | pass | lines are not mixed, the buffer is bounded, no handler spins on a lock held below it, the log lock is released |
| `smp_boot` | violation | the trampoline sets the stack of an AP "to higher half", where the page tables it runs on do not map the stack |
| `loader` | pass | tables map themselves, the kernel finds mapped what it is told of and nothing it uses is free in the map it gets; the loader ends, and enters the kernel unless something failed |
| `keyboard` | pass | modifiers follow the keys, each key prints once and with the right shift, text is never overwritten |
| `interrupts` | pass | the kernel unmasks only a routed pin with a handler, and the wait for the PIT ends on every board whose tables are intact, unless an entry the firmware left unmasked brings an unknown interrupt |
| `rtc_weekday` | violation | from 31 January 2017 the weekday is wrong: day plus year overflows 8 bits |

### Bounds

* `bitmap`: 6 blocks and an odd byte, of which one is the bit array: two regions
  with a gap, a full region, a run that ends at the last block. Pointers include
  one below, one inside a block, one behind the last block and one past the end.
* `heap`: up to two regions of 4 blocks (the second is what makes head and tail
  differ), in a space of 4 pages with 4 frames: pages run out with frames left, since
  no page of a region bitmap becomes free again, and refused requests then take the
  frames. Leftover ids are left to the `bitmap` run. Stacks of one page, as in the code, and of two. Stray
  pointers to the first and into the last block of each region, and to no region.
* `loader`: two layouts, one with memory to spare and one that runs out; tables
  cover 8 pages, so that the identity mapping, the higher half and the image each
  need several; two segments, one of two pages; one page taken by the firmware at
  any time. One level of tables stands for four: a deeper walk repeats the step
  "link, then map at its own address".
* `keyboard`: a letter, backspace, tab, enter, both shifts, both control keys and
  a key behind the end of the tables; two bytes in the controller, enough for a
  prefix and its code or for a shift and a letter; a screen of 3 by 2, on which a
  tab wraps and clears.
* `interrupts`: six lists of tables and seven MADTs: the PIT at its own pin, at pin
  2, at the last one and overridden twice, no IO APIC, more CPUs than the heap
  holds, more than the counter can count (it has 5 values, for 256). Four
  redirection tables: all masked; the PIT's usual pin or another one left unmasked,
  with a vector that has no handler, that gets one, or that is the PIT's own. Two
  ticks stand for 500.
* `frames`: three rows of four bits, all of them memory, and a row counter with two
  values: the third row is out of reach, and the search for a frame in it never
  ends. Three memory maps: page 0 free and the trampoline page free, with an area
  of OEM type 0x70000007; the trampoline page reserved, with free memory in the last
  row; two ACPI areas around free ones. The framebuffer covers the last page of
  the bitmap, the one right behind it and one more; the APIC is far above.
* `paging`: tables of 32 entries, 96 pages, 60 layouts of free memory, with and
  without x2APIC, up to three threads. The region one lowest-level table covers
  is 32 pages (512 on the machine): two threads fit into it and the third does not, which is
  the interesting case. Small layouts run out of frames in every phase.
* `scheduler`: three threads (a list with a middle), sleeps of 1 and 2 ticks,
  quantum 1, two ticks counted before times move down, so that nothing stops a
  thread from sleeping again. A time that is more than two ticks in the past stays
  there. `num_threads` is not counted: with one CPU nothing depends on it.
* `console`: two APs and the boot processor, two log calls each before the
  timer, messages of two pieces.
* `smp_boot`: two APs, three free frames, the first 5 pages of the higher half in use
  by the kernel. At this commit the second AP is never started.

### Fairness

* Scheduler: a timer that was started keeps ticking, and kernel code that was
  entered runs to its end (weak fairness of `StartTimer`, `Tick` and `Kernel`).
  Nothing is assumed of the threads.
* Console: a context that executes goes on (weak fairness of its steps). No
  context is promised a lock that others keep taking, and none of the properties
  says that everyone gets it.
* Loader: the processor executes `efi_main` (weak fairness of `Next`; the firmware
  takes pages for itself only a bounded number of times).
* Interrupts: the processor executes, the PIT raises its line, a pending
  interrupt is delivered (weak fairness of each; none for other devices).

The violation runs need none: their counterexamples are finite.

## Proofs

The modules named `...Proofs` prove, for every value of the constants that the
named assumptions allow, every safety property of the passing runs: 30 in all,
among them the refinement of RegionAllocator and three action properties.

| Module | Theorems | Hypotheses besides the assumptions on the constants |
|---|---|---|
| `BitmapProofs` | `RegionsDisjoint`, `UsedIsBounded`, `ScanIsComplete`, `ScanFindsFirstFit`, `FreeStaysInside`, `ImplementsAllocator` | none |
| `FramesProofs` | `InsideBitmap`, `NoFrameTwice`, `OnlyFreeMemory`, `NoFrameLost` | none |
| `HeapProofs` | `HeapDisjoint`, `FramesOwned` | none |
| `SchedulerProofs` | `ListsIntact`, `ContextSavedToOwner`, `DeadStayDead`, `NoEarlyWake` | one CPU |
| `ConsoleProofs` | `LinesIntact`, `NoSelfDeadlock`, mutual exclusion of `log` | none |
| `PagingProofs` | `SpacesFaithful`, `TablesReachable`, `TablesOwned`, `UserKeptFromTables`, `LowMemorySuffices` | none |
| `LoaderProofs` | `KernelMemoryKept`, `TablesMapped` | none |
| | `EntryMapped` | `SegmentsApart` |
| `DeviceProofs` | `NothingAhead`, `UnmaskedIsHandled` | none |
| | `ModifiersTrackKeys`, `TypedIsPrinted` | `OneKeyPerModifier` |

For every component but the heap, the page tables and the set-up of interrupts a
type invariant is proved as well; in those three the types are part of the
inductive invariant.

**BitmapProofs.** The inductive invariant is `WellFormed(b)` (fields in range,
all blocks below `ffa` marked, `used` at most the number of marked blocks)
with `Held(live, b)` (every block of what callers
hold is marked and behind the bit array, and holdings are disjoint) and the type
of `halted`. Disjointness alone is not inductive: it follows for a new run only
because the blocks of the old ones are marked and the scan takes unmarked ones.
The lemmas follow the code: what the least fitting block is, that a fitting run
is free, what marking it changes, then one lemma per operation. The refinement
theorem uses the same invariant: initial states map to initial states and every
step to a step or a stutter. For the loops of `bm_alloc` the
proof shows that the equations of a loop have one solution (`LoopsAgree`: the loop
variable only grows, so there is no last block at which two could differ), and
that the first fit solves them: a run that is too short is followed by a block
that is not free, so the jump misses nothing. Only `BitmapAssumption` (block size positive,
arguments numbers) is used.

**FramesProofs.** The inductive invariant adds `OnlyMemoryFree` to the
properties: every clear bit belongs to memory that may be handed out. Without it
`OnlyFreeMemory` is not preserved by `alloc_frame`. `FramesAssumption` and
`MapAssumption` say what UEFI and the loader guarantee: areas are disjoint and
below `mem_pages`, one holds the ACPI tables, devices are not free memory. Types are
any numbers and devices are anywhere, so the theorems say what the code really
does there: `FramesAreMemory` has the areas whose type loses its upper bytes
(`Mistaken`), `BitmapBounded` the one bit behind the last page, which is past the
bitmap when memory fills its last row. `FramesConserved` is about the bits of all
rows; those the `uint16_t` of `pmm_request_frame` does not reach are clear and never
found. `NoFrameTwice` and
`OnlyFreeMemory` exempt the trampoline page after `start_aps`, which clears its
bit whoever holds it.

**HeapProofs.** The lemmas of `BitmapProofs` are used twice, by INSTANCE: `R` for
the blocks of a heap region and `V` for the pages of the address space. `HeapInv`
says that every region is `WellFormed` and that the blocks of what callers hold
are marked; freeing clears nothing (`set_bm` only ors), so it survives pointers that
nobody holds and the loops that look into the wrong region. `FramesOwned` needs `FrameInv`: pages of regions
and stacks are marked in the region bitmap of the space, so `valloc` cannot hand
them out again; stacks are runs of one or two pages and no two of them meet, so
`vfree` of one leaves the others alone. TLC checks both on the bounds of the run.

**SchedulerProofs.** `SchedInv` says that the `next` pointers from the head of
the ready list and from the head of the wakeups form two finite lists without a
common thread (`Linked`), that the current thread is in the first and on the CPU
and nobody else is (`CurInv`), and where a thread can be by its status
(`StatusInv`: a thread marked SLEEP that is still linked as ready is the one on
the CPU, inside the system call or before its yield; one that exited is dead, and
on no list unless it is still running). `ListsIntact` alone is not inductive: a
tick between the assignment of the status and the yield, at any of the three places
in between, acts on a thread that is asleep by its status and ready by its list. A list is a function from
`1 .. n` to threads that the pointers follow. That the recursive function `Nth`
of the model walks it is proved by a least counterexample (`Walk`), since the
induction theorems of the library cannot be applied here; pushing in front,
inserting after an element and unlinking then get one lemma each, and `schedule`
is put together from those. TLC checks `SchedInv` on the run. All of it is for
one CPU and any number of threads, ticks and quanta: with more CPUs the
properties do not hold, see the limits below.

**ConsoleProofs.** The invariant is the position of the holder of the flag of
`log` (`LogLockInv`: whoever is between taking and clearing it is alone there),
how much of whose line is in the buffer at each of these positions (`BufferInv`),
and that a CPU whose timer runs has left its boot code (`TimerInv`), which is why
no handler finds the flag taken below it.

**PagingProofs.** `Trees` describes the tables: there is a function `K`
that gives every table its space, its level and the prefix of the pages it is for,
no two tables the same, and every entry above the lowest level leads to the table
whose description extends it by the entry's index. Adding an entry therefore
changes no walk that succeeded (`ExtendsKeepsWalks`), and setting a lowest-level
entry changes what exactly one page of one space leads to (`LeafChangesPage`,
which rests on the fact that the four indices determine the page). `K` is not
part of the state: `PagingInv` says that there is one, and TLC cannot evaluate it.

The properties are about the states between two calls, and inside one the
invariant has to say what is still to come: a page is mapped as asked, or a call
for it is pending (`AskedInv`); a table is mapped at its own address, or the call
for that is pending, or is the first of the work to do (`SelfInv`); a call or a
loop maps a page at its own number, or at a page that no table of the space is or
will be looked for at (`Outside`). The delicate case are the regions of a thread,
on pages 1 to 3: a table in frame 1, 2 or 3 would be hidden by them. `LowInv` says
why there is none: `init_vmm` and `heap_add` have taken the lowest three frames
before a thread is made, which uses that the bitmap of the kernel's pages has two
pages at least (`VmmPages`; with 16 MB of memory or less it would have one).

For `LowMemorySuffices` the invariant `LowMemInv`, which TLC also checks on the
bounds of the run, says that as long as one of the first `Fan` frames is free
nothing went astray and `ReachInv` holds: the kernel's space maps every page of
memory at its own number (`KernelMaps`; the loader was asked to, `LoaderInv`), and
whenever another space is in `CR3`, all that is left to do there is to map
regions and to return (`InThread`). The P4 of that space was the lowest free
frame, so it lies below `Fan` too and shares all its tables with the regions:
mapping them needs no new table.

**LoaderProofs.** For `KernelMemoryKept` the invariant `MemInv` says that what the
kernel goes on using and what the loader only borrows are disjoint loader pages,
and that the map passed on is current when the kernel is entered. For the
mappings it says of each page that is owed a mapping that it is mapped or that
the call is in `work` or in a later range (`TableInv`, `EntryInv`), and that no two
calls contradict each other (`SoundInv`), so that a later one does not undo a
mapping. These quantify over all calls, so TLC cannot evaluate them. A layout
gives every page from 0 to the end of memory its type (`LoaderAssumption`);
`SegmentsApart` says that no segment reaches into the addresses of the next.

**DeviceProofs.** The type of `screen` says that the cursor is behind all text,
and is inductive. `PendingInv` says that the bytes on their way, handled one by
one from the present modifiers and prefix flag, would print what is owed and end
with the modifiers of the keys that are down: the bytes are split into the codes
of keys, an extended one possibly after its prefix was taken. The splitting is an
existential over sequences, which TLC cannot evaluate. `OneKeyPerModifier` says
that no two keys of the keyboard set the same modifier. The driver ignores the
prefix for shift and GUI keys, so a keyboard with, say, an extended left shift
next to a plain one would break it; keyboards send that only as a fake shift.

For `UnmaskedIsHandled`, `RouteInv` says that once the line of the PIT is routed,
its redirection entry has the vector whose gate is installed, and that every other
entry is as the firmware left it. That the entry is that of the pin the line is wired to
(`PinIsWired`) is about the list of overrides that `parse_madt` makes: its nth
element is the nth override of the MADT, so the first match in the list is the
first match in the table (`RankHit`, `ItemByRank`, `OverridesInOrder`), also with a
counter that wraps, provided the count ends.

**Only model-checked.** The five liveness properties: `SleepersRun`,
`ReadyThreadsRun`, `LogLockReleased`, `BootEnds` and `CalibrationEnds`. They rest on
fairness, which is out of reach of the prover.

## Assumptions and limits

* `DebugReturn` is FALSE in the run of the scheduler: line 20 of `scheduler.c`
  returns before the algorithm, for debugging, and the run checks the algorithm
  behind it. It uses one CPU. With two, a woken thread is run on the CPU that
  woke it and linked into the list of the least loaded one, and two CPUs can run
  it.
* Kernel code keeps its CPU number in `r14`; the modules take it to be right.
* SmpBoot assumes x2APIC mode. In xAPIC mode the destination of an IPI is lost.
* SmpBoot ends at `ap_start`. An AP comes that far only if the page its stack was
  moved to happens to be mapped for the kernel, on whose data it has then pushed:
  what `ap_kernel` would do after that says nothing about the code.
* `ReadyThreadsRun` excludes threads that keep going to sleep, because the code does
  let them starve others: with A, B and C in this order, A that sleeps whenever it
  runs alternates with B, the first of the list without it, and C never runs.
* `SleepersRun` and `ReadyThreadsRun` say nothing after a context was resumed that
  was switched away from inside a system call (`wild`).
* `EntryMapped` and `TablesMapped` hold only if no status was dropped: after a
  refused allocation whose status is ignored, segments or memory may be unmapped
  when the kernel is entered. A refused PML4 ends the model ("lost").
  The list of segments is one page; where it straddles two, `LoadKernel` maps as
  many pages as its size needs and may leave the second one out.
* In Interrupts polarity and trigger mode are left out: `so->flags & 2` and
  `& 8`, stored into fields of one bit, are always 0.
* The third byte `init_keyboard` reads, which it takes for the configuration, is
  the acknowledgement of the scan code set; its bit 6 is set, so the test for
  translation always succeeds. Keys whose codes lie behind the end of the key
  tables print whatever is there (a nondeterministic choice). The keyboard sends
  no fake shifts.
* Paging leaves out the TLB and the page that lists the kernel's segments. The
  frame bitmap has one page there. The addresses of a thread's pages are those
  a fresh region hands out first.
* Three facts are visible in the modules and not stated as properties: `used` in
  a `bitmap_t` goes on counting freed blocks, though its header says "Used
  blocks"; `hfree` warns of a foreign pointer for one from an older region, and
  does not free it; and as long as the call of `set_ap_ready` is commented out,
  `start_aps` never ends on more than one CPU.
* What a calibration measures, the encoding of descriptors, file contents,
  graphics modes, checksums and port I/O are straight-line code over hardware or
  firmware data. `libc` has no state; the progress bar has no caller.
* `unmap_addr`, `free_page_table`, `vfree`, `free_heap`, `free_thread`,
  `printf_at`, `ipi_handler`, `init_rtc` and `init_keyboard` are not called by
  anything that runs at this commit. Of these `vfree`, the RTC and the keyboard
  are modelled. `free_thread` gives the page tables of a thread back and leaves
  its space before `free_heap` walks them.

## Plan

Done: the loader, the allocators, the address spaces, virtual memory and heaps,
the scheduler, the console, the set-up of interrupts, the keyboard and its
screen, the start of the APs up to their first C code; proofs of all their safety properties.

1. The scheduler on two CPUs behind the debugging return, once the code says what
   it promises there.
2. `ap_kernel` and `init_tss` on several CPUs, once the stack of an AP is mapped where
   the trampoline moves it and `set_ap_ready` is called.
3. Number formatting of `libc` (`itoa`, `ultoa`) against a reference.
