------------------------------- MODULE Loader -------------------------------
(***************************************************************************)
(* The UEFI boot loader: efi_main (boot/uefi.c) with LoadKernel            *)
(* (boot/loader.c) and the page tables and memory maps of boot/mem.c.      *)
(*                                                                         *)
(* pc is the next stage of efi_main.  Calls of the firmware that only may  *)
(* fail are part of the stage they belong to; an error the code looks at   *)
(* makes efi_main return, one it does not look at is an outcome of the     *)
(* stage and sets dropped.  work is the MapRange call in progress, with    *)
(* the recursive calls of MapAddr in front of it, and later are the calls  *)
(* still to come: a stage begins when both are empty.                      *)
(*                                                                         *)
(* Memory is a function from page numbers to the kinds of memory the code  *)
(* tells apart.  A virtual page is a pair: the half of the address space   *)
(* (or the kernel image) and a page number.  One level of tables stands    *)
(* for the four: a zone is what one table covers, and the entry of the     *)
(* PML4 for it.                                                            *)
(***************************************************************************)
EXTENDS Integers, Sequences, FiniteSets

CONSTANTS Layouts,    \* memory maps the firmware may start the loader with
          Segments,   \* pages of each loadable segment of kernel.elf
          ZoneSize,   \* virtual pages covered by one table
          MaxEvents   \* bound: pages the firmware takes for itself meanwhile

\* loader: types 1 and 2; boot: 3 and 4; free: 7; acpi: 9; device: the others.
Kinds == {"loader", "boot", "free", "acpi", "device"}

ASSUME LoaderAssumption ==
    /\ ZoneSize \in Nat \ {0} /\ MaxEvents \in Nat
    /\ Segments \in Seq(Nat \ {0})
    /\ \A m \in Layouts : /\ Cardinality(DOMAIN m) \in Nat
                          /\ m \in [0 .. Cardinality(DOMAIN m) - 1 -> Kinds]

VARIABLES pc,
          mem,       \* the firmware's memory map
          policy,    \* which free pages its AllocatePages and AllocatePool take
          own,       \* the pages in kernel_info_t and efi_main's locals
          tables,    \* zone -> the page of its table
          space,     \* the mappings in the tables: virtual page -> page
          work,      \* MapAddr calls to make, as <<page, virtual page>>
          later,     \* further MapRange calls
          kmap,      \* the memory map last read into kinfo.mem.mmap
          fresh,     \* mmap_key is that of the firmware's current map
          events,
          failed,    \* a call has failed, or the map changed under mmap_key
          dropped    \* a call whose status the code does not look at failed

vars == <<pc, mem, policy, own, tables, space, work, later, kmap, fresh, events,
          failed, dropped>>
paging == <<tables, space>>
history == <<policy, events, failed, dropped>>

End == {"entered", "returned", "lost"}
Nothing == <<>>
None == [pml4 |-> 0, elf |-> {}, ke |-> 0, segs |-> <<>>, stack |-> 0,
         bitmap |-> 0, mmap |-> 0]

Init ==
    /\ pc = "setup" /\ mem \in Layouts
    /\ policy \in [{"pages", "pool"} -> {"top", "bottom"}]
    /\ own = None /\ tables = Nothing /\ space = Nothing
    /\ work = <<>> /\ later = {}
    /\ kmap = mem /\ fresh = FALSE /\ events = 0
    /\ failed = FALSE /\ dropped = FALSE

-----------------------------------------------------------------------------
(* Firmware *)

\* AllocatePages ("pages") and AllocatePool ("pool", one page for a buffer)
\* take n free pages in a row, the highest or the lowest, as policy says; the
\* result is empty when there are none.  Page 0 is never handed out.
Places(m, n, call) ==
    LET runs == {p \in DOMAIN m \ {0} : \A i \in p .. p + n - 1 :
                                            i \in DOMAIN m /\ m[i] = "free"}
    IN {p \in runs : \A q \in runs : IF policy[call] = "top" THEN p >= q ELSE p <= q}

Marked(m, pages, kind) == [p \in DOMAIN m |-> IF p \in pages THEN kind ELSE m[p]]
Taken(m, p, n) == Marked(m, p .. p + n - 1, "loader")

\* A timer or driver of the firmware allocates memory between two steps.
FirmwareEvent ==
    /\ pc \notin End /\ events < MaxEvents
    /\ \E p \in Places(mem, 1, "pages") : mem' = Marked(mem, {p}, "boot")
    /\ fresh' = FALSE /\ events' = events + 1
    /\ failed' = (failed \/ pc = "exit")
    /\ UNCHANGED <<pc, own, paging, work, later, kmap, policy, dropped>>

-----------------------------------------------------------------------------
(* MapAddr and MapRange *)

low(p) == <<"low", p>>
VADDR(p) == <<"high", p>>
Zone(v) == <<v[1], v[2] \div ZoneSize>>
Extend(f, x, y) == [z \in DOMAIN f \cup {x} |-> IF z = x THEN y ELSE f[z]]

\* The MapAddr calls of a MapRange over n pages.
Pages(p, v, n) == [i \in 1 .. n |-> <<p + i - 1, <<v[1], v[2] + i - 1>>>>]

\* LoadSegment and ParseMMAP drop the status of their MapAddr and MapRange.
Unchecked == pc = "bitmap" \/ (pc = "segments" /\ own.segs # <<>>)

WriteEntry ==
    /\ work # <<>> /\ Zone(Head(work)[2]) \in DOMAIN tables
    /\ space' = Extend(space, Head(work)[2], Head(work)[1])
    /\ work' = Tail(work)
    /\ UNCHANGED <<pc, mem, own, tables, later, kmap, fresh, history>>

\* Mutant of TableCalls: a new table is not mapped.
NoCalls(t) == work

\* A new table is linked first and then mapped at its own address, by a
\* recursive call that may need a table itself.
TableCalls(t) == <<<<t, low(t)>>>> \o work

AddTable ==
    /\ work # <<>> /\ Zone(Head(work)[2]) \notin DOMAIN tables
    /\ \E t \in Places(mem, 1, "pages") :
           /\ mem' = Taken(mem, t, 1)
           /\ tables' = Extend(tables, Zone(Head(work)[2]), t)
           /\ work' = TableCalls(t)
    /\ fresh' = FALSE
    /\ UNCHANGED <<pc, own, space, later, kmap, history>>

\* AllocTable fails: the error ends MapAddr, at every depth, and MapRange.
TableRefused ==
    /\ work # <<>> /\ Zone(Head(work)[2]) \notin DOMAIN tables
    /\ failed' = TRUE
    /\ \/ Unchecked /\ work' = <<>> /\ dropped' = TRUE /\ UNCHANGED pc
       \/ ~ Unchecked /\ pc' = "returned" /\ UNCHANGED <<work, dropped>>
    /\ UNCHANGED <<mem, own, paging, later, kmap, fresh, policy, events>>

NextRange ==
    /\ pc \notin End /\ work = <<>> /\ later # {}
    /\ \E r \in later :
           /\ \A s \in later : r[1][1] <= s[1][1]
           /\ work' = r /\ later' = later \ {r}
    /\ UNCHANGED <<pc, mem, own, paging, kmap, fresh, history>>

-----------------------------------------------------------------------------
(* The stages of efi_main *)

At(stage) == pc = stage /\ work = <<>> /\ later = {}

\* A call whose status is looked at returns an error: efi_main returns it.
\* The stages left out have no such call but MapAddr.
Error ==
    /\ pc \notin End \cup {"paging", "parse", "bitmap"} /\ work = <<>> /\ later = {}
    /\ pc' = "returned" /\ failed' = TRUE
    /\ UNCHANGED <<mem, own, paging, work, later, kmap, fresh, policy, events, dropped>>

\* Watchdog, console, ConfigureGraphics and FindRSDP only fail or succeed.
Setup ==
    /\ At("setup") /\ pc' = "paging"
    /\ UNCHANGED <<mem, own, paging, work, later, kmap, fresh, history>>

\* A refused AllocatePages leaves the PML4 at address 0: nothing is known of
\* what page 0 holds, and so of what MapAddr does from then on.
ConfigurePaging ==
    /\ At("paging")
    /\ \/ \E p \in Places(mem, 1, "pages") :
              /\ mem' = Taken(mem, p, 1) /\ own' = [own EXCEPT !.pml4 = p]
              /\ work' = Pages(p, low(p), 1) /\ pc' = "headers"
              /\ UNCHANGED <<failed, dropped>>
       \/ /\ pc' = "lost" /\ failed' = TRUE /\ dropped' = TRUE
          /\ UNCHANGED <<mem, own, work>>
    /\ fresh' = FALSE
    /\ UNCHANGED <<paging, later, kmap, policy, events>>

\* A page is taken for a field of own and mapped at its number in a half.
Claim(stage, call, field, half, next) ==
    /\ At(stage)
    /\ \E p \in Places(mem, 1, call) :
           /\ mem' = Taken(mem, p, 1) /\ own' = [own EXCEPT ![field] = p]
           /\ work' = Pages(p, <<half, p>>, 1)
    /\ fresh' = FALSE /\ pc' = next
    /\ UNCHANGED <<paging, later, kmap, history>>

\* LoadKernel up to the program headers: two pool buffers, freed at the end.
ReadHeaders ==
    /\ At("headers")
    /\ \E p \in Places(mem, 1, "pool") : \E q \in Places(Taken(mem, p, 1), 1, "pool") :
           /\ mem' = Marked(mem, {p, q}, "loader")
           /\ own' = [own EXCEPT !.elf = {p, q}]
    /\ fresh' = FALSE /\ pc' = "ke"
    /\ UNCHANGED <<paging, work, later, kmap, history>>

\* The list of segments for the kernel, which reads it in the higher half.
MapKernelEntries == Claim("ke", "pool", "ke", "high", "segments")

\* Where kernel.elf wants segment k.
p_vaddr(k) == <<"image", k * ZoneSize>>

\* Every page is a MapAddr call of its own.
LoadSegment ==
    LET k == Len(own.segs) + 1 IN
    /\ At("segments") /\ k <= Len(Segments)
    /\ \E p \in Places(mem, Segments[k], "pages") :
           /\ mem' = Taken(mem, p, Segments[k])
           /\ own' = [own EXCEPT !.segs = Append(@, p)]
           /\ later' = {<<Pages(p, p_vaddr(k), Segments[k])[i]>> : i \in 1 .. Segments[k]}
    /\ fresh' = FALSE
    /\ UNCHANGED <<pc, paging, work, kmap, history>>

CloseKernel ==
    /\ At("segments") /\ Len(own.segs) = Len(Segments)
    /\ mem' = Marked(mem, own.elf, "free") /\ own' = [own EXCEPT !.elf = {}]
    /\ fresh' = FALSE /\ pc' = "stack"
    /\ UNCHANGED <<paging, work, later, kmap, history>>

AllocateStack == Claim("stack", "pages", "stack", "high", "mmap")

\* Mutants of ReadMap: the map, or the key, is that of the first GetMemoryMap,
\* which asks for the size of the buffer before there is one.
MapBeforeBuffer(m) == kmap' = mem /\ fresh' = TRUE
KeyBeforeBuffer(m) == kmap' = m /\ fresh' = FALSE

\* The second GetMemoryMap, with the buffer allocated, sets map and key.
ReadMap(m) == kmap' = m /\ fresh' = TRUE

GetMMAP(stage, next) ==
    /\ At(stage)
    /\ \E p \in Places(mem, 1, "pool") :
           /\ mem' = Taken(mem, p, 1) /\ own' = [own EXCEPT !.mmap = p]
           /\ ReadMap(Taken(mem, p, 1))
    /\ pc' = next
    /\ UNCHANGED <<paging, work, later, history>>

\* Mutant of Mapped: types 3 and 4 are left out.
MappedNoBoot == {"loader", "free", "acpi"}

\* The kinds of memory ParseMMAP maps at their own address.
Mapped == {"loader", "boot", "free", "acpi"}

\* The descriptors of a map as first and last page, in which page 0 is skipped.
Descriptors(m) ==
    {d \in (DOMAIN m \ {0}) \X DOMAIN m :
        /\ d[1] <= d[2] /\ \A p \in d[1] .. d[2] : m[p] = m[d[1]]
        /\ d[1] = 1 \/ m[d[1] - 1] # m[d[1]]
        /\ d[2] + 1 \notin DOMAIN m \/ m[d[2] + 1] # m[d[1]]}

ParseMMAP ==
    /\ At("parse") /\ pc' = "bitmap"
    /\ later' = {Pages(d[1], low(d[1]), d[2] - d[1] + 1) :
                    d \in {e \in Descriptors(kmap) : kmap[e[1]] \in Mapped}}
    /\ UNCHANGED <<mem, own, paging, work, kmap, fresh, history>>

\* The end of ParseMMAP.  A refused AllocatePages leaves the bitmap at 0.
PlaceBitmap == Claim("bitmap", "pages", "bitmap", "low", "free")

BitmapRefused ==
    /\ At("bitmap") /\ work' = Pages(0, low(0), 1) /\ pc' = "free"
    /\ failed' = TRUE /\ dropped' = TRUE
    /\ UNCHANGED <<mem, own, paging, later, kmap, fresh, policy, events>>

FreeMMAP ==
    /\ At("free") /\ pc' = "mmap2"
    /\ mem' = Marked(mem, {own.mmap}, "free") /\ own' = [own EXCEPT !.mmap = 0]
    /\ fresh' = FALSE
    /\ UNCHANGED <<paging, work, later, kmap, history>>

\* ExitBootServices refuses an old key, and efi_main does not try again.
ExitBootServices ==
    /\ At("exit") /\ pc' = IF fresh THEN "entered" ELSE "returned"
    /\ UNCHANGED <<mem, own, paging, work, later, kmap, fresh, history>>

Over == pc \in End /\ UNCHANGED vars

MapStep == pc \notin End /\ (WriteEntry \/ AddTable \/ TableRefused)

Next ==
    \/ FirmwareEvent \/ Error \/ MapStep \/ NextRange
    \/ Setup \/ ConfigurePaging \/ ReadHeaders \/ MapKernelEntries
    \/ LoadSegment \/ CloseKernel \/ AllocateStack \/ GetMMAP("mmap", "parse")
    \/ ParseMMAP \/ PlaceBitmap \/ BitmapRefused \/ FreeMMAP
    \/ GetMMAP("mmap2", "exit") \/ ExitBootServices \/ Over

\* The processor executes efi_main.
Spec == Init /\ [][Next]_vars /\ WF_vars(Next)

-----------------------------------------------------------------------------
(* Properties *)

TablePages == {own.pml4} \cup {tables[z] : z \in DOMAIN tables}
IsMapped(v, p) == v \in DOMAIN space /\ space[v] = p

\* Whenever no mapping is in progress, the PML4 and every table linked into it
\* are mapped at their own addresses, as the kernel's map_addr needs them,
\* although mapping one table may create others (MapAddr, boot/mem.c:36).
TablesMapped ==
    work = <<>> /\ ~ dropped /\ pc \notin {"setup", "paging", "returned"} =>
        \A t \in TablePages : IsMapped(low(t), t)

\* When the kernel is entered, unless an error was dropped: all memory of the
\* map it gets is mapped at its own address although the map ParseMMAP went by
\* is an older one, the stack and the list of segments in the higher half, and
\* every segment where kernel.elf wants it.
EntryMapped ==
    pc = "entered" /\ ~ dropped =>
        /\ \A p \in DOMAIN kmap \ {0} : kmap[p] # "device" => IsMapped(low(p), p)
        /\ \A p \in {own.stack, own.ke} : IsMapped(VADDR(p), p)
        /\ \A k \in DOMAIN Segments : \A c \in
               {Pages(own.segs[k], p_vaddr(k), Segments[k])[i] : i \in 1 .. Segments[k]} :
                   IsMapped(c[2], c[1])

\* No page the kernel goes on using after boot (tables, segments, their list,
\* stack, bitmap, the map itself) is of a type that init_pmm or init_acpi
\* frees in the map the kernel gets, also when errors were dropped.
KernelMemoryKept ==
    pc = "entered" =>
        \A p \in TablePages \cup {own.ke, own.stack, own.bitmap, own.mmap}
                 \cup UNION {own.segs[k] .. own.segs[k] + Segments[k] - 1 :
                                 k \in DOMAIN own.segs} :
            p = 0 \/ kmap[p] = "loader"

\* Unless a call fails or the firmware changes its map under the key, the
\* kernel is entered, and in any case efi_main comes to an end: in particular
\* the recursion of MapAddr does.
BootEnds ==
    <> (pc = "entered" \/ (pc \in {"returned", "lost"} /\ failed))
=============================================================================
