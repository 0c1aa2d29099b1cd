------------------------------- MODULE SmpBoot -------------------------------
(***************************************************************************)
(* Starting the application processors: start_aps, start_ap and delay on   *)
(* the boot processor (cpu/smp.c, cpu/lapic.c) and the trampoline          *)
(* (cpu/ap_trampoline.asm) on the others, up to its jump to ap_start.      *)
(* They talk through the ap_info_t inside the trampoline page and through  *)
(* IPIs, which start_ap sends without waiting for their delivery.          *)
(*                                                                         *)
(* CPU 0 is the boot processor; the local APICs are in x2APIC mode.        *)
(* Memory is counted in pages, and a stack is named by its page, the one   *)
(* below stack_top.  Of the two page tables that matter, the kernel's      *)
(* (KMEM.pml4) and that of the idle thread, the model keeps what they map. *)
(***************************************************************************)
EXTENDS Integers, Sequences

CONSTANTS NumCpus,      \* KSMP.num_cpus
          FreeFrames,   \* frames whose bit is clear when start_aps is called;
                        \* frame 0 is never among them
          KvmmPages,    \* pages from HIGHER_HALF_OFFSET on that init_vmm and
                        \* valloc have mapped, to frames that are in use
          Pages32,      \* pages below 4 GiB, the reach of a uint32_t
          MsInterval    \* KLAPIC.ms_interval

BSP == 0
CPUs == 0 .. NumCpus - 1
APs == CPUs \ {BSP}

VARIABLES bsp,          \* where the boot processor is in start_aps
          id,           \* the loop variable of start_aps
          sipis,        \* the loop variable of start_ap
          trig,         \* KCPUS[0].trig
          oneshot,      \* the one-shot timer of the boot processor counts
          ipis,         \* IPIs sent and not delivered, as <<CPU, kind>>
          ap_boot,      \* [pml4, stack_top, ready]
          free,         \* frames whose bit is clear
          maps,         \* what the two page tables map, see Mapping
          stack,        \* KCPUS[id].stack
          pc,           \* where each AP is
          cr3,          \* the page table each AP runs on
          rsp           \* the page each AP pushes to

bspVars == <<bsp, id, sipis, trig, oneshot, ap_boot, free, maps, stack>>
vars == <<bspVars, ipis, pc, cr3, rsp>>

\* Nothing there yet.
NONE == -1

\* 0x8000
TrampolinePage == 8

\* A frame that holds the data of the kernel.
KERNEL == -2

\* A virtual page: VADDR gives the page of that number in the higher half.
Lower(page) == [half |-> "lower", page |-> page]
VADDR(page) == [half |-> "higher", page |-> page]

\* map_addr(frame, virtual, ..., p4_tbl) makes this part of what p4_tbl maps.
Mapping(p4_tbl, virtual, frame) == [p4_tbl |-> p4_tbl, virtual |-> virtual, frame |-> frame]

map_addr(m, p4_tbl, virtual, frame) ==
    IF frame = 0 THEN m
    ELSE {x \in m : <<x.p4_tbl, x.virtual>> # <<p4_tbl, virtual>>}
             \cup {Mapping(p4_tbl, virtual, frame)}

Mapped(p4_tbl, virtual) == \E x \in maps : x.p4_tbl = p4_tbl /\ x.virtual = virtual

\* ap_boot has not been filled in; the higher half of the kernel's table is that
\* of KVMM.
Init ==
    /\ bsp = "copy" /\ id = 0 /\ sipis = 0
    /\ trig = FALSE /\ oneshot = FALSE
    /\ ipis = <<>>
    /\ ap_boot = [pml4 |-> NONE, stack_top |-> NONE, ready |-> FALSE]
    /\ free = FreeFrames
    /\ maps = {Mapping("KMEM.pml4", VADDR(p), KERNEL) : p \in 0 .. KvmmPages - 1}
    /\ stack = [c \in CPUs |-> NONE]
    /\ pc = [a \in APs |-> "parked"]
    /\ cr3 = [a \in APs |-> NONE] /\ rsp = [a \in APs |-> Lower(NONE)]

-----------------------------------------------------------------------------
(* The boot processor *)

\* start_aps before its loop: the copied trampoline has zeros for fields, then
\* those common to all APs are set.
CopyTrampoline ==
    /\ bsp = "copy"
    /\ bsp' = "loop"
    /\ maps' = map_addr(maps, "KMEM.pml4", Lower(TrampolinePage), TrampolinePage)
    /\ ap_boot' = [pml4 |-> "KMEM.pml4", stack_top |-> 0, ready |-> FALSE]
    /\ UNCHANGED <<id, sipis, trig, oneshot, free, stack, ipis, pc, cr3, rsp>>

\* The head of the loop passes over the boot processor itself.
SkipSelf ==
    /\ bsp = "loop" /\ id = BSP
    /\ id' = id + 1
    /\ UNCHANGED <<bsp, sipis, trig, oneshot, ap_boot, free, maps, stack, ipis, pc, cr3, rsp>>

\* alloc_frame: the lowest free frame, NULL (0) if there is none.
alloc_frame == IF free = {} THEN 0 ELSE CHOOSE f \in free : \A g \in free : f <= g

\* The page below stack_top.
StackPage(top) == (top - 1) % Pages32

\* The stack of the next AP, mapped in the table of the idle thread and in that of
\* the kernel.  map_addr may take frames for new tables (see Paging).
PrepareStack ==
    LET top == (alloc_frame + 1) % Pages32
        page == StackPage(top)
    IN /\ bsp = "loop" /\ id \in APs
       /\ bsp' = "init"
       /\ \E tables \in SUBSET (free \ {alloc_frame}) : free' = free \ ({alloc_frame} \cup tables)
       /\ ap_boot' = [ap_boot EXCEPT !.stack_top = top]
       /\ stack' = [stack EXCEPT ![id] = page]
       /\ maps' = map_addr(map_addr(maps, "idle", VADDR(page), page),
                           "KMEM.pml4", Lower(page), page)
       /\ UNCHANGED <<id, sipis, trig, oneshot, ipis, pc, cr3, rsp>>

\* start_ap: INIT, asserted and deasserted; the pause of 10 ms that should
\* follow is commented out.
SendInit ==
    /\ bsp = "init"
    /\ ipis' = ipis \o << <<id, "INIT">>, <<id, "DEASSERT">> >>
    /\ bsp' = "sipi" /\ sipis' = 0
    /\ UNCHANGED <<id, trig, oneshot, ap_boot, free, maps, stack, pc, cr3, rsp>>

\* start_ap: the body of the loop, up to the wait of delay; a timer with an
\* initial count of 0 does not count.
SendSipi ==
    /\ bsp = "sipi" /\ sipis < 2
    /\ ipis' = Append(ipis, <<id, "SIPI">>)
    /\ oneshot' = ((MsInterval * 200) \div 1000 > 0)
    /\ bsp' = "delay" /\ sipis' = sipis + 1
    /\ UNCHANGED <<id, trig, ap_boot, free, maps, stack, pc, cr3, rsp>>

\* apic_oneshot_handler.
apic_oneshot_handler ==
    /\ oneshot
    /\ oneshot' = FALSE
    /\ trig' = TRUE
    /\ UNCHANGED <<bsp, id, sipis, ap_boot, free, maps, stack, ipis, pc, cr3, rsp>>

\* delay: while (!trig), trig = false.
DelayEnds ==
    /\ bsp = "delay" /\ trig
    /\ trig' = FALSE
    /\ bsp' = "sipi"
    /\ UNCHANGED <<id, sipis, oneshot, ap_boot, free, maps, stack, ipis, pc, cr3, rsp>>

\* start_ap returns.
StartApReturns ==
    /\ bsp = "sipi" /\ sipis = 2
    /\ bsp' = "wait"
    /\ UNCHANGED <<id, sipis, trig, oneshot, ap_boot, free, maps, stack, ipis, pc, cr3, rsp>>

\* while (!ap_boot->ready), then the frame of the stack is released.  The only
\* call of set_ap_ready is commented out (ap.c).
ApIsReady ==
    /\ bsp = "wait" /\ ap_boot.ready
    /\ free' = free \cup ({StackPage(ap_boot.stack_top)} \ {0})
    /\ bsp' = "loop" /\ id' = id + 1
    /\ UNCHANGED <<sipis, trig, oneshot, ap_boot, maps, stack, ipis, pc, cr3, rsp>>

\* The end of start_aps.
Finish ==
    /\ bsp = "loop" /\ id = NumCpus
    /\ free' = free \cup {TrampolinePage}
    /\ bsp' = "done"
    /\ UNCHANGED <<id, sipis, trig, oneshot, ap_boot, maps, stack, ipis, pc, cr3, rsp>>

BspStep ==
    \/ CopyTrampoline \/ SkipSelf \/ PrepareStack \/ SendInit \/ SendSipi
    \/ apic_oneshot_handler \/ DelayEnds \/ StartApReturns \/ ApIsReady \/ Finish

-----------------------------------------------------------------------------
(* The application processors *)

\* The next IPI arrives: INIT resets the CPU, a SIPI starts one that waits for
\* it and is lost on any other.
Deliver ==
    /\ ipis # <<>>
    /\ LET a == Head(ipis)[1]
           kind == Head(ipis)[2]
       IN pc' = [pc EXCEPT ![a] =
                    CASE kind = "INIT" -> "resetting"
                      [] kind = "SIPI" /\ @ = "parked" -> "kernel16"
                      [] OTHER -> @]
    /\ ipis' = Tail(ipis)
    /\ UNCHANGED <<bspVars, cr3, rsp>>

Goto(a, from, to) == pc[a] = from /\ pc' = [pc EXCEPT ![a] = to] /\ UNCHANGED <<bspVars, ipis>>

\* A CPU has handled INIT and waits for a SIPI.
Park(a) == Goto(a, "resetting", "parked") /\ UNCHANGED <<cr3, rsp>>

\* kernel16 and kernel32: segments, paging and long mode with the PML4 of
\* ap_boot.  There is no interrupt table: a CPU that faults from here on resets.
EnterLongMode(a) ==
    /\ Goto(a, "kernel16", IF Mapped(ap_boot.pml4, Lower(TrampolinePage)) THEN "kernel32c" ELSE "dead")
    /\ cr3' = [cr3 EXCEPT ![a] = ap_boot.pml4]
    /\ UNCHANGED rsp

\* kernel32c: the stack of ap_boot; the far return to kernel64 goes over it.
LoadStack(a) ==
    LET top == Lower(StackPage(ap_boot.stack_top)) IN
    /\ Goto(a, "kernel32c", IF Mapped(cr3[a], top) THEN "kernel64" ELSE "dead")
    /\ rsp' = [rsp EXCEPT ![a] = top]
    /\ UNCHANGED cr3

\* kernel64: HIGHER_HALF_OFFSET is added to rsp.
MoveStack(a) ==
    /\ Goto(a, "kernel64", "push")
    /\ rsp' = [rsp EXCEPT ![a] = VADDR(@.page)]
    /\ UNCHANGED cr3

\* The far return to ap_start goes over the stack again.
JumpToApStart(a) ==
    /\ Goto(a, "push", IF Mapped(cr3[a], rsp[a]) THEN "ap_start" ELSE "dead")
    /\ UNCHANGED <<cr3, rsp>>

ApStep(a) ==
    Park(a) \/ EnterLongMode(a) \/ LoadStack(a) \/ MoveStack(a) \/ JumpToApStart(a)

\* The boot processor waits for ready, or is back in init_kernel, and nothing
\* else moves.
Spin ==
    /\ bsp \in {"wait", "done"} /\ ipis = <<>>
    /\ \A a \in APs : pc[a] \in {"parked", "ap_start", "dead"}
    /\ UNCHANGED vars

Next == BspStep \/ Deliver \/ (\E a \in APs : ApStep(a)) \/ Spin

Spec == Init /\ [][Next]_vars

-----------------------------------------------------------------------------
(* Properties *)

\* kernel64 sets the stack "to higher half": what the AP pushes there goes to
\* the frame recorded as its stack.
StackInHigherHalf ==
    \A a \in APs : pc[a] = "push" => Mapping(cr3[a], rsp[a], stack[a]) \in maps
=============================================================================
