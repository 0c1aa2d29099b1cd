----------------------------- MODULE Interrupts -----------------------------
(***************************************************************************)
(* How the first device interrupt gets to its handler: init_acpi and       *)
(* parse_madt (acpi/), init_lapic, init_ioapic, and calibrate_apic_timer,  *)
(* which waits for interrupts of the PIT (cpu/lapic.c, cpu/ioapic.c).      *)
(*                                                                         *)
(* pc is the next step of the boot processor.  Interrupts are enabled      *)
(* (init_idt).  A page fault ends in exception_handler, which halts; page  *)
(* 0, where kinfo's pointers point before they are set, is not mapped.     *)
(***************************************************************************)
EXTENDS Integers, Sequences, FiniteSets

CONSTANTS Sdts,        \* lists of ACPI tables, as [madt, valid]
          Madts,       \* contents of the MADT, as lists of [type, irq, gsi]
          LeftTables,  \* redirection tables the firmware may leave behind
          CountValues, \* values of the uint8_t that counts items of the MADT
          HeapItems,   \* CPUs and overrides the kernel's heap has room for
          Wait         \* PIT ticks the calibration takes

PIT_IDT_ENTRY == 34
REDTBL == 16           \* IOAPIC_REDTBL_START_OFFSET
Pins == 0 .. 23

Types == {"lapic", "ioapic", "so", "other"}

\* One IO APIC, whose 24 pins are the global interrupts from 0.
ASSUME InterruptsAssumption ==
    /\ \A s \in Sdts : \A i \in DOMAIN s : s[i] \in [madt : BOOLEAN, valid : BOOLEAN]
    /\ Madts \subseteq Seq([type : Types, irq : 0 .. 15, gsi : Pins])
    /\ LeftTables \subseteq [Pins -> [vector : 0 .. 255, mask : BOOLEAN]]
    /\ CountValues \in Nat \ {0} /\ HeapItems \in Nat /\ Wait \in Nat \ {0}

VARIABLES sdt, items, apic,   \* what firmware and cpuid say; apic: "x2", "x", "none"
          left,               \* the redirection entries as the firmware left them
          pc, ovrds,          \* KIOAPIC.ovrds
          found,              \* the addresses of the MADT are in kinfo
          gates,              \* vectors with a handler in the IDT
          enabled,            \* the local APIC delivers interrupts
          redtbl,             \* redirection entries: pin -> [vector, mask]
          pending,            \* vectors the local APIC has accepted
          pit_ticks

firmware == <<sdt, items, apic, left>>
irq_vars == <<sdt, items, apic, left, pc, ovrds, found, gates, enabled, redtbl, pending, pit_ticks>>

\* Nothing masks the redirection entries at the start, and the firmware may have
\* enabled the local APIC.  The gates are the exceptions', the system call's and
\* the IPI's.
IrqInit ==
    /\ sdt \in Sdts /\ items \in Madts /\ apic \in {"x2", "x", "none"}
    /\ left \in LeftTables /\ redtbl = left
    /\ pc = "acpi" /\ ovrds = <<>> /\ found = FALSE
    /\ gates = 0 .. 31 \cup {128, 129}
    /\ enabled \in IF apic = "none" THEN {FALSE} ELSE BOOLEAN
    /\ pending = {} /\ pit_ticks = 0

-----------------------------------------------------------------------------
(* ACPI tables *)

\* The items of a type in front of the one at place i.
Earlier(type, i) == {j \in 1 .. i - 1 : items[j].type = type}

\* The first item of a type at which the counter has the value asked for, if
\* there is one; both are a uint8_t.
get_madt_item(type, n) ==
    LET hits == {i \in DOMAIN items : items[i].type = type
                    /\ Cardinality(Earlier(type, i)) % CountValues = n % CountValues}
    IN {i \in hits : \A j \in hits : i <= j}

\* The loop of get_madt_count comes to a number without an item.
CountEnds(type) == \E n \in 0 .. Len(items) : get_madt_item(type, n) = {}

\* Counts up until there is no such item.
get_madt_count(type) ==
    CHOOSE n \in 0 .. Len(items) : /\ get_madt_item(type, n) = {}
                                   /\ \A m \in 0 .. n - 1 : get_madt_item(type, m) # {}

Overrides ==
    [n \in 1 .. get_madt_count("so") |->
        items[CHOOSE i \in get_madt_item("so", n - 1) : TRUE]]

\* The overrides find room in the heap; the structures of the CPUs do so too.
OverridesFit == CountEnds("so") /\ get_madt_count("so") <= HeapItems
CpusFit ==
    CountEnds("lapic") /\ get_madt_count("so") + get_madt_count("lapic") <= HeapItems

\* One of the counts never ends: with as many items as a uint8_t has values, any
\* number finds one.
ParseHangs ==
    /\ get_madt_item("ioapic", 0) # {}
    /\ ~ CountEnds("so") \/ (OverridesFit /\ ~ CountEnds("lapic"))

\* The IO APIC's item and the memory from halloc are used unchecked.
ParseFaults == ~ ParseHangs /\ ~ (get_madt_item("ioapic", 0) # {} /\ OverridesFit /\ CpusFit)

\* The loop over the tables ends at the first invalid one.
Parsed == \E i \in DOMAIN sdt : sdt[i].madt /\ \A j \in 1 .. i : sdt[j].valid

init_acpi ==
    /\ pc = "acpi"
    /\ \/ ~ Parsed /\ pc' = "lapic" /\ UNCHANGED <<ovrds, found>>
       \/ Parsed /\ ParseHangs /\ pc' = "counting" /\ UNCHANGED <<ovrds, found>>
       \/ Parsed /\ ParseFaults /\ pc' = "halted" /\ UNCHANGED <<ovrds, found>>
       \/ /\ Parsed /\ ~ ParseHangs /\ ~ ParseFaults
          /\ pc' = "lapic" /\ ovrds' = Overrides /\ found' = TRUE
    /\ UNCHANGED <<firmware, gates, enabled, redtbl, pending, pit_ticks>>

-----------------------------------------------------------------------------
(* Local APIC and IO APIC *)

\* Without a local APIC the function returns early; in xAPIC mode it writes to
\* the address from the MADT.
init_lapic ==
    /\ pc = "lapic"
    /\ \/ /\ apic = "x" /\ ~ found
          /\ pc' = "halted" /\ UNCHANGED <<enabled, gates>>
       \/ /\ apic = "none" /\ pc' = "ioapic" /\ UNCHANGED <<enabled, gates>>
       \/ /\ apic = "x2" \/ (apic = "x" /\ found)
          /\ pc' = "ioapic" /\ enabled' = TRUE
          /\ gates' = gates \cup {32, 33, PIT_IDT_ENTRY, 255}
    /\ UNCHANGED <<firmware, ovrds, found, redtbl, pending, pit_ticks>>

init_ioapic ==
    /\ pc = "ioapic" /\ pc' = IF found THEN "route" ELSE "halted"
    /\ UNCHANGED <<firmware, ovrds, found, gates, enabled, redtbl, pending, pit_ticks>>

\* The first override for the line, if there is one.
find_so(irq) ==
    {i \in DOMAIN ovrds : ovrds[i].irq = irq /\ \A j \in 1 .. i - 1 : ovrds[j].irq # irq}

PinOf(irq) ==
    IF find_so(irq) = {} THEN irq ELSE ovrds[CHOOSE i \in find_so(irq) : TRUE].gsi % 256

\* The position of an entry is a uint8_t, and must be in the table.
redtbl_pos(pin) == (REDTBL + 2 * pin) % 256

\* Mutant of write_redirect: the last entry counts as outside the table.
WriteRedirectShort(pos, entry) ==
    IF pos < 16 \/ pos >= 62 \/ pos % 2 # 0 THEN redtbl
    ELSE [redtbl EXCEPT ![(pos - REDTBL) \div 2] = entry]

write_redirect(pos, entry) ==
    IF pos < 16 \/ pos > 63 \/ pos % 2 # 0 THEN redtbl
    ELSE [redtbl EXCEPT ![(pos - REDTBL) \div 2] = entry]

set_irq(irq, vector, masked) ==
    redtbl' = write_redirect(redtbl_pos(PinOf(irq)), [vector |-> vector, mask |-> masked])

\* Mutant of set_irq_mask: the entry of the line's own number is changed.
SetMaskNoOverride(irq, masked) ==
    redtbl' = write_redirect(redtbl_pos(irq), [redtbl[irq] EXCEPT !.mask = masked])

\* Reads the entry, changes the mask and writes it back.
set_irq_mask(irq, masked) ==
    LET pin == PinOf(irq)
    IN redtbl' = write_redirect(redtbl_pos(pin), [redtbl[pin] EXCEPT !.mask = masked])

-----------------------------------------------------------------------------
(* calibrate_apic_timer *)

Step(from, to) ==
    pc = from /\ pc' = to /\ UNCHANGED <<firmware, ovrds, found, gates, enabled, pending>>

RoutePit ==
    Step("route", "pit") /\ set_irq(0, PIT_IDT_ENTRY, TRUE) /\ UNCHANGED pit_ticks

\* Without a local APIC its registers are not mapped.
StartPit ==
    Step("pit", IF apic # "none" THEN "unmask" ELSE "halted") /\ pit_ticks' = 0 /\ UNCHANGED redtbl

UnmaskPit == Step("unmask", "wait") /\ set_irq_mask(0, FALSE) /\ UNCHANGED pit_ticks

Waited == pit_ticks >= Wait /\ Step("wait", "mask") /\ UNCHANGED <<redtbl, pit_ticks>>

MaskPit == Step("mask", "reset") /\ set_irq_mask(0, TRUE) /\ UNCHANGED pit_ticks

\* Then KCPUS[CPU].stack is set in init_kernel.
ResetTicks == Step("reset", "done") /\ pit_ticks' = 0 /\ UNCHANGED redtbl

-----------------------------------------------------------------------------
(* Hardware and handlers *)

\* The pin the board wires a line to, according to the firmware.
Wired(irq) ==
    LET so == {i \in DOMAIN items : items[i].type = "so" /\ items[i].irq = irq}
    IN IF so = {} THEN irq ELSE items[CHOOSE i \in so : \A j \in so : i <= j].gsi

\* The device on a pin raises its line; a masked pin loses the edge.  The bound
\* on pit_ticks stops a PIT that nobody listens to any more.
Raise(p) ==
    /\ pc # "halted" /\ enabled /\ ~ redtbl[p].mask /\ pit_ticks <= Wait
    /\ pending' = pending \cup {redtbl[p].vector}
    /\ UNCHANGED <<firmware, pc, ovrds, found, gates, enabled, redtbl, pit_ticks>>

PitTick == Raise(Wired(0))

\* A pending interrupt may come before any step, also after its pin was
\* masked.  One without a gate, or with that of an exception, ends in
\* exception_handler; the other handlers are not meant for devices and may
\* fault, as schedule does without an idle thread.
Deliver(v) ==
    /\ pc # "halted" /\ v \in pending
    /\ pending' = pending \ {v}
    /\ \/ /\ v = PIT_IDT_ENTRY /\ v \in gates
          /\ pit_ticks' = pit_ticks + 1 /\ UNCHANGED pc
       \/ /\ v # PIT_IDT_ENTRY /\ v \in gates \ 0 .. 31
          /\ pc' \in {pc, "halted"} /\ UNCHANGED pit_ticks
       \/ /\ v \notin gates \ 0 .. 31
          /\ pc' = "halted" /\ UNCHANGED pit_ticks
    /\ UNCHANGED <<firmware, ovrds, found, gates, enabled, redtbl>>

\* The loops of the wait and of the count; what comes after the calibration; hlt.
Idles == pc \in {"wait", "counting", "done", "halted"} /\ UNCHANGED irq_vars

Boot ==
    \/ init_acpi \/ init_lapic \/ init_ioapic \/ RoutePit \/ StartPit \/ UnmaskPit
    \/ Waited \/ MaskPit \/ ResetTicks

IrqNext == Boot \/ (\E p \in Pins : Raise(p)) \/ (\E v \in pending : Deliver(v)) \/ Idles

\* The processor executes, the PIT counts, and its interrupts arrive, other
\* devices or not.
IrqSpec ==
    /\ IrqInit /\ [][IrqNext]_irq_vars
    /\ WF_irq_vars(Boot) /\ WF_irq_vars(PitTick) /\ WF_irq_vars(Deliver(PIT_IDT_ENTRY))

-----------------------------------------------------------------------------
(* Properties *)

\* What boot must come to: with an intact ACPI table list, an IO APIC and a local
\* APIC the end of the calibration; else a fault, or the endless count of a MADT
\* with too many items.
Outcome ==
    IF Parsed /\ ParseHangs THEN "counting"
    ELSE IF Parsed /\ ~ ParseFaults /\ apic # "none" THEN "done"
    ELSE "halted"

\* The endless wait of calibrate_apic_timer (cpu/lapic.c:106) ends, wherever the
\* PIT's line is wired to, unless an entry the firmware left unmasked brings an
\* interrupt nobody handles; what the wait needs and lacks stops boot before it.
CalibrationEnds ==
    <> (pc = Outcome \/ (pc = "halted" /\ \E p \in Pins : ~ left[p].mask))

\* At any time, a pin that is not masked is one the firmware left so, or one that
\* set_irq has routed, for the line that is wired to it, to a vector that has a
\* handler.
UnmaskedIsHandled ==
    \A p \in Pins : ~ redtbl[p].mask =>
        \/ redtbl[p] = left[p]
        \/ p = Wired(0) /\ redtbl[p].vector \in gates \ 0 .. 31
=============================================================================
