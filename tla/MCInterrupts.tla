---------------------------- MODULE MCInterrupts ----------------------------
(***************************************************************************)
(* Interrupts for TLC.                                                     *)
(***************************************************************************)
EXTENDS Interrupts

Madt == [madt |-> TRUE, valid |-> TRUE]
Other == [madt |-> FALSE, valid |-> TRUE]
Broken(t) == [t EXCEPT !.valid = FALSE]

\* No MADT, a MADT before and behind other tables, and broken ones.
MCSdts == {<<Other>>, <<Madt, Other>>, <<Other, Madt>>, <<Broken(Other), Madt>>,
           <<Broken(Madt)>>, <<Madt, Broken(Other)>>}

So(irq, gsi) == [type |-> "so", irq |-> irq, gsi |-> gsi]
Item(type) == [type |-> type, irq |-> 0, gsi |-> 0]
Cpus(n) == [i \in 1 .. n |-> Item("lapic")]

\* The PIT at pin 2, as on most boards, at its own pin, at the last one and
\* overridden twice; no IO APIC; more CPUs than the heap has room for, and more
\* than can be counted.
MCMadts == {Cpus(1) \o <<Item("ioapic"), So(0, 2), So(9, 9)>>,
            Cpus(2) \o <<Item("ioapic")>>,
            Cpus(1) \o <<So(9, 9), Item("other"), So(0, 23), Item("ioapic")>>,
            <<Item("ioapic"), So(0, 2), So(0, 5)>> \o Cpus(2),
            Cpus(1) \o <<So(0, 2)>>,
            Cpus(4) \o <<Item("ioapic"), So(0, 2)>>,
            Cpus(5) \o <<Item("ioapic"), So(0, 2)>>}

Masked == [p \in Pins |-> [vector |-> 0, mask |-> TRUE]]
Unmasked(p, v) == [Masked EXCEPT ![p] = [vector |-> v, mask |-> FALSE]]

\* The firmware has masked everything, or left the PIT's usual pin or another
\* one unmasked, with a vector that never has a handler or that gets one.
MCLeftTables == {Masked, Unmasked(2, 104), Unmasked(1, 34), Unmasked(9, 255)}
=============================================================================
