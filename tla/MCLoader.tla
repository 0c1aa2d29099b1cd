------------------------------ MODULE MCLoader ------------------------------
(***************************************************************************)
(* Loader for TLC.                                                         *)
(***************************************************************************)
EXTENDS Loader

\* Page 0, memory of the firmware at both ends, ACPI tables and a device, in
\* a map with memory to spare and in one that runs out.
Small(n) == [p \in 0 .. n + 5 |->
    IF p = 1 \/ p = n + 5 THEN "boot" ELSE IF p = 5 THEN "acpi"
    ELSE IF p = n + 4 THEN "device" ELSE "free"]

MCLayouts == {Small(12), Small(17)}
MCSegments == <<2, 1>>
=============================================================================
