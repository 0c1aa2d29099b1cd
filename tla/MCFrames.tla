------------------------------ MODULE MCFrames ------------------------------
(***************************************************************************)
(* Frames for TLC.                                                         *)
(***************************************************************************)
EXTENDS Frames

Desc(type, start, count) == [type |-> type, start |-> start, count |-> count]

\* An OEM type that ends in 7, as conventional memory does.
OemType == 1879048199   \* 0x70000007

\* Page 0 free and the trampoline page inside free memory, with an area of an
\* OEM; the trampoline page reserved and an area in the last row; two areas of
\* ACPI tables, in front of and between free areas.
MCMemoryMaps ==
    { <<Desc(7, 0, 4), Desc(2, 4, 1), Desc(9, 5, 1), Desc(OemType, 6, 1)>>,
      <<Desc(0, 0, 3), Desc(3, 3, 2), Desc(9, 5, 1), Desc(7, 9, 2)>>,
      <<Desc(9, 1, 1), Desc(7, 2, 2), Desc(9, 4, 1), Desc(4, 5, 1)>> }
=============================================================================
