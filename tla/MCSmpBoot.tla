----------------------------- MODULE MCSmpBoot -----------------------------
(***************************************************************************)
(* SmpBoot for TLC.                                                        *)
(***************************************************************************)
EXTENDS SmpBoot
=============================================================================
