------------------------------- MODULE MCHeap -------------------------------
(***************************************************************************)
(* Heap for TLC.                                                           *)
(***************************************************************************)
EXTENDS Heap

\* In every region and in none, the first byte behind the bit array, and a byte
\* inside the last block.
MCStrays == [region : 0 .. MaxRegions, off : {2, 7}]
=============================================================================
