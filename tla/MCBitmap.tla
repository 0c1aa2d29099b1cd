------------------------------ MODULE MCBitmap ------------------------------
(***************************************************************************)
(* Bitmap for TLC: a region of six blocks with one byte to spare.          *)
(***************************************************************************)
EXTENDS Bitmap

\* The start of every block, a pointer below the region, one into the middle of
\* a block, one into the bytes after the last block and one past the region.
MCPointers == {i * BSize : i \in 0 .. Total - 1} \cup {-1, 5, Size - 1, Size}
MCRequests == {0, 1, 3, 5}
=============================================================================
