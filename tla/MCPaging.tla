------------------------------ MODULE MCPaging ------------------------------
(***************************************************************************)
(* Paging for TLC: tables of 32 entries and 96 pages of memory.            *)
(***************************************************************************)
EXTENDS Paging

MCKernel == [paddr |-> 70, vaddr |-> Half + Half - 2, num_pages |-> 2]

MCFramebuffer == [start |-> 100, count |-> 2]

\* Free memory starts at one of the first pages, has holes that move tables
\* into the next region of 32 pages, and is large or small.
MCFreeSets ==
    {(first .. last) \ hole : first \in {1, 2, 6}, last \in {20, 36, 64},
                              hole \in SUBSET {9, 14, 25}}
=============================================================================
