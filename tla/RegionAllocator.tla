-------------------------- MODULE RegionAllocator --------------------------
(***************************************************************************)
(* What the callers of bm_alloc, bm_free and bm_realloc rely on: the       *)
(* regions they hold lie inside the managed blocks Lo .. Hi - 1 and no     *)
(* block belongs to two of them.  Which blocks are picked, when a request  *)
(* is refused and when a released block can be used again are left open.   *)
(***************************************************************************)
EXTENDS Integers

CONSTANTS Lo, Hi    \* the managed blocks are Lo .. Hi - 1

VARIABLE live       \* the regions callers hold

Region == [start : Lo .. Hi, n : 0 .. Hi - Lo]

\* The blocks of a region.
Extent(r) == r.start .. r.start + r.n - 1

\* r can be handed out without touching a block of a region in held.
Fresh(r, held) ==
    /\ r.start + r.n <= Hi
    /\ \A h \in held : Extent(r) \cap Extent(h) = {}

Init == live = {}

Allocate == \E r \in Region : Fresh(r, live) /\ live' = live \cup {r}

Release == \E r \in live : live' = live \ {r}

\* The new region of a reallocation exists beside the old one while the
\* contents are copied.
Move == \E r \in live, s \in Region :
            Fresh(s, live) /\ live' = (live \ {r}) \cup {s}

Next == Allocate \/ Release \/ Move

Spec == Init /\ [][Next]_live
=============================================================================
