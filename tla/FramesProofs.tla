---------------------------- MODULE FramesProofs ----------------------------
(***************************************************************************)
(* Proofs about Frames, for every memory map, every size of memory and     *)
(* every number of rows.                                                   *)
(*                                                                         *)
(* NoFrameTwice is not inductive: it needs that a clear bit always belongs *)
(* to memory (OnlyMemoryFree), so that pmm_set_bit never ignores the frame *)
(* alloc_frame has found and init_acpi never clears the bit of one that is *)
(* held.                                                                   *)
(***************************************************************************)
EXTENDS Frames, TLAPS

\* A bit that is clear is that of a page that may be handed out.
OnlyMemoryFree == Bits \ used \subseteq Ram \cup Mistaken \cup Released

IInv ==
    /\ TypeOK /\ InsideBitmap /\ OnlyMemoryFree
    /\ NoFrameTwice /\ OnlyFreeMemory /\ NoFrameLost

-----------------------------------------------------------------------------
(* Memory maps *)

\* The rows of the bitmap have a bit for every page below MemPages.
LEMMA RowsSuffice == \A p \in Nat : p < MemPages => p \in Bits
<1> DEFINE E == Entries
<1>1. MemPages \in Nat /\ RowBits \in Nat \ {0}
  BY FramesAssumption
<1>2. E \in Nat /\ MemPages <= E * RowBits
  BY <1>1 DEF Entries
<1>3. E * RowBits \in Nat
  BY <1>1, <1>2
<1> HIDE DEF E
<1>4. \A p \in Nat : p < MemPages => p \in 0 .. E * RowBits - 1
  BY <1>1, <1>2, <1>3
<1> QED
  BY <1>4 DEF E, Bits

\* An area of a memory map lies below MemPages.
LEMMA AreasInside ==
  ASSUME NEW m \in MemoryMaps, NEW i \in DOMAIN m
  PROVE  \A p \in Area(m[i]) : p \in Nat /\ p < MemPages
<1> DEFINE D == [type : Nat, start : Nat, count : Nat]
<1>0. m \in Seq(D)
  BY MapAssumption
<1>1. m[i] \in D
  <2> HIDE DEF D
  <2> QED BY <1>0
<1>2. m[i].start + m[i].count <= MemPages
  BY MapAssumption
<1> QED
  BY <1>1, <1>2, FramesAssumption DEF Area

\* The pages of areas are pages of memory.
LEMMA PagesInside ==
  ASSUME NEW m \in MemoryMaps, NEW types
  PROVE  \A p \in PagesOf(m, types) : p \in Nat /\ p < MemPages
BY AreasInside DEF PagesOf

\* More types of areas have no fewer pages.
LEMMA PagesMonotone ==
  ASSUME NEW m, NEW S, NEW T, S \subseteq T
  PROVE  PagesOf(m, S) \subseteq PagesOf(m, T)
BY DEF PagesOf

\* The types of the areas of a memory map are numbers.
LEMMA TypesAreNumbers ==
  ASSUME NEW m \in MemoryMaps, NEW i \in DOMAIN m
  PROVE  m[i].type \in Nat
<1> DEFINE D == [type : Nat, start : Nat, count : Nat]
<1>0. m \in Seq(D)
  BY MapAssumption
<1>1. m[i] \in D
  <2> HIDE DEF D
  <2> QED BY <1>0
<1> QED
  BY <1>1

\* A type whose low byte is that of free memory is a free type, or above 255.
LEMMA LowByte ==
  ASSUME NEW type \in Nat
  PROVE  /\ type \in FreeTypes => type % 256 \in FreeTypes /\ ~ type > 255
         /\ type % 256 \in FreeTypes => type \in FreeTypes \/ type > 255
         /\ AcpiType % 256 \notin FreeTypes
BY DEF FreeTypes, AcpiType

\* init_pmm frees the declared free memory and what it mistakes for it.
LEMMA FreedSplits ==
  ASSUME mmap \in MemoryMaps
  PROVE  Freed(mmap) \ {0} = (PagesOf(mmap, FreeTypes) \ {0}) \cup Mistaken
<1>1. \A p : p \in Freed(mmap)
               <=> \E i \in DOMAIN mmap : mmap[i].type % 256 \in FreeTypes /\ p \in Area(mmap[i])
  BY DEF Freed
<1>2. \A p : p \in PagesOf(mmap, FreeTypes)
               <=> \E i \in DOMAIN mmap : mmap[i].type \in FreeTypes /\ p \in Area(mmap[i])
  BY DEF PagesOf
<1>3. \A i \in DOMAIN mmap :
          /\ mmap[i].type \in FreeTypes => mmap[i].type % 256 \in FreeTypes
          /\ mmap[i].type % 256 \in FreeTypes
                 => mmap[i].type \in FreeTypes \/ mmap[i].type > 255
  BY TypesAreNumbers, LowByte
<1> QED
  BY <1>1, <1>2, <1>3 DEF Mistaken

\* The area of the ACPI tables contains no page that init_pmm frees.
LEMMA AcpiApart ==
  ASSUME NEW m \in MemoryMaps, NEW i \in DOMAIN m, m[i].type = AcpiType
  PROVE  /\ Area(m[i]) \cap Freed(m) = {}
         /\ Area(m[i]) \subseteq PagesOf(m, FreeTypes \cup {AcpiType})
<1>1. \A j \in DOMAIN m : m[j].type % 256 \in FreeTypes => j # i
  BY LowByte DEF AcpiType
<1>2. \A j \in DOMAIN m : j # i => Area(m[i]) \cap Area(m[j]) = {}
  BY MapAssumption
<1>3. Area(m[i]) \cap Freed(m) = {}
  BY <1>1, <1>2 DEF Freed
<1>4. Area(m[i]) \subseteq PagesOf(m, FreeTypes \cup {AcpiType})
  BY DEF PagesOf
<1> QED
  BY <1>3, <1>4

\* Devices are apart from everything that is declared free or reclaimed.
LEMMA DevicesApart ==
  ASSUME NEW m \in MemoryMaps
  PROVE  \A p \in PagesOf(m, FreeTypes \cup {AcpiType}) :
             p \notin Framebuffer \cup {Lapic}
BY MapAssumption

\* What may be handed out has a bit that pmm_set_bit accepts.
LEMMA RamInside ==
  ASSUME mmap \in MemoryMaps
  PROVE  /\ \A p \in Ram \cup Mistaken \cup {Trampoline} :
                p \in Nat /\ p # 0 /\ p < MemPages /\ p \in Bits
         /\ Ram \subseteq PagesOf(mmap, FreeTypes \cup {AcpiType})
         /\ PagesOf(mmap, FreeTypes) \ {0} \subseteq Ram
<1>1. Ram \subseteq PagesOf(mmap, FreeTypes \cup {AcpiType}) /\ 0 \notin Ram
  BY PagesMonotone DEF Ram
<1>2. PagesOf(mmap, FreeTypes) \ {0} \subseteq Ram
  BY PagesMonotone DEF Ram
<1>3. \A p \in Ram \cup {Trampoline} : p \in Nat /\ p # 0 /\ p < MemPages
  BY <1>1, PagesInside, FramesAssumption
<1>4. \A p \in Mistaken : p \in Nat /\ p # 0 /\ p < MemPages
  <2>1. \A p \in Mistaken : p # 0 /\ \E i \in DOMAIN mmap : p \in Area(mmap[i])
    BY DEF Mistaken
  <2> QED
    BY <2>1, AreasInside
<1> QED
  BY <1>1, <1>2, <1>3, <1>4, RowsSuffice

-----------------------------------------------------------------------------
(* The inductive invariant *)

\* The bits init_pmm leaves clear are those of free memory, and nobody holds a frame.
LEMMA InitIInv == Init => IInv
<1> SUFFICES ASSUME Init PROVE IInv
  OBVIOUS
<1> USE DEF Init
<1>1. mmap \in MemoryMaps /\ phase = "pmm" /\ held = {} /\ Released = {}
  BY DEF Released
<1>2. Ram = PagesOf(mmap, FreeTypes) \ {0}
  BY <1>1 DEF Ram
<1>3. Trampoline \in Bits /\ Trampoline # 0 /\ ~ Trampoline > MemPages
  BY <1>1, RamInside, FramesAssumption
<1>4. used = Bits \ (Ram \cup Mistaken)
  <2>1. pmm_set_bit(Bits, Trampoline) = Bits
    BY <1>3 DEF pmm_set_bit
  <2> QED
    BY <1>1, <1>2, <2>1, FreedSplits DEF init_pmm, pmm_clear_area
<1>5. TypeOK
  BY <1>1, <1>4 DEF TypeOK
<1>6. InsideBitmap /\ OnlyMemoryFree /\ NoFrameTwice /\ OnlyFreeMemory
  BY <1>1, <1>2, <1>4 DEF InsideBitmap, OnlyMemoryFree, NoFrameTwice, OnlyFreeMemory
<1>7. NoFrameLost
  BY <1>1, <1>2, <1>4, RamInside DEF NoFrameLost
<1> QED
  BY <1>5, <1>6, <1>7 DEF IInv

\* alloc_frame, wherever it is called, keeps everything while the phase moves
\* on or not.
LEMMA GrantKeeps ==
  ASSUME IInv, NEW f \in Bits, Granted(f),
         UNCHANGED mmap, Ram' = Ram, Mistaken' = Mistaken, Released = {} \/ Released' = Released,
         phase' \in {"pmm", "acpi", "lapic", "smp", "waiting"},
         Released' \subseteq {Trampoline}, Released \subseteq Released'
  PROVE  IInv'
<1> USE DEF IInv
<1>1. mmap \in MemoryMaps /\ mmap' = mmap
  BY DEF TypeOK
<1>2. f \in Bits \ used /\ f \in Ram \cup Mistaken \cup Released /\ f # 0
  BY DEF Granted, pmm_request_frame, Scanned, OnlyMemoryFree, Bits
<1>3. f \in Nat /\ f < MemPages
  BY <1>1, <1>2, RamInside DEF Released
<1>4. used' = used \cup {f} /\ held' = held \cup {f}
  BY <1>2, <1>3, FramesAssumption DEF Granted, pmm_set_bit
<1>5. TypeOK'
  BY <1>1, <1>3, <1>4 DEF TypeOK, Granted
<1>6. InsideBitmap' /\ OnlyMemoryFree'
  BY <1>2, <1>4 DEF InsideBitmap, OnlyMemoryFree, Bits, Entries
<1>7. NoFrameTwice' /\ OnlyFreeMemory'
  BY <1>2, <1>4 DEF NoFrameTwice, OnlyFreeMemory
<1>8. NoFrameLost'
  BY <1>1, <1>4 DEF NoFrameLost, PagesOf, Bits, Entries
<1> QED
  BY <1>5, <1>6, <1>7, <1>8

\* A refused alloc_frame changes no bit.
LEMMA RefusalKeeps ==
  ASSUME IInv, Refused, UNCHANGED mmap, Ram' = Ram, Mistaken' = Mistaken, Released' = Released,
         phase' \in {"pmm", "acpi", "lapic", "smp", "waiting"}
  PROVE  IInv'
<1> USE DEF IInv, Refused
<1>1. TypeOK'
  BY DEF TypeOK, RowWraps
<1>2. InsideBitmap' /\ OnlyMemoryFree' /\ NoFrameTwice' /\ OnlyFreeMemory'
  BY DEF InsideBitmap, OnlyMemoryFree, NoFrameTwice, OnlyFreeMemory, Bits, Entries
<1>3. NoFrameLost'
  BY DEF NoFrameLost, PagesOf, Bits, Entries
<1> QED
  BY <1>1, <1>2, <1>3

\* Every caller that sets or clears bits keeps the invariant.
LEMMA NextIInv == IInv /\ [Next]_vars => IInv'
<1> SUFFICES ASSUME IInv, [Next]_vars PROVE IInv'
  OBVIOUS
<1> USE DEF IInv
<1>0. mmap \in MemoryMaps
  BY DEF TypeOK
<1>1. ASSUME alloc_frame PROVE IInv'
  <2>1. UNCHANGED <<mmap, phase>> /\ Ram' = Ram /\ Mistaken' = Mistaken /\ Released' = Released
    BY <1>1 DEF alloc_frame, Ram, Mistaken, Freed, Released, PagesOf
  <2>2. Released \subseteq {Trampoline}
    BY DEF Released
  <2>3. CASE \E f \in Bits : Granted(f)
    BY <2>1, <2>2, <2>3, GrantKeeps DEF TypeOK
  <2>4. CASE Refused
    BY <2>1, <2>4, RefusalKeeps DEF TypeOK
  <2> QED
    BY <1>1, <2>3, <2>4 DEF alloc_frame
<1>2. ASSUME NEW f \in Bits, FreeFrame(f) PROVE IInv'
  <2>1. UNCHANGED <<mmap, phase, spinning>> /\ Ram' = Ram /\ Mistaken' = Mistaken /\ Released' = Released
    BY <1>2 DEF FreeFrame, Ram, Mistaken, Freed, Released, PagesOf
  <2>2. f \in held /\ f \in Ram \cup Mistaken \cup Released /\ f # 0
    BY <1>0, <1>2, RamInside DEF FreeFrame, OnlyFreeMemory, Released
  <2>3. used' = used \ {f} /\ held' = held \ {f}
    BY <1>2, <2>2 DEF FreeFrame, pmm_clear_bit
  <2>4. TypeOK' /\ InsideBitmap' /\ OnlyMemoryFree'
    BY <2>1, <2>2, <2>3 DEF TypeOK, InsideBitmap, OnlyMemoryFree, Bits, Entries
  <2>5. NoFrameTwice' /\ OnlyFreeMemory'
    BY <2>1, <2>2, <2>3 DEF NoFrameTwice, OnlyFreeMemory
  <2>6. NoFrameLost'
    BY <1>0, <2>1, <2>3 DEF NoFrameLost, PagesOf, Bits, Entries
  <2> QED
    BY <2>4, <2>5, <2>6
<1>3. ASSUME MapFramebuffer PROVE IInv'
  <2>1. UNCHANGED <<mmap, held, phase, spinning>> /\ Ram' = Ram /\ Mistaken' = Mistaken /\ Released' = Released
    BY <1>3 DEF MapFramebuffer, Ram, Mistaken, Freed, Released, PagesOf
  <2> DEFINE F == {p \in Framebuffer : p # 0 /\ ~ p > MemPages}
  <2>2. used' = used \cup F
    BY <1>3 DEF MapFramebuffer, pmm_set_area
  <2>3. F \subseteq Bits \cup ({MemPages} \cap Framebuffer)
    <3>1. \A p \in F : p \in Nat /\ (p < MemPages \/ p = MemPages)
      BY FramesAssumption
    <3> QED
      BY <3>1, RowsSuffice
  <2>4. F \cap PagesOf(mmap, FreeTypes) = {}
    BY <1>0, DevicesApart, PagesMonotone
  <2> HIDE DEF F
  <2>5. TypeOK' /\ InsideBitmap' /\ OnlyMemoryFree'
    BY <2>1, <2>2, <2>3 DEF TypeOK, InsideBitmap, OnlyMemoryFree, Bits, Entries
  <2>6. NoFrameTwice' /\ OnlyFreeMemory'
    BY <2>1, <2>2 DEF NoFrameTwice, OnlyFreeMemory
  <2>7. NoFrameLost'
    BY <1>0, <2>1, <2>2, <2>4 DEF NoFrameLost, PagesOf, Bits, Entries
  <2> QED
    BY <2>5, <2>6, <2>7
<1>4. ASSUME init_acpi PROVE IInv'
  <2>1. /\ UNCHANGED <<mmap, held, spinning>> /\ phase = "pmm" /\ phase' = "acpi"
        /\ Released = {} /\ Released' = {}
    BY <1>4 DEF init_acpi, Released
  <2>2. /\ Ram = PagesOf(mmap, FreeTypes) \ {0}
        /\ Ram' = PagesOf(mmap, FreeTypes \cup {AcpiType}) \ {0}
        /\ Mistaken' = Mistaken
    BY <2>1 DEF Ram, Mistaken, Freed, PagesOf
  <2>3. Ram \subseteq Ram'
    BY <2>2, PagesMonotone
  <2>4. PICK A : /\ used' = used \ A
                 /\ A \subseteq Ram' /\ A \cap (Ram \cup Mistaken) = {}
    <3>1. CASE used' = used
      <4>1. used' = used \ {} /\ {} \subseteq Ram' /\ {} \cap (Ram \cup Mistaken) = {}
        BY <3>1
      <4> QED
        BY <4>1
    <3>2. CASE \E i \in DOMAIN mmap :
                  AcpiArea(i) /\ used' = pmm_clear_area(used, Area(mmap[i]))
      <4>1. PICK i \in DOMAIN mmap :
                mmap[i].type = AcpiType /\ used' = pmm_clear_area(used, Area(mmap[i]))
        BY <3>2 DEF AcpiArea
      <4> DEFINE A == {p \in Area(mmap[i]) : p # 0}
      <4>2. used' = used \ A
        BY <4>1 DEF pmm_clear_area
      <4>3. A \subseteq Ram' /\ A \cap (Ram \cup Mistaken) = {}
        BY <1>0, <2>2, <4>1, AcpiApart, FreedSplits
      <4> QED
        BY <4>2, <4>3
    <3> QED
      BY <1>4, <3>1, <3>2 DEF init_acpi
  <2>5. TypeOK' /\ InsideBitmap' /\ OnlyMemoryFree'
    BY <2>1, <2>2, <2>3, <2>4 DEF TypeOK, InsideBitmap, OnlyMemoryFree, Bits, Entries
  <2>6. NoFrameTwice' /\ OnlyFreeMemory'
    BY <2>1, <2>2, <2>3, <2>4 DEF NoFrameTwice, OnlyFreeMemory
  <2>7. NoFrameLost'
    BY <1>0, <2>1, <2>4 DEF NoFrameLost, PagesOf, Bits, Entries
  <2> QED
    BY <2>5, <2>6, <2>7
<1>5. ASSUME init_lapic PROVE IInv'
  <2>1. /\ UNCHANGED <<mmap, held, spinning>> /\ phase = "acpi" /\ phase' = "lapic"
        /\ Released = {} /\ Released' = {} /\ Ram' = Ram /\ Mistaken' = Mistaken
    BY <1>5 DEF init_lapic, Released, Ram, Mistaken, Freed, PagesOf
  <2> DEFINE A == IF Lapic > MemPages THEN {} ELSE {Lapic}
  <2>2. used' = used \cup A
    BY <1>5, FramesAssumption DEF init_lapic, pmm_set_bit
  <2>3. A \subseteq Bits \cup ({MemPages} \cap {Lapic})
    <3>1. Lapic \in Nat /\ (Lapic > MemPages \/ Lapic < MemPages \/ Lapic = MemPages)
      BY FramesAssumption
    <3> QED
      BY <3>1, RowsSuffice
  <2>4. A \cap PagesOf(mmap, FreeTypes) = {}
    BY <1>0, <2>2, RamInside, DevicesApart, PagesMonotone
  <2>5. TypeOK' /\ InsideBitmap' /\ OnlyMemoryFree'
    BY <2>1, <2>2, <2>3 DEF TypeOK, InsideBitmap, OnlyMemoryFree, Bits, Entries
  <2>6. NoFrameTwice' /\ OnlyFreeMemory'
    BY <2>1, <2>2 DEF NoFrameTwice, OnlyFreeMemory
  <2>7. NoFrameLost'
    BY <1>0, <2>1, <2>2, <2>4 DEF NoFrameLost, PagesOf, Bits, Entries
  <2> QED
    BY <2>5, <2>6, <2>7
<1>6. ASSUME start_aps PROVE IInv'
  <2>1. /\ UNCHANGED mmap /\ phase = "lapic" /\ phase' \in {"smp", "waiting"}
        /\ Released = {} /\ Ram' = Ram /\ Mistaken' = Mistaken
    BY <1>6 DEF start_aps, Released, Ram, Mistaken, Freed, PagesOf
  <2>2. CASE phase' = "waiting"
    <3>1. Released' = {}
      BY <2>2 DEF Released
    <3>2. (\E f \in Bits : Granted(f)) \/ Refused
      BY <1>6, <2>2 DEF start_aps
    <3>3. CASE \E f \in Bits : Granted(f)
      BY <2>1, <3>1, <3>3, GrantKeeps
    <3>4. CASE Refused
      BY <2>1, <3>1, <3>4, RefusalKeeps
    <3> QED
      BY <3>2, <3>3, <3>4
  <2>3. CASE phase' = "smp"
    <3>1. Released' = {Trampoline}
      BY <2>3 DEF Released
    <3>2. /\ used' = used \ {Trampoline} /\ UNCHANGED <<held, spinning>>
      BY <1>6, <2>3, FramesAssumption DEF start_aps, pmm_clear_bit
    <3>3. TypeOK' /\ InsideBitmap' /\ OnlyMemoryFree'
      BY <2>1, <3>1, <3>2 DEF TypeOK, InsideBitmap, OnlyMemoryFree, Bits, Entries
    <3>4. NoFrameTwice' /\ OnlyFreeMemory'
      BY <2>1, <3>1, <3>2 DEF NoFrameTwice, OnlyFreeMemory
    <3>5. NoFrameLost'
      BY <1>0, <2>1, <3>2 DEF NoFrameLost, PagesOf, Bits, Entries
    <3> QED
      BY <3>3, <3>4, <3>5
  <2> QED
    BY <2>1, <2>2, <2>3
<1>7. ASSUME UNCHANGED vars PROVE IInv'
  BY <1>7 DEF vars, TypeOK, InsideBitmap, OnlyMemoryFree, NoFrameTwice, Released,
     OnlyFreeMemory, Ram, Mistaken, Freed, NoFrameLost, PagesOf, Bits, Entries
<1> QED
  BY <1>1, <1>2, <1>3, <1>4, <1>5, <1>6, <1>7 DEF Next, Spins

\* The invariant holds in every reachable state.
THEOREM Invariance == Spec => []IInv
BY InitIInv, NextIInv, PTL DEF Spec

-----------------------------------------------------------------------------
(* What it shows *)

\* The state of the frame allocator stays well typed.
THEOREM TypeCorrect == Spec => []TypeOK
BY Invariance, PTL DEF IInv

\* pmm_set_bit sets no bit outside KMEM.bitmap but the one of page MemPages, and
\* that only for a device page of this number.
THEOREM BitmapBounded == Spec => []InsideBitmap
BY Invariance, PTL DEF IInv

\* alloc_frame never hands out a frame that is held, up to the trampoline page,
\* which start_aps clears unseen.
THEOREM FramesExclusive == Spec => []NoFrameTwice
BY Invariance, PTL DEF IInv

\* alloc_frame hands out nothing but free memory of the memory map and areas
\* whose 32-bit type ends in that of free memory.
THEOREM FramesAreMemory == Spec => []OnlyFreeMemory
BY Invariance, PTL DEF IInv

\* The bit of every page of free memory that nobody holds is clear.
THEOREM FramesConserved == Spec => []NoFrameLost
BY Invariance, PTL DEF IInv
=============================================================================
