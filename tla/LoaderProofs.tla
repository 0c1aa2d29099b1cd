---------------------------- MODULE LoaderProofs ----------------------------
(***************************************************************************)
(* Proofs about Loader, for memory maps, kernel images and table sizes of  *)
(* any size and any number of firmware events.                             *)
(***************************************************************************)
EXTENDS Loader, WellFoundedInduction, TLAPS

Stages == {"setup", "paging", "headers", "ke", "segments", "stack", "mmap", "parse",
           "bitmap", "free", "mmap2", "exit"} \cup End

\* MapAddr calls, as <<page, virtual page>>.
Calls == Nat \X ({"low", "high", "image"} \X Nat)

MapType(m) ==
    /\ m \in [DOMAIN m -> Kinds] /\ Cardinality(DOMAIN m) \in Nat
    /\ DOMAIN m = 0 .. Cardinality(DOMAIN m) - 1

OwnType ==
    own \in [pml4 : Nat, elf : SUBSET Nat, ke : Nat, segs : Seq(Nat), stack : Nat,
             bitmap : Nat, mmap : Nat]

TypeOK ==
    /\ pc \in Stages
    /\ MapType(mem) /\ MapType(kmap) /\ DOMAIN kmap = DOMAIN mem
    /\ OwnType /\ Len(own.segs) <= Len(Segments)
    /\ tables \in [DOMAIN tables -> Nat] /\ space \in [DOMAIN space -> Nat]
    /\ work \in Seq(Calls) /\ later \subseteq Seq(Calls)
    /\ fresh \in BOOLEAN

-----------------------------------------------------------------------------
(* Memory *)

\* Where AllocatePages and AllocatePool find memory.
LEMMA PlacesFree ==
    ASSUME NEW m, MapType(m), NEW n \in Nat \ {0}, NEW call, NEW p \in Places(m, n, call)
    PROVE  /\ p \in Nat \ {0} /\ p \in DOMAIN m
           /\ \A i \in p .. p + n - 1 : i \in DOMAIN m /\ m[i] = "free"
BY DEF Places, MapType

\* One page is the case of a range of one.
LEMMA PlaceFree ==
    ASSUME NEW m, MapType(m), NEW call, NEW p \in Places(m, 1, call)
    PROVE  /\ p \in Nat \ {0} /\ p \in DOMAIN m /\ m[p] = "free"
           /\ p .. p + 1 - 1 = {p}
<1>1. p \in Nat \ {0} /\ p \in DOMAIN m /\ \A i \in p .. p + 1 - 1 : m[i] = "free"
  BY PlacesFree
<1> QED
  BY <1>1

\* Marking pages leaves a map.
LEMMA MarkedType ==
    ASSUME NEW m, MapType(m), NEW A, NEW kind \in Kinds
    PROVE  /\ MapType(Marked(m, A, kind)) /\ DOMAIN Marked(m, A, kind) = DOMAIN m
           /\ \A p \in DOMAIN m : Marked(m, A, kind)[p] = IF p \in A THEN kind ELSE m[p]
<1> DEFINE f == Marked(m, A, kind)
<1>1. DOMAIN f = DOMAIN m /\ f \in [DOMAIN m -> Kinds]
  BY DEF Marked, MapType
<1>2. /\ f \in [DOMAIN f -> Kinds] /\ Cardinality(DOMAIN f) \in Nat
      /\ DOMAIN f = 0 .. Cardinality(DOMAIN f) - 1
  BY <1>1 DEF MapType
<1> QED
  BY <1>1, <1>2 DEF Marked, MapType

\* All pages of K but page 0 are of the kernel's type in m.
Loaded(K, m) == \A p \in K \ {0} : p \in DOMAIN m /\ m[p] = "loader"

\* Free pages that change their type were not among them.
LEMMA LoadedTake ==
    ASSUME NEW m, MapType(m), NEW K, Loaded(K, m), NEW A, NEW kind \in Kinds,
           \A p \in A : p # 0 /\ p \in DOMAIN m /\ m[p] = "free"
    PROVE  /\ Loaded(K, Marked(m, A, kind)) /\ K \cap A = {}
           /\ kind = "loader" => Loaded(A, Marked(m, A, kind))
BY MarkedType DEF Loaded

\* Pages given back that are not among them do not matter.
LEMMA LoadedGive ==
    ASSUME NEW m, MapType(m), NEW K, Loaded(K, m), NEW B, B \cap K \subseteq {0}
    PROVE  Loaded(K, Marked(m, B, "free"))
<1>1. "free" \in Kinds
  BY DEF Kinds
<1> QED
  BY <1>1, MarkedType DEF Loaded

SegPages == UNION {own.segs[k] .. own.segs[k] + Segments[k] - 1 : k \in DOMAIN own.segs}

\* The pages the kernel goes on using but for the memory map, and those the
\* loader gives back.
Kept == TablePages \cup {own.ke, own.stack, own.bitmap} \cup SegPages
Temp == own.elf \cup {own.mmap}

\* The two maps tell the same pages from devices.
SameDevices(m, n) ==
    DOMAIN m = DOMAIN n /\ \A p \in DOMAIN m \ {0} : m[p] = "device" <=> n[p] = "device"

MemInv ==
    /\ Loaded(Kept, mem) /\ Loaded(Temp, mem) /\ Kept \cap Temp \subseteq {0}
    /\ own.mmap \notin own.elf /\ 0 \notin own.elf
    /\ fresh => kmap = mem
    /\ pc = "entered" => fresh
    /\ SameDevices(kmap, mem)

-----------------------------------------------------------------------------
(* Types *)

\* The calls of a MapRange.
LEMMA PagesType ==
    ASSUME NEW p \in Nat, NEW half \in {"low", "high", "image"}, NEW v \in Nat, NEW n \in Nat
    PROVE  /\ Pages(p, <<half, v>>, n) \in Seq(Calls) /\ Len(Pages(p, <<half, v>>, n)) = n
           /\ \A i \in 1 .. n :
                 /\ Pages(p, <<half, v>>, n)[i] = <<p + i - 1, <<half, v + i - 1>>>>
                 /\ Pages(p, <<half, v>>, n)[i] \in Calls
<1>1. \A i \in 1 .. n : <<p + i - 1, <<half, v + i - 1>>>> \in Calls
  BY DEF Calls
<1> QED
  BY <1>1 DEF Pages

\* One entry more.
LEMMA ExtendType ==
    ASSUME NEW f, f \in [DOMAIN f -> Nat], NEW x, NEW y \in Nat
    PROVE  /\ Extend(f, x, y) \in [DOMAIN Extend(f, x, y) -> Nat]
           /\ DOMAIN Extend(f, x, y) = DOMAIN f \cup {x}
           /\ \A z \in DOMAIN f \cup {x} : Extend(f, x, y)[z] = IF z = x THEN y ELSE f[z]
BY DEF Extend

\* What a call of MapAddr consists of.
LEMMA CallType ==
    ASSUME NEW c \in Calls
    PROVE  c[1] \in Nat /\ c[2][1] \in {"low", "high", "image"} /\ c[2][2] \in Nat
           /\ c = <<c[1], <<c[2][1], c[2][2]>>>>
BY DEF Calls

\* A page for one field.
LEMMA ClaimType ==
    ASSUME TypeOK, NEW stage, NEW call, NEW field \in {"ke", "stack", "bitmap"},
           NEW half \in {"low", "high"}, NEW next \in Stages,
           Claim(stage, call, field, half, next)
    PROVE  TypeOK'
<1>1. PICK p \in Places(mem, 1, call) :
          /\ mem' = Taken(mem, p, 1) /\ own' = [own EXCEPT ![field] = p]
          /\ work' = Pages(p, <<half, p>>, 1)
  BY DEF Claim
<1>2. MapType(mem) /\ p \in Nat /\ "loader" \in Kinds
  BY PlaceFree DEF TypeOK, Kinds
<1>3. MapType(mem') /\ DOMAIN mem' = DOMAIN mem
  BY <1>1, <1>2, MarkedType DEF Taken
<1>4. work' \in Seq(Calls)
  BY <1>1, <1>2, PagesType
<1>5. OwnType' /\ own'.segs = own.segs
  BY <1>1, <1>2 DEF TypeOK, OwnType
<1>6. pc' = next /\ fresh' = FALSE /\ UNCHANGED <<tables, space, later, kmap>>
  BY DEF Claim, paging, history
<1> QED
  BY <1>3, <1>4, <1>5, <1>6 DEF TypeOK, MapType

\* A new memory map.
LEMMA GetMMAPType ==
    ASSUME TypeOK, NEW stage, NEW next \in Stages, GetMMAP(stage, next)
    PROVE  TypeOK'
<1>1. PICK p \in Places(mem, 1, "pool") :
          /\ mem' = Taken(mem, p, 1) /\ own' = [own EXCEPT !.mmap = p]
          /\ kmap' = Taken(mem, p, 1) /\ fresh' = TRUE
  BY DEF GetMMAP, ReadMap
<1>2. MapType(mem) /\ p \in Nat /\ "loader" \in Kinds
  BY PlaceFree DEF TypeOK, Kinds
<1>3. MapType(mem') /\ DOMAIN mem' = DOMAIN mem /\ kmap' = mem'
  BY <1>1, <1>2, MarkedType DEF Taken
<1>4. OwnType' /\ own'.segs = own.segs
  BY <1>1, <1>2 DEF TypeOK, OwnType
<1>5. pc' = next /\ UNCHANGED <<tables, space, work, later>>
  BY DEF GetMMAP, paging
<1> QED
  BY <1>1, <1>3, <1>4, <1>5 DEF TypeOK, MapType

\* The calls of MapAddr and MapRange keep the types.
LEMMA MapType1 ==
    ASSUME TypeOK, MapStep \/ NextRange
    PROVE  TypeOK'
<1>0. "returned" \in Stages
  BY DEF Stages, End
<1>1. CASE WriteEntry
  <2>1. work # <<>> /\ Head(work) \in Calls /\ work' = Tail(work) /\ work' \in Seq(Calls)
    BY <1>1 DEF WriteEntry, TypeOK
  <2>2. space' \in [DOMAIN space' -> Nat]
    BY <1>1, <2>1, CallType, ExtendType DEF WriteEntry, TypeOK
  <2> QED
    BY <1>1, <2>1, <2>2 DEF WriteEntry, TypeOK, OwnType
<1>2. CASE AddTable
  <2>1. PICK t \in Places(mem, 1, "pages") :
            /\ mem' = Taken(mem, t, 1) /\ work' = <<<<t, low(t)>>>> \o work
            /\ tables' = Extend(tables, Zone(Head(work)[2]), t)
    BY <1>2 DEF AddTable, TableCalls
  <2>2. MapType(mem) /\ t \in Nat /\ "loader" \in Kinds
    BY PlaceFree DEF TypeOK, Kinds
  <2>3. MapType(mem') /\ DOMAIN mem' = DOMAIN mem
    BY <2>1, <2>2, MarkedType DEF Taken
  <2>4. work' \in Seq(Calls)
    <3>1. <<t, low(t)>> \in Calls
      BY <2>2 DEF Calls, low
    <3> QED
      BY <2>1, <3>1 DEF TypeOK
  <2>5. tables' \in [DOMAIN tables' -> Nat]
    BY <2>1, <2>2, ExtendType DEF TypeOK
  <2>6. fresh' = FALSE /\ UNCHANGED <<pc, own, space, later, kmap>>
    BY <1>2 DEF AddTable
  <2> QED
    BY <2>3, <2>4, <2>5, <2>6 DEF TypeOK, MapType, OwnType
<1>3. CASE TableRefused
  <2>1. /\ UNCHANGED <<mem, own, tables, space, later, kmap, fresh>>
        /\ pc' \in {pc, "returned"} /\ work' \in {work, <<>>}
    BY <1>3, Zenon DEF TableRefused, paging
  <2>2. <<>> \in Seq(Calls)
    OBVIOUS
  <2> QED
    BY <1>0, <2>1, <2>2 DEF TypeOK, OwnType
<1>4. CASE NextRange
  BY <1>4 DEF NextRange, paging, TypeOK, OwnType
<1> QED
  BY <1>1, <1>2, <1>3, <1>4 DEF MapStep

\* The firmware's events and errors keep the types.
LEMMA EventType ==
    ASSUME TypeOK, FirmwareEvent \/ Error \/ Over
    PROVE  TypeOK'
<1>0. "returned" \in Stages /\ "boot" \in Kinds
  BY DEF Stages, End, Kinds
<1>1. CASE FirmwareEvent
  <2>1. PICK p \in Places(mem, 1, "pages") : mem' = Marked(mem, {p}, "boot")
    BY <1>1 DEF FirmwareEvent
  <2>2. MapType(mem') /\ DOMAIN mem' = DOMAIN mem
    BY <1>0, <2>1, MarkedType DEF TypeOK
  <2>3. fresh' = FALSE /\ UNCHANGED <<pc, own, tables, space, work, later, kmap>>
    BY <1>1 DEF FirmwareEvent, paging
  <2> QED
    BY <2>2, <2>3 DEF TypeOK, MapType, OwnType
<1>2. CASE Error
  BY <1>0, <1>2 DEF Error, paging, TypeOK, OwnType
<1>3. CASE Over
  BY <1>3 DEF Over, vars, TypeOK, OwnType
<1> QED
  BY <1>1, <1>2, <1>3

\* The stages of LoadKernel and of the tables keep the types.
LEMMA LoadType ==
    ASSUME TypeOK, Setup \/ ConfigurePaging \/ ReadHeaders \/ LoadSegment \/ CloseKernel
    PROVE  TypeOK'
<1>0. /\ {"paging", "headers", "lost", "ke", "stack"} \subseteq Stages
      /\ "loader" \in Kinds /\ "free" \in Kinds /\ MapType(mem)
  BY DEF Stages, End, Kinds, TypeOK
<1>1. CASE Setup
  BY <1>0, <1>1 DEF Setup, paging, TypeOK, OwnType
<1>2. CASE ConfigurePaging
  <2>1. fresh' = FALSE /\ UNCHANGED <<tables, space, later, kmap>>
    BY <1>2 DEF ConfigurePaging, paging
  <2>2. CASE pc' = "lost" /\ UNCHANGED <<mem, own, work>>
    BY <1>0, <2>1, <2>2 DEF TypeOK, OwnType
  <2>3. ASSUME NEW p \in Places(mem, 1, "pages"), mem' = Taken(mem, p, 1),
               own' = [own EXCEPT !.pml4 = p], work' = Pages(p, low(p), 1), pc' = "headers"
        PROVE  TypeOK'
    <3>1. p \in Nat
      BY <1>0, PlaceFree
    <3>2. MapType(mem') /\ DOMAIN mem' = DOMAIN mem
      BY <1>0, <2>3, MarkedType DEF Taken
    <3>3. work' \in Seq(Calls)
      BY <2>3, <3>1, PagesType DEF low
    <3>4. OwnType' /\ own'.segs = own.segs
      BY <2>3, <3>1 DEF TypeOK, OwnType
    <3> QED
      BY <1>0, <2>1, <2>3, <3>2, <3>3, <3>4 DEF TypeOK, MapType
  <2> QED
    BY <1>2, <2>2, <2>3 DEF ConfigurePaging
<1>3. CASE ReadHeaders
  <2>1. PICK p \in Places(mem, 1, "pool") : \E q \in Places(Taken(mem, p, 1), 1, "pool") :
            mem' = Marked(mem, {p, q}, "loader") /\ own' = [own EXCEPT !.elf = {p, q}]
    BY <1>3 DEF ReadHeaders
  <2>2. PICK q \in Places(Taken(mem, p, 1), 1, "pool") :
            mem' = Marked(mem, {p, q}, "loader") /\ own' = [own EXCEPT !.elf = {p, q}]
    BY <2>1
  <2>3. MapType(Taken(mem, p, 1))
    BY <1>0, MarkedType DEF Taken
  <2>4. p \in Nat /\ q \in Nat
    BY <1>0, <2>3, PlaceFree
  <2>5. MapType(mem') /\ DOMAIN mem' = DOMAIN mem
    BY <1>0, <2>2, MarkedType
  <2>6. OwnType' /\ own'.segs = own.segs
    BY <2>2, <2>4 DEF TypeOK, OwnType
  <2>7. pc' = "ke" /\ fresh' = FALSE /\ UNCHANGED <<tables, space, work, later, kmap>>
    BY <1>3 DEF ReadHeaders, paging
  <2> QED
    BY <1>0, <2>5, <2>6, <2>7 DEF TypeOK, MapType
<1>4. CASE LoadSegment
  <2> DEFINE k == Len(own.segs) + 1
  <2>1. k \in DOMAIN Segments /\ Segments[k] \in Nat \ {0}
    BY <1>4, LoaderAssumption DEF LoadSegment, TypeOK, OwnType
  <2>2. PICK p \in Places(mem, Segments[k], "pages") :
           /\ mem' = Taken(mem, p, Segments[k])
           /\ own' = [own EXCEPT !.segs = Append(@, p)]
           /\ later' = {<<Pages(p, p_vaddr(k), Segments[k])[i]>> : i \in 1 .. Segments[k]}
    BY <1>4 DEF LoadSegment
  <2>3. p \in Nat /\ k \in Nat
    <3>1. k \in Nat
      BY DEF TypeOK, OwnType
    <3> HIDE DEF k
    <3> QED
      BY <1>0, <2>1, <3>1, PlacesFree
  <2>4. MapType(mem') /\ DOMAIN mem' = DOMAIN mem
    BY <1>0, <2>2, MarkedType DEF Taken
  <2>5. OwnType' /\ own'.segs = Append(own.segs, p)
    <3>1. own.segs \in Seq(Nat) /\ Append(own.segs, p) \in Seq(Nat)
      BY <2>3 DEF TypeOK, OwnType
    <3> HIDE DEF k
    <3> QED
      BY <2>2, <3>1 DEF TypeOK, OwnType
  <2>6. Len(own'.segs) <= Len(Segments)
    BY <1>4, <2>3, <2>5 DEF LoadSegment, TypeOK, OwnType
  <2>7. later' \subseteq Seq(Calls)
    <3>1. k * ZoneSize \in Nat
      BY <2>3, LoaderAssumption
    <3>2. \A i \in 1 .. Segments[k] : Pages(p, p_vaddr(k), Segments[k])[i] \in Calls
      <4> HIDE DEF k
      <4> QED
        BY <2>1, <2>3, <3>1, PagesType DEF p_vaddr
    <3>3. \A c \in Calls : <<c>> \in Seq(Calls)
      OBVIOUS
    <3> HIDE DEF k
    <3> QED
      BY <2>2, <3>2, <3>3
  <2>8. fresh' = FALSE /\ UNCHANGED <<pc, tables, space, work, kmap>>
    BY <1>4 DEF LoadSegment, paging
  <2> QED
    BY <2>4, <2>5, <2>6, <2>7, <2>8 DEF TypeOK, MapType
<1>5. CASE CloseKernel
  <2>1. MapType(mem') /\ DOMAIN mem' = DOMAIN mem
    BY <1>0, <1>5, MarkedType DEF CloseKernel
  <2>2. OwnType' /\ own'.segs = own.segs
    BY <1>5 DEF CloseKernel, TypeOK, OwnType
  <2>3. pc' = "stack" /\ fresh' = FALSE /\ UNCHANGED <<tables, space, work, later, kmap>>
    BY <1>5 DEF CloseKernel, paging
  <2> QED
    BY <1>0, <2>1, <2>2, <2>3 DEF TypeOK, MapType
<1> QED
  BY <1>1, <1>2, <1>3, <1>4, <1>5

\* The stages of the memory map keep the types.
LEMMA MapsType ==
    ASSUME TypeOK, ParseMMAP \/ BitmapRefused \/ FreeMMAP \/ ExitBootServices
    PROVE  TypeOK'
<1>0. /\ {"bitmap", "free", "mmap2", "entered", "returned"} \subseteq Stages
      /\ "free" \in Kinds /\ MapType(mem) /\ MapType(kmap)
  BY DEF Stages, End, Kinds, TypeOK
<1>1. CASE ParseMMAP
  <2>1. later' \subseteq Seq(Calls)
    <3>1. ASSUME NEW d \in Descriptors(kmap)
          PROVE  Pages(d[1], low(d[1]), d[2] - d[1] + 1) \in Seq(Calls)
      <4>1. d[1] \in Nat /\ d[2] \in Nat /\ d[1] <= d[2]
        BY <1>0 DEF Descriptors, MapType
      <4>2. d[2] - d[1] + 1 \in Nat
        BY <4>1
      <4> QED
        BY <4>1, <4>2, PagesType DEF low
    <3> QED
      BY <1>1, <3>1 DEF ParseMMAP
  <2>2. pc' = "bitmap" /\ UNCHANGED <<mem, own, tables, space, work, kmap, fresh>>
    BY <1>1 DEF ParseMMAP, paging
  <2> QED
    BY <1>0, <2>1, <2>2 DEF TypeOK, OwnType
<1>2. CASE BitmapRefused
  <2>1. Pages(0, low(0), 1) \in Seq(Calls)
    BY PagesType DEF low
  <2> QED
    BY <1>0, <1>2, <2>1 DEF BitmapRefused, paging, TypeOK, OwnType
<1>3. CASE FreeMMAP
  <2>1. MapType(mem') /\ DOMAIN mem' = DOMAIN mem
    BY <1>0, <1>3, MarkedType DEF FreeMMAP
  <2>2. OwnType' /\ own'.segs = own.segs
    BY <1>3 DEF FreeMMAP, TypeOK, OwnType
  <2>3. pc' = "mmap2" /\ fresh' = FALSE /\ UNCHANGED <<tables, space, work, later, kmap>>
    BY <1>3 DEF FreeMMAP, paging
  <2> QED
    BY <1>0, <2>1, <2>2, <2>3 DEF TypeOK, MapType
<1>4. CASE ExitBootServices
  BY <1>0, <1>4 DEF ExitBootServices, paging, TypeOK, OwnType
<1> QED
  BY <1>1, <1>2, <1>3, <1>4

\* Every step keeps the types.
LEMMA NextType == ASSUME TypeOK, Next PROVE TypeOK'
<1>0. {"segments", "mmap", "free", "parse", "exit"} \subseteq Stages
  BY DEF Stages
<1>1. CASE MapKernelEntries \/ AllocateStack \/ PlaceBitmap
  BY <1>0, <1>1, ClaimType DEF MapKernelEntries, AllocateStack, PlaceBitmap
<1>2. CASE GetMMAP("mmap", "parse") \/ GetMMAP("mmap2", "exit")
  BY <1>0, <1>2, GetMMAPType
<1> QED
  BY <1>1, <1>2, MapType1, EventType, LoadType, MapsType DEF Next

\* Initially memory is as the firmware has it.
LEMMA InitType == Init => TypeOK /\ MemInv
<1> SUFFICES ASSUME Init PROVE TypeOK /\ MemInv
  OBVIOUS
<1>1. MapType(mem) /\ kmap = mem
  <2>1. mem \in Layouts
    BY DEF Init
  <2>2. Cardinality(DOMAIN mem) \in Nat /\ mem \in [0 .. Cardinality(DOMAIN mem) - 1 -> Kinds]
    BY <2>1, LoaderAssumption
  <2> QED
    BY <2>2 DEF Init, MapType
<1>2. /\ own = [pml4 |-> 0, elf |-> {}, ke |-> 0, segs |-> <<>>, stack |-> 0,
                bitmap |-> 0, mmap |-> 0]
      /\ tables = <<>> /\ space = <<>> /\ work = <<>> /\ later = {} /\ fresh = FALSE
      /\ pc = "setup"
  BY DEF Init, None, Nothing
<1>3. OwnType /\ Len(own.segs) <= Len(Segments)
  <2>1. Len(Segments) \in Nat
    BY LoaderAssumption
  <2> QED
    BY <1>2, <2>1 DEF OwnType
<1>4. DOMAIN tables = {} /\ DOMAIN space = {} /\ tables \in [DOMAIN tables -> Nat]
      /\ space \in [DOMAIN space -> Nat] /\ work \in Seq(Calls)
  BY <1>2
<1>5. Kept = {0} /\ Temp = {0}
  BY <1>2, <1>4 DEF Kept, Temp, SegPages, TablePages
<1> QED
  BY <1>1, <1>2, <1>3, <1>4, <1>5 DEF TypeOK, MemInv, Loaded, SameDevices, Stages

-----------------------------------------------------------------------------
(* The kernel's memory *)

\* Free pages change their type, and some of them become K more pages to keep or
\* T more to give back.
LEMMA MemTakes ==
    ASSUME TypeOK, MemInv, NEW kind \in {"loader", "boot"}, NEW A, mem' = Marked(mem, A, kind),
           \A p \in A : p # 0 /\ p \in DOMAIN mem /\ mem[p] = "free",
           NEW K, NEW T, K \cap T = {}, K \subseteq A, T \subseteq A,
           kind = "boot" => K = {} /\ T = {},
           Kept' \subseteq Kept \cup K \cup {0}, Temp' \subseteq Temp \cup T \cup {0},
           own'.mmap \notin own'.elf, 0 \notin own'.elf,
           kmap' = mem' \/ (kmap' = kmap /\ fresh' = FALSE), pc' # "entered"
    PROVE  MemInv'
<1>0. MapType(mem) /\ kind \in Kinds /\ MapType(mem') /\ DOMAIN mem' = DOMAIN mem
      /\ \A p \in DOMAIN mem : mem'[p] = IF p \in A THEN kind ELSE mem[p]
  BY MarkedType DEF TypeOK, Kinds
<1>1. Loaded(Kept, mem') /\ Kept \cap A = {} /\ Loaded(Temp, mem') /\ Temp \cap A = {}
  BY <1>0, LoadedTake DEF MemInv
<1>2. Loaded(K, mem') /\ Loaded(T, mem')
  BY <1>0 DEF Loaded
<1>3. Loaded(Kept, mem)' /\ Loaded(Temp, mem)'
  BY <1>1, <1>2 DEF Loaded
<1>4. (Kept \cap Temp \subseteq {0})'
  BY <1>1 DEF MemInv
<1>5. SameDevices(kmap, mem)'
  BY <1>0 DEF MemInv, SameDevices
<1> QED
  BY <1>3, <1>4, <1>5 DEF MemInv

\* Pages B are given back.
LEMMA MemGives ==
    ASSUME TypeOK, MemInv, NEW B, B \subseteq Temp, mem' = Marked(mem, B, "free"),
           Kept' = Kept, Temp' \subseteq (Temp \ B) \cup {0}, own'.mmap \notin own'.elf,
           0 \notin own'.elf,
           kmap' = kmap, fresh' = FALSE, pc' # "entered"
    PROVE  MemInv'
<1>0. MapType(mem) /\ "free" \in Kinds /\ DOMAIN mem' = DOMAIN mem
      /\ \A p \in DOMAIN mem : mem'[p] = IF p \in B THEN "free" ELSE mem[p]
  BY MarkedType DEF TypeOK, Kinds
<1>1. Loaded(Kept, mem')
  BY <1>0, LoadedGive DEF MemInv
<1>2. Loaded(Temp \ B, mem')
  BY <1>0 DEF MemInv, Loaded
<1>3. Loaded(Kept, mem)' /\ Loaded(Temp, mem)'
  BY <1>1, <1>2 DEF Loaded
<1>4. (Kept \cap Temp \subseteq {0})'
  BY DEF MemInv
<1>5. SameDevices(kmap, mem)'
  BY <1>0 DEF MemInv, SameDevices, Loaded
<1> QED
  BY <1>3, <1>4, <1>5 DEF MemInv

\* No page changes its type or its use.
LEMMA MemSame ==
    ASSUME MemInv, UNCHANGED <<mem, own, tables, kmap, fresh>>, pc' = "entered" => fresh
    PROVE  MemInv'
<1>1. Kept' = Kept /\ Temp' = Temp
  BY DEF Kept, Temp, TablePages, SegPages
<1> QED
  BY <1>1 DEF MemInv

\* A page for one field.
LEMMA ClaimMem ==
    ASSUME TypeOK, MemInv, NEW stage, NEW call, NEW field \in {"ke", "stack", "bitmap"},
           NEW half, NEW next, next # "entered", Claim(stage, call, field, half, next)
    PROVE  MemInv'
<1>1. PICK p \in Places(mem, 1, call) :
          mem' = Taken(mem, p, 1) /\ own' = [own EXCEPT ![field] = p]
  BY DEF Claim
<1>2. /\ p \in Nat \ {0} /\ p \in DOMAIN mem /\ mem[p] = "free" /\ mem' = Marked(mem, {p}, "loader")
  BY <1>1, PlaceFree DEF TypeOK, Taken
<1>3. Kept' \subseteq Kept \cup {p} \cup {0}
  BY <1>1 DEF Claim, paging, Kept, TablePages, SegPages, TypeOK, OwnType
<1>4. Temp' \subseteq Temp \cup {} \cup {0} /\ own'.mmap \notin own'.elf /\ 0 \notin own'.elf
  BY <1>1 DEF Temp, MemInv, TypeOK, OwnType
<1>5. kmap' = kmap /\ fresh' = FALSE /\ pc' # "entered"
  BY DEF Claim
<1> DEFINE A == {p}
           T == {}
<1>6. /\ \A q \in A : q # 0 /\ q \in DOMAIN mem /\ mem[q] = "free"
      /\ mem' = Marked(mem, A, "loader") /\ A \cap T = {} /\ A \subseteq A /\ T \subseteq A
      /\ Kept' \subseteq Kept \cup A \cup {0} /\ Temp' \subseteq Temp \cup T \cup {0}
  BY <1>2, <1>3, <1>4
<1> HIDE DEF A, T
<1> QED
  BY <1>4, <1>5, <1>6, MemTakes

\* A new memory map.
LEMMA GetMMAPMem ==
    ASSUME TypeOK, MemInv, NEW stage, NEW next, next # "entered", GetMMAP(stage, next)
    PROVE  MemInv'
<1>1. PICK p \in Places(mem, 1, "pool") :
          /\ mem' = Taken(mem, p, 1) /\ own' = [own EXCEPT !.mmap = p]
          /\ kmap' = Taken(mem, p, 1) /\ fresh' = TRUE
  BY DEF GetMMAP, ReadMap
<1>2. /\ p \in Nat \ {0} /\ p \in DOMAIN mem /\ mem[p] = "free" /\ mem' = Marked(mem, {p}, "loader")
  BY <1>1, PlaceFree DEF TypeOK, Taken
<1>3. own'.mmap = p /\ own'.elf = own.elf
  BY <1>1 DEF TypeOK, OwnType
<1>4. Kept' = Kept
  BY <1>1 DEF GetMMAP, paging, Kept, TablePages, SegPages, TypeOK, OwnType
<1>5. Temp' \subseteq Temp \cup {p} \cup {0} /\ own'.mmap \notin own'.elf /\ 0 \notin own'.elf
  BY <1>2, <1>3 DEF Temp, MemInv, Loaded
<1>6. kmap' = mem' /\ pc' # "entered"
  BY <1>1 DEF GetMMAP
<1> DEFINE A == {p}
           K == {}
<1>7. /\ \A q \in A : q # 0 /\ q \in DOMAIN mem /\ mem[q] = "free"
      /\ mem' = Marked(mem, A, "loader") /\ K \cap A = {} /\ K \subseteq A /\ A \subseteq A
      /\ Kept' \subseteq Kept \cup K \cup {0} /\ Temp' \subseteq Temp \cup A \cup {0}
  BY <1>2, <1>4, <1>5
<1> HIDE DEF A, K
<1> QED
  BY <1>5, <1>6, <1>7, MemTakes

\* A new table is one more page to keep.
LEMMA AddTableMem == ASSUME TypeOK, MemInv, AddTable, pc \notin End PROVE MemInv'
<1> DEFINE z == Zone(Head(work)[2])
<1>1. PICK t \in Places(mem, 1, "pages") :
          mem' = Taken(mem, t, 1) /\ tables' = Extend(tables, z, t)
  BY DEF AddTable
<1>2. /\ t \in Nat \ {0} /\ t \in DOMAIN mem /\ mem[t] = "free" /\ mem' = Marked(mem, {t}, "loader")
  BY <1>1, PlaceFree DEF TypeOK, Taken
<1> HIDE DEF z
<1>3. /\ own' = own /\ kmap' = kmap /\ fresh' = FALSE /\ pc' # "entered"
      /\ DOMAIN tables' = DOMAIN tables \cup {z}
      /\ \A y \in DOMAIN tables' : tables'[y] = t \/ (y \in DOMAIN tables /\ tables'[y] = tables[y])
  <2>1. own' = own /\ kmap' = kmap /\ fresh' = FALSE /\ pc' # "entered"
    BY DEF AddTable, End
  <2>3. /\ DOMAIN tables' = DOMAIN tables \cup {z}
        /\ \A y \in DOMAIN tables \cup {z} : tables'[y] = IF y = z THEN t ELSE tables[y]
    BY <1>1 DEF Extend
  <2> QED
    BY <2>1, <2>3
<1>4. Kept' \subseteq Kept \cup {t} \cup {0}
  BY <1>3 DEF Kept, TablePages, SegPages
<1>5. Temp' \subseteq Temp \cup {} \cup {0} /\ own'.mmap \notin own'.elf /\ 0 \notin own'.elf
  BY <1>3 DEF Temp, MemInv
<1> DEFINE A == {t}
           T == {}
<1>6. /\ \A q \in A : q # 0 /\ q \in DOMAIN mem /\ mem[q] = "free"
      /\ mem' = Marked(mem, A, "loader") /\ A \cap T = {} /\ A \subseteq A /\ T \subseteq A
      /\ Kept' \subseteq Kept \cup A \cup {0} /\ Temp' \subseteq Temp \cup T \cup {0}
  BY <1>2, <1>4, <1>5
<1> HIDE DEF A, T
<1> QED
  BY <1>3, <1>5, <1>6, MemTakes

\* The PML4 is one.
LEMMA ConfigurePagingMem == ASSUME TypeOK, MemInv, ConfigurePaging PROVE MemInv'
<1>0. fresh' = FALSE /\ UNCHANGED <<tables, kmap>>
  BY DEF ConfigurePaging, paging
<1>1. CASE pc' = "lost" /\ UNCHANGED <<mem, own>>
  <2>1. Kept' = Kept /\ Temp' = Temp
    BY <1>0, <1>1 DEF Kept, Temp, TablePages, SegPages
  <2> QED
    BY <1>0, <1>1, <2>1 DEF MemInv
<1>2. ASSUME NEW p \in Places(mem, 1, "pages"), mem' = Taken(mem, p, 1),
             own' = [own EXCEPT !.pml4 = p], pc' = "headers"
      PROVE  MemInv'
  <2>1. /\ p \in Nat \ {0} /\ p \in DOMAIN mem /\ mem[p] = "free"
        /\ mem' = Marked(mem, {p}, "loader")
    BY <1>2, PlaceFree DEF TypeOK, Taken
  <2>2. Kept' \subseteq Kept \cup {p} \cup {0}
    BY <1>0, <1>2 DEF Kept, TablePages, SegPages, TypeOK, OwnType
  <2>3. Temp' \subseteq Temp \cup {} \cup {0} /\ own'.mmap \notin own'.elf /\ 0 \notin own'.elf /\ pc' # "entered"
    BY <1>2 DEF Temp, MemInv, TypeOK, OwnType
  <2> DEFINE A == {p}
             T == {}
  <2>4. /\ \A q \in A : q # 0 /\ q \in DOMAIN mem /\ mem[q] = "free"
        /\ mem' = Marked(mem, A, "loader") /\ A \cap T = {} /\ A \subseteq A /\ T \subseteq A
        /\ Kept' \subseteq Kept \cup A \cup {0} /\ Temp' \subseteq Temp \cup T \cup {0}
    BY <2>1, <2>2, <2>3
  <2> HIDE DEF A, T
  <2> QED
    BY <1>0, <2>3, <2>4, MemTakes
<1> QED
  BY <1>1, <1>2 DEF ConfigurePaging

\* The headers of kernel.elf are read into pages that are given back.
LEMMA ReadHeadersMem == ASSUME TypeOK, MemInv, ReadHeaders PROVE MemInv'
<1>1. PICK p \in Places(mem, 1, "pool") : \E q \in Places(Taken(mem, p, 1), 1, "pool") :
          mem' = Marked(mem, {p, q}, "loader") /\ own' = [own EXCEPT !.elf = {p, q}]
  BY DEF ReadHeaders
<1>2. PICK q \in Places(Taken(mem, p, 1), 1, "pool") :
          mem' = Marked(mem, {p, q}, "loader") /\ own' = [own EXCEPT !.elf = {p, q}]
  BY <1>1
<1>3. MapType(mem) /\ "loader" \in Kinds /\ p \in Nat \ {0} /\ p \in DOMAIN mem /\ mem[p] = "free"
      /\ Taken(mem, p, 1) = Marked(mem, {p}, "loader")
  BY PlaceFree DEF TypeOK, Taken, Kinds
<1>4. /\ MapType(Taken(mem, p, 1)) /\ DOMAIN Taken(mem, p, 1) = DOMAIN mem
      /\ \A i \in DOMAIN mem : Taken(mem, p, 1)[i] = IF i \in {p} THEN "loader" ELSE mem[i]
  BY <1>3, MarkedType
<1>5. q \in Nat \ {0} /\ q \in DOMAIN mem /\ mem[q] = "free"
  <2>1. q \in Nat \ {0} /\ q \in DOMAIN mem /\ Taken(mem, p, 1)[q] = "free"
    BY <1>4, PlaceFree
  <2> QED
    BY <1>4, <2>1
<1>6. Kept' = Kept /\ own'.elf = {p, q} /\ own'.mmap = own.mmap
  <2>1. /\ own'.segs = own.segs /\ own'.pml4 = own.pml4 /\ own'.ke = own.ke
        /\ own'.stack = own.stack /\ own'.bitmap = own.bitmap /\ own'.elf = {p, q}
        /\ own'.mmap = own.mmap
    BY <1>2 DEF TypeOK, OwnType
  <2>2. tables' = tables
    BY DEF ReadHeaders, paging
  <2> QED
    BY <2>1, <2>2 DEF Kept, TablePages, SegPages
<1>7. Temp' \subseteq Temp \cup {p, q} \cup {0} /\ own'.mmap \notin own'.elf /\ 0 \notin own'.elf
  <2>1. own.mmap = 0 \/ mem[own.mmap] = "loader"
    BY DEF Temp, MemInv, Loaded
  <2>2. own.mmap # p /\ own.mmap # q
    BY <1>3, <1>5, <2>1
  <2> QED
    BY <1>3, <1>5, <1>6, <2>2 DEF Temp
<1>8. kmap' = kmap /\ fresh' = FALSE /\ pc' # "entered"
  BY DEF ReadHeaders
<1> DEFINE A == {p, q}
           K == {}
<1>9. /\ \A i \in A : i # 0 /\ i \in DOMAIN mem /\ mem[i] = "free"
      /\ mem' = Marked(mem, A, "loader") /\ K \cap A = {} /\ K \subseteq A /\ A \subseteq A
      /\ Kept' \subseteq Kept \cup K \cup {0} /\ Temp' \subseteq Temp \cup A \cup {0}
  BY <1>2, <1>3, <1>5, <1>6, <1>7
<1> HIDE DEF A, K
<1> QED
  BY <1>7, <1>8, <1>9, MemTakes

\* A segment is as many pages as it has.
LEMMA LoadSegmentMem == ASSUME TypeOK, MemInv, LoadSegment PROVE MemInv'
<1> DEFINE k == Len(own.segs) + 1
           n == Segments[k]
<1>1. k \in DOMAIN Segments /\ n \in Nat \ {0} /\ k \in Nat
  BY LoaderAssumption DEF LoadSegment, TypeOK, OwnType
<1>2. PICK p \in Places(mem, n, "pages") :
          mem' = Taken(mem, p, n) /\ own' = [own EXCEPT !.segs = Append(@, p)]
  BY DEF LoadSegment
<1> DEFINE A == p .. p + n - 1
           T == {}
<1>3. /\ p \in Nat /\ mem' = Marked(mem, A, "loader")
      /\ \A q \in A : q # 0 /\ q \in DOMAIN mem /\ mem[q] = "free"
  <2> HIDE DEF k, n
  <2>1. MapType(mem)
    BY DEF TypeOK
  <2>2. p \in Nat \ {0} /\ \A q \in p .. p + n - 1 : q \in DOMAIN mem /\ mem[q] = "free"
    BY <1>1, <2>1, PlacesFree
  <2> QED
    BY <1>1, <1>2, <2>2 DEF Taken
<1>4. /\ own'.segs = Append(own.segs, p) /\ own'.pml4 = own.pml4 /\ own'.ke = own.ke
      /\ own'.stack = own.stack /\ own'.bitmap = own.bitmap /\ own'.elf = own.elf
      /\ own'.mmap = own.mmap
  BY <1>2 DEF TypeOK, OwnType
<1>5. SegPages' \subseteq SegPages \cup A
  <2>1. own.segs \in Seq(Nat)
    BY DEF TypeOK, OwnType
  <2>2. DOMAIN own'.segs = DOMAIN own.segs \cup {k} /\ own'.segs[k] = p
        /\ \A j \in DOMAIN own.segs : own'.segs[j] = own.segs[j]
    BY <1>3, <1>4, <2>1
  <2> HIDE DEF k
  <2> QED
    BY <2>2 DEF SegPages
<1> HIDE DEF k, n, A, T
<1>6. tables' = tables /\ kmap' = kmap /\ fresh' = FALSE /\ pc' # "entered"
  BY DEF LoadSegment, paging, At
<1>7. Kept' \subseteq Kept \cup A \cup {0}
  BY <1>4, <1>5, <1>6 DEF Kept, TablePages
<1>8. Temp' \subseteq Temp \cup T \cup {0} /\ own'.mmap \notin own'.elf /\ 0 \notin own'.elf
  BY <1>4 DEF Temp, MemInv
<1>9. A \cap T = {} /\ A \subseteq A /\ T \subseteq A
  BY DEF T
<1> QED
  BY <1>3, <1>6, <1>7, <1>8, <1>9, MemTakes

\* What is given back is neither kept nor the memory map.
LEMMA CloseKernelMem == ASSUME TypeOK, MemInv, CloseKernel PROVE MemInv'
<1>1. own'.elf = {} /\ own'.mmap = own.mmap /\ Kept' = Kept
  BY DEF CloseKernel, paging, Kept, TablePages, SegPages, TypeOK, OwnType
<1>2. own.elf \subseteq Temp /\ Temp' \subseteq (Temp \ own.elf) \cup {0}
  BY <1>1 DEF Temp, MemInv
<1>3. /\ mem' = Marked(mem, own.elf, "free") /\ kmap' = kmap /\ fresh' = FALSE
      /\ pc' # "entered" /\ own'.mmap \notin own'.elf /\ 0 \notin own'.elf
  BY <1>1 DEF CloseKernel
<1> QED
  BY <1>1, <1>2, <1>3, MemGives

\* Nor is the memory map kept.
LEMMA FreeMMAPMem == ASSUME TypeOK, MemInv, FreeMMAP PROVE MemInv'
<1>1. own'.elf = own.elf /\ own'.mmap = 0 /\ Kept' = Kept
  BY DEF FreeMMAP, paging, Kept, TablePages, SegPages, TypeOK, OwnType
<1> DEFINE B == {own.mmap}
<1>2. B \subseteq Temp /\ Temp' \subseteq (Temp \ B) \cup {0}
  BY <1>1 DEF Temp, MemInv
<1>3. 0 \notin own.elf
  BY DEF MemInv
<1>4. /\ mem' = Marked(mem, B, "free") /\ kmap' = kmap /\ fresh' = FALSE
      /\ pc' # "entered" /\ own'.mmap \notin own'.elf /\ 0 \notin own'.elf
  BY <1>1, <1>3 DEF FreeMMAP
<1> HIDE DEF B
<1> QED
  BY <1>1, <1>2, <1>4, MemGives

\* A page the firmware takes was free.
LEMMA FirmwareEventMem == ASSUME TypeOK, MemInv, FirmwareEvent PROVE MemInv'
<1>1. PICK p \in Places(mem, 1, "pages") : mem' = Marked(mem, {p}, "boot")
  BY DEF FirmwareEvent
<1>2. p \in Nat \ {0} /\ p \in DOMAIN mem /\ mem[p] = "free"
  BY PlaceFree DEF TypeOK
<1>3. kmap' = kmap /\ fresh' = FALSE /\ pc' # "entered" /\ own' = own /\ tables' = tables
  BY DEF FirmwareEvent, End, paging
<1>4. Kept' = Kept /\ Temp' = Temp /\ own'.mmap \notin own'.elf /\ 0 \notin own'.elf
  BY <1>3 DEF Kept, Temp, TablePages, SegPages, MemInv
<1> DEFINE A == {p}
           K == {}
<1>5. /\ \A q \in A : q # 0 /\ q \in DOMAIN mem /\ mem[q] = "free"
      /\ mem' = Marked(mem, A, "boot") /\ K \cap K = {} /\ K \subseteq A /\ K = {}
      /\ Kept' \subseteq Kept \cup K \cup {0} /\ Temp' \subseteq Temp \cup K \cup {0}
  BY <1>1, <1>2, <1>4
<1> HIDE DEF A, K
<1> QED
  BY <1>3, <1>4, <1>5, MemTakes

\* Every step keeps MemInv.
LEMMA NextMem == ASSUME TypeOK, MemInv, Next PROVE MemInv'
<1>1. CASE MapKernelEntries \/ AllocateStack \/ PlaceBitmap
  BY <1>1, ClaimMem DEF MapKernelEntries, AllocateStack, PlaceBitmap
<1>2. CASE GetMMAP("mmap", "parse") \/ GetMMAP("mmap2", "exit")
  BY <1>2, GetMMAPMem
<1>3. CASE Error \/ Setup \/ NextRange \/ ParseMMAP \/ BitmapRefused \/ ExitBootServices
  <2>1. UNCHANGED <<mem, own, tables, kmap, fresh>>
    BY <1>3 DEF Error, Setup, NextRange, ParseMMAP, BitmapRefused, ExitBootServices, paging
  <2>2. pc' = "entered" => fresh
    BY <1>3 DEF Error, Setup, NextRange, ParseMMAP, BitmapRefused, ExitBootServices, End
  <2> QED
    BY <2>1, <2>2, MemSame
<1>4. CASE MapStep
  <2>1. CASE WriteEntry \/ TableRefused
    <3>1. UNCHANGED <<mem, own, tables, kmap, fresh>> /\ pc' # "entered"
      BY <1>4, <2>1 DEF MapStep, WriteEntry, TableRefused, paging, End
    <3> QED
      BY <3>1, MemSame
  <2> QED
    BY <1>4, <2>1, AddTableMem DEF MapStep
<1>5. CASE Over
  BY <1>5, MemSame DEF Over, vars, MemInv
<1> QED
  BY <1>1, <1>2, <1>3, <1>4, <1>5, FirmwareEventMem, ConfigurePagingMem, ReadHeadersMem,
     LoadSegmentMem, CloseKernelMem, FreeMMAPMem DEF Next

\* Neither init_pmm nor init_acpi frees a page the kernel goes on using, on any
\* memory map, for any segments, with any number of firmware events, and
\* whichever calls of the firmware failed unnoticed.
THEOREM KernelKeepsItsMemory == Spec => []KernelMemoryKept
<1>1. Init => TypeOK /\ MemInv
  BY InitType
<1>2. TypeOK /\ MemInv /\ [Next]_vars => TypeOK' /\ MemInv'
  <2>1. CASE UNCHANGED vars
    BY <2>1, MemSame DEF vars, TypeOK, OwnType, MemInv
  <2> QED
    BY <2>1, NextType, NextMem
<1>3. TypeOK /\ MemInv => KernelMemoryKept
  <2> SUFFICES ASSUME TypeOK, MemInv, pc = "entered",
                      NEW p \in Kept \cup Temp
               PROVE  p = 0 \/ kmap[p] = "loader"
    BY DEF KernelMemoryKept, Kept, Temp, SegPages
  <2> QED
    BY DEF MemInv, Loaded
<1> QED
  BY <1>1, <1>2, <1>3, PTL DEF Spec

-----------------------------------------------------------------------------
(* Mappings *)

AfterParse == {"bitmap", "free", "mmap2", "exit", "entered"}
AfterStack == {"mmap", "parse"} \cup AfterParse
AfterSegs == {"stack"} \cup AfterStack
AfterKe == {"segments"} \cup AfterSegs
Off == {"setup", "paging", "returned", "lost"}

\* kernel.elf has every segment in a part of its own of the address space.
SegmentsApart == \A k \in DOMAIN Segments : Segments[k] <= ZoneSize

Working(c) == \E i \in 1 .. Len(work) : work[i] = c
Waiting(c) == \E r \in later : \E i \in 1 .. Len(r) : r[i] = c

\* The mapping of page i of segment k.
Image(k, i) == <<own.segs[k] + i - 1, <<"image", k * ZoneSize + i - 1>>>>

IsImage(c) == \E k \in DOMAIN own.segs : \E i \in 1 .. Segments[k] : c = Image(k, i)

\* No two mappings of this kind are at odds.
Sound(c) ==
    /\ c[2][1] \in {"low", "high"} => c[1] = c[2][2]
    /\ c[2][1] = "image" => IsImage(c)

\* What the loader owes the kernel at this stage.
Wanted(c) ==
    \/ pc \in AfterKe /\ c = <<own.ke, VADDR(own.ke)>>
    \/ pc \in AfterStack /\ c = <<own.stack, VADDR(own.stack)>>
    \/ IsImage(c)
    \/ pc \in AfterParse /\ \E p \in DOMAIN kmap \ {0} : kmap[p] # "device" /\ c = <<p, low(p)>>

PhaseInv ==
    /\ pc \in {"setup", "paging"} => work = <<>> /\ later = {} /\ DOMAIN tables = {}
    /\ pc \in {"setup", "paging", "headers", "ke"} => own.segs = <<>>
    /\ pc \in AfterSegs => Len(own.segs) = Len(Segments)
    /\ pc = "entered" => work = <<>> /\ later = {}
    /\ pc = "lost" => dropped

SoundInv == \A c : Working(c) \/ Waiting(c) => Sound(c)

TableInv ==
    ~ dropped /\ pc \notin Off =>
        \A t \in TablePages : IsMapped(low(t), t) \/ Working(<<t, low(t)>>)

EntryInv ==
    SegmentsApart /\ ~ dropped /\ pc \notin Off =>
        \A c : Wanted(c) => IsMapped(c[2], c[1]) \/ Working(c) \/ Waiting(c)

\* Every step keeps the order of the stages.
LEMMA NextPhase == ASSUME TypeOK, PhaseInv, Next PROVE PhaseInv'
<1> USE DEF AfterSegs, AfterStack, AfterParse
<1>1. CASE FirmwareEvent \/ Error \/ NextRange \/ Over
  BY <1>1 DEF FirmwareEvent, Error, NextRange, Over, vars, paging, history, End, PhaseInv
<1>2. CASE MapStep
  BY <1>2 DEF MapStep, WriteEntry, AddTable, TableRefused, paging, history, End, PhaseInv
<1>3. CASE Setup
  BY <1>3 DEF Setup, At, paging, history, PhaseInv
<1>4. CASE ConfigurePaging
  <2>1. own'.segs = own.segs
    BY <1>4 DEF ConfigurePaging, TypeOK, OwnType
  <2> QED
    BY <1>4, <2>1 DEF ConfigurePaging, At, paging, history, PhaseInv
<1>5. CASE ReadHeaders
  <2>1. own'.segs = own.segs
    BY <1>5 DEF ReadHeaders, TypeOK, OwnType
  <2> QED
    BY <1>5, <2>1 DEF ReadHeaders, At, paging, history, PhaseInv
<1>6. CASE MapKernelEntries \/ AllocateStack \/ PlaceBitmap
  <2>1. own'.segs = own.segs
    BY <1>6 DEF MapKernelEntries, AllocateStack, PlaceBitmap, Claim, TypeOK, OwnType
  <2> QED
    BY <1>6, <2>1 DEF MapKernelEntries, AllocateStack, PlaceBitmap, Claim, At, paging, history,
                      PhaseInv
<1>7. CASE LoadSegment
  BY <1>7 DEF LoadSegment, At, paging, history, PhaseInv
<1>8. CASE CloseKernel \/ FreeMMAP
  <2>1. own'.segs = own.segs
    BY <1>8 DEF CloseKernel, FreeMMAP, TypeOK, OwnType
  <2> QED
    BY <1>8, <2>1 DEF CloseKernel, FreeMMAP, At, paging, history, PhaseInv
<1>9. CASE GetMMAP("mmap", "parse") \/ GetMMAP("mmap2", "exit")
  <2>1. own'.segs = own.segs
    BY <1>9 DEF GetMMAP, TypeOK, OwnType
  <2> QED
    BY <1>9, <2>1 DEF GetMMAP, At, paging, history, PhaseInv
<1>10. CASE ParseMMAP \/ BitmapRefused \/ ExitBootServices
  BY <1>10 DEF ParseMMAP, BitmapRefused, ExitBootServices, At, paging, history, PhaseInv
<1> QED
  BY <1>1, <1>2, <1>3, <1>4, <1>5, <1>6, <1>7, <1>8, <1>9, <1>10 DEF Next

\* The loaded segments are segments.
LEMMA SegIndex ==
    ASSUME TypeOK, NEW k \in DOMAIN own.segs
    PROVE  k \in Nat /\ k \in DOMAIN Segments /\ Segments[k] \in Nat \ {0} /\ own.segs[k] \in Nat
<1>1. own.segs \in Seq(Nat) /\ Segments \in Seq(Nat \ {0}) /\ Len(own.segs) <= Len(Segments)
  BY LoaderAssumption DEF TypeOK, OwnType
<1>2. k \in 1 .. Len(own.segs) /\ Len(Segments) \in Nat
  BY <1>1
<1>3. k \in 1 .. Len(Segments)
  BY <1>1, <1>2
<1> QED
  BY <1>1, <1>2, <1>3

\* Pages of segments that are apart are mapped apart.
LEMMA ImagesApart ==
    ASSUME SegmentsApart, TypeOK, NEW c, NEW d, IsImage(c), IsImage(d), c[2] = d[2]
    PROVE  c = d
<1>1. PICK k \in DOMAIN own.segs : \E i \in 1 .. Segments[k] : c = Image(k, i)
  BY DEF IsImage
<1>2. PICK i \in 1 .. Segments[k] : c = Image(k, i)
  BY <1>1
<1>3. PICK l \in DOMAIN own.segs : \E j \in 1 .. Segments[l] : d = Image(l, j)
  BY DEF IsImage
<1>4. PICK j \in 1 .. Segments[l] : d = Image(l, j)
  BY <1>3
<1>5. /\ k \in Nat /\ l \in Nat /\ k \in DOMAIN Segments /\ l \in DOMAIN Segments
      /\ Segments[k] \in Nat /\ Segments[l] \in Nat /\ ZoneSize \in Nat
  BY LoaderAssumption, SegIndex
<1>6. i \in Nat /\ j \in Nat /\ 1 <= i /\ i <= ZoneSize /\ 1 <= j /\ j <= ZoneSize
  BY <1>5 DEF SegmentsApart
<1>7. k * ZoneSize + i - 1 = l * ZoneSize + j - 1
  BY <1>2, <1>4 DEF Image
<1>8. k = l
  <2>1. ASSUME NEW a \in Nat, NEW b \in Nat, a < b, NEW x \in Nat, NEW y \in Nat,
               x <= ZoneSize, 1 <= y, a * ZoneSize + x - 1 = b * ZoneSize + y - 1
        PROVE  FALSE
    <3>1. b * ZoneSize = a * ZoneSize + (b - a) * ZoneSize /\ (b - a) * ZoneSize >= ZoneSize
      BY <1>5, <2>1
    <3>2. a * ZoneSize \in Nat /\ b * ZoneSize \in Nat /\ (b - a) * ZoneSize \in Int
      BY <1>5, <2>1
    <3> QED
      BY <1>5, <2>1, <3>1, <3>2
  <2>2. ~ (k < l)
    BY <1>5, <1>6, <1>7, <2>1
  <2>3. ~ (l < k)
    BY <1>5, <1>6, <1>7, <2>1
  <2> QED
    BY <1>5, <2>2, <2>3
<1>9. i = j
  <2>1. k * ZoneSize \in Nat
    BY <1>5
  <2> QED
    BY <1>6, <1>7, <1>8, <2>1
<1> QED
  BY <1>2, <1>4, <1>8, <1>9

\* Two sound calls for one virtual page map the same page there.
LEMMA SoundSame ==
    ASSUME TypeOK, NEW c, NEW d,
           c[2][1] \in {"low", "high"} \/ (SegmentsApart /\ c[2][1] = "image"), Sound(c), Sound(d), c[2] = d[2]
    PROVE  c[1] = d[1]
<1>1. CASE c[2][1] \in {"low", "high"}
  BY <1>1 DEF Sound
<1>2. CASE SegmentsApart /\ c[2][1] = "image"
  <2>1. IsImage(c) /\ IsImage(d)
    BY <1>2 DEF Sound
  <2> QED
    BY <1>2, <2>1, ImagesApart
<1> QED
  BY <1>1, <1>2

\* What is wanted is sound.
LEMMA WantedSound ==
    ASSUME TypeOK, NEW c, Wanted(c)
    PROVE  Sound(c) /\ c[2][1] \in {"low", "high", "image"}
<1>1. CASE IsImage(c)
  BY <1>1 DEF Sound, IsImage, Image
<1>2. CASE c = <<own.ke, VADDR(own.ke)>> \/ c = <<own.stack, VADDR(own.stack)>>
  BY <1>2 DEF Sound, VADDR
<1>3. CASE \E p \in DOMAIN kmap \ {0} : kmap[p] # "device" /\ c = <<p, low(p)>>
  BY <1>3 DEF Sound, low
<1> QED
  BY <1>1, <1>2, <1>3 DEF Wanted

\* Writing an entry keeps what is mapped, and maps its page.
LEMMA WriteEntryMap ==
    ASSUME TypeOK, SoundInv, TableInv, EntryInv, WriteEntry
    PROVE  (SoundInv /\ TableInv /\ EntryInv)'
<1>0. PICK h : h = Head(work)
  OBVIOUS
<1>1. /\ work # <<>> /\ work' = Tail(work) /\ space' = Extend(space, h[2], h[1])
      /\ UNCHANGED <<pc, own, tables, later, kmap, dropped>>
  BY <1>0 DEF WriteEntry, history
<1>2. h \in Calls /\ Working(h) /\ (\A c : Working(c)' => Working(c))
      /\ (\A c : Working(c) => Working(c)' \/ c = h)
  <2>1. /\ Len(work) \in Nat \ {0} /\ work \in Seq(Calls) /\ h = work[1] /\ h \in Calls
        /\ Len(work') = Len(work) - 1 /\ \A i \in 1 .. Len(work) - 1 : work'[i] = work[i + 1]
    BY <1>0, <1>1 DEF TypeOK
  <2>2. Working(h)
    BY <2>1 DEF Working
  <2>3. ASSUME NEW c, Working(c)' PROVE Working(c)
    <3>1. PICK i \in 1 .. Len(work') : work'[i] = c
      BY <2>3 DEF Working
    <3>2. i + 1 \in 1 .. Len(work) /\ work[i + 1] = c
      BY <2>1, <3>1
    <3> QED
      BY <3>2 DEF Working
  <2>4. ASSUME NEW c, Working(c), c # h PROVE Working(c)'
    <3>1. PICK i \in 1 .. Len(work) : work[i] = c
      BY <2>4 DEF Working
    <3>2. i # 1
      BY <2>1, <2>4, <3>1
    <3>3. i - 1 \in 1 .. Len(work') /\ work'[i - 1] = c
      BY <2>1, <3>1, <3>2
    <3> QED
      BY <3>3 DEF Working
  <2> QED
    BY <2>1, <2>2, <2>3, <2>4
<1>3. Sound(h) /\ (\A c : Waiting(c)' <=> Waiting(c)) /\ (\A c : Sound(c)' <=> Sound(c))
      /\ (\A c : Wanted(c)' <=> Wanted(c)) /\ TablePages' = TablePages
  BY <1>1, <1>2 DEF SoundInv, Waiting, Sound, IsImage, Image, Wanted, TablePages
<1>4. ASSUME NEW v, NEW p, v = h[2] => p = h[1], IsMapped(v, p) PROVE IsMapped(v, p)'
  BY <1>1, <1>4 DEF IsMapped, Extend
<1>5. IsMapped(h[2], h[1])'
  BY <1>1 DEF IsMapped, Extend
<1>6. SoundInv'
  BY <1>2, <1>3 DEF SoundInv
<1>7. TableInv'
  <2> SUFFICES ASSUME ~ dropped, pc \notin Off, NEW t \in TablePages
               PROVE  (IsMapped(low(t), t) \/ Working(<<t, low(t)>>))'
    BY <1>1, <1>3 DEF TableInv
  <2> DEFINE c == <<t, low(t)>>
  <2>1. c[2] = low(t) /\ c[1] = t /\ Sound(c) /\ c[2][1] = "low"
    BY DEF Sound, low
  <2>2. c[2] = h[2] => c[1] = h[1]
    BY <1>3, <2>1, SoundSame
  <2>3. IsMapped(low(t), t) \/ Working(c)
    BY DEF TableInv
  <2>4. c = h => IsMapped(low(t), t)'
    BY <1>5, <2>1
  <2> HIDE DEF c
  <2> QED
    BY <1>2, <1>4, <2>1, <2>2, <2>3, <2>4 DEF c
<1>8. EntryInv'
  <2> SUFFICES ASSUME SegmentsApart, ~ dropped, pc \notin Off, NEW c, Wanted(c)
               PROVE  (IsMapped(c[2], c[1]) \/ Working(c) \/ Waiting(c))'
    BY <1>1, <1>3 DEF EntryInv
  <2>1. c[2] = h[2] => c[1] = h[1]
    BY <1>3, WantedSound, SoundSame
  <2>2. IsMapped(c[2], c[1]) \/ Working(c) \/ Waiting(c)
    BY DEF EntryInv
  <2> QED
    BY <1>2, <1>3, <1>4, <1>5, <2>1, <2>2
<1> QED
  BY <1>6, <1>7, <1>8

\* A new table has a call in front that maps it.
LEMMA AddTableMap ==
    ASSUME TypeOK, SoundInv, TableInv, EntryInv, AddTable
    PROVE  (SoundInv /\ TableInv /\ EntryInv)'
<1> DEFINE z == Zone(Head(work)[2])
<1>1. PICK t : work' = <<<<t, low(t)>>>> \o work /\ tables' = Extend(tables, z, t)
  BY DEF AddTable, TableCalls
<1>2. UNCHANGED <<pc, own, space, later, kmap, dropped>>
  BY DEF AddTable, history
<1> DEFINE h == <<t, low(t)>>
<1>3. Working(h)' /\ \A c : Working(c)' <=> Working(c) \/ c = h
  <2> HIDE DEF h
  <2>1. /\ work \in Seq(Calls) /\ work' = <<h>> \o work
    BY <1>1 DEF h, TypeOK
  <2>2. /\ Len(work') = Len(work) + 1 /\ Len(work) \in Nat /\ work'[1] = h
        /\ \A i \in 1 .. Len(work) : work'[i + 1] = work[i]
    BY <2>1
  <2>3. ASSUME NEW c, Working(c)' PROVE Working(c) \/ c = h
    <3>1. PICK i \in 1 .. Len(work') : work'[i] = c
      BY <2>3 DEF Working
    <3>2. i = 1 \/ (i - 1 \in 1 .. Len(work) /\ work[i - 1] = c)
      BY <2>2, <3>1
    <3> QED
      BY <2>2, <3>1, <3>2 DEF Working
  <2>4. ASSUME NEW c, Working(c) PROVE Working(c)'
    <3>1. PICK i \in 1 .. Len(work) : work[i] = c
      BY <2>4 DEF Working
    <3>2. i + 1 \in 1 .. Len(work') /\ work'[i + 1] = c
      BY <2>2, <3>1
    <3> QED
      BY <3>2 DEF Working
  <2>5. Working(h)'
    BY <2>2 DEF Working
  <2> QED
    BY <2>3, <2>4, <2>5
<1>4. /\ Sound(h)' /\ (\A c : Waiting(c)' <=> Waiting(c)) /\ (\A c : Sound(c)' <=> Sound(c))
      /\ (\A c : Wanted(c)' <=> Wanted(c)) /\ (\A v, p : IsMapped(v, p)' <=> IsMapped(v, p))
  BY <1>2 DEF Waiting, Sound, IsImage, Image, Wanted, IsMapped, low
<1>5. TablePages' \subseteq TablePages \cup {t}
  <2> HIDE DEF z
  <2>1. \A y \in DOMAIN tables' : tables'[y] = t \/ (y \in DOMAIN tables /\ tables'[y] = tables[y])
    BY <1>1 DEF Extend
  <2> QED
    BY <1>2, <2>1 DEF TablePages
<1> HIDE DEF z, h
<1>6. SoundInv'
  BY <1>3, <1>4 DEF SoundInv
<1>7. TableInv'
  BY <1>2, <1>3, <1>4, <1>5 DEF TableInv, h
<1>8. EntryInv'
  BY <1>2, <1>3, <1>4 DEF EntryInv
<1> QED
  BY <1>6, <1>7, <1>8

\* The next MapRange starts.
LEMMA NextRangeMap ==
    ASSUME TypeOK, SoundInv, TableInv, EntryInv, NextRange
    PROVE  (SoundInv /\ TableInv /\ EntryInv)'
<1>1. PICK r \in later : work' = r /\ later' = later \ {r}
  BY DEF NextRange
<1>2. work = <<>> /\ UNCHANGED <<pc, own, tables, space, kmap, dropped>>
  BY DEF NextRange, paging, history
<1>3. \A c : ~ Working(c)
  BY <1>2 DEF Working
<1>4. \A c : Working(c)' \/ Waiting(c)' <=> Waiting(c)
  BY <1>1 DEF Working, Waiting
<1>5. /\ (\A c : Sound(c)' <=> Sound(c)) /\ (\A c : Wanted(c)' <=> Wanted(c))
      /\ (\A v, p : IsMapped(v, p)' <=> IsMapped(v, p)) /\ TablePages' = TablePages
  BY <1>2 DEF Sound, IsImage, Image, Wanted, IsMapped, TablePages
<1>6. SoundInv'
  BY <1>4, <1>5 DEF SoundInv
<1>7. TableInv'
  BY <1>2, <1>3, <1>5 DEF TableInv
<1>8. EntryInv'
  BY <1>2, <1>3, <1>4, <1>5 DEF EntryInv
<1> QED
  BY <1>6, <1>7, <1>8

\* A stage that begins with everything mapped, and asks for what it newly wants.
LEMMA StageMap ==
    ASSUME TableInv, EntryInv, work = <<>>, later = {},
           space' = space, dropped' = dropped, tables' = tables, own'.pml4 = own.pml4,
           pc' \notin Off => pc \notin Off,
           \A c : Working(c)' \/ Waiting(c)' => Sound(c)',
           pc' \notin Off => \A c : Wanted(c)' => Wanted(c) \/ Working(c)' \/ Waiting(c)'
    PROVE  (SoundInv /\ TableInv /\ EntryInv)'
<1>1. \A c : ~ Working(c) /\ ~ Waiting(c)
  BY DEF Working, Waiting
<1>2. (\A v, p : IsMapped(v, p)' <=> IsMapped(v, p)) /\ TablePages' = TablePages
  BY DEF IsMapped, TablePages
<1>3. SoundInv'
  BY DEF SoundInv
<1>4. TableInv'
  BY <1>1, <1>2 DEF TableInv
<1>5. EntryInv'
  BY <1>1, <1>2 DEF EntryInv
<1> QED
  BY <1>3, <1>4, <1>5

\* Nothing is asked for.
LEMMA QuietMap ==
    ASSUME TableInv, EntryInv, work = <<>>, later = {},
           UNCHANGED <<space, dropped, tables, work, later>>,
           own'.pml4 = own.pml4, pc' \notin Off => pc \notin Off,
           pc' \notin Off => \A c : Wanted(c)' => Wanted(c)
    PROVE  (SoundInv /\ TableInv /\ EntryInv)'
<1>1. \A c : ~ Working(c)' /\ ~ Waiting(c)'
  BY DEF Working, Waiting
<1> QED
  BY <1>1, StageMap

\* The one call for one page.
LEMMA OneCall ==
    ASSUME NEW p \in Nat, NEW half \in {"low", "high"}, work' = Pages(p, <<half, p>>, 1), later' = {}
    PROVE  /\ \A c : Working(c)' <=> c = <<p, <<half, p>>>>
           /\ \A c : Working(c)' \/ Waiting(c)' => Sound(c)'
<1>1. Len(work') = 1 /\ work'[1] = <<p, <<half, p>>>>
  <2> DEFINE s == Pages(p, <<half, p>>, 1)
  <2> HIDE DEF s
  <2>1. Len(s) = 1 /\ \A i \in 1 .. 1 : s[i] = <<p + i - 1, <<half, p + i - 1>>>>
    BY DEF Pages, s
  <2>2. s[1] = <<p + 1 - 1, <<half, p + 1 - 1>>>> /\ p + 1 - 1 = p
    BY <2>1
  <2>3. work' = s
    BY DEF s
  <2> QED
    BY <2>1, <2>2, <2>3
<1>2. \A c : Working(c)' <=> c = <<p, <<half, p>>>>
  BY <1>1 DEF Working
<1>3. \A c : ~ Waiting(c)'
  BY DEF Waiting
<1>4. Sound(<<p, <<half, p>>>>)'
  BY DEF Sound
<1> QED
  BY <1>2, <1>3, <1>4

\* What a page is taken for is mapped where the kernel wants it.
LEMMA ClaimMap ==
    ASSUME TypeOK, TableInv, EntryInv, MapKernelEntries \/ AllocateStack \/ PlaceBitmap
    PROVE  (SoundInv /\ TableInv /\ EntryInv)'
<1> USE DEF Off, AfterKe, AfterSegs, AfterStack, AfterParse
<1>0. MapType(mem)
  BY DEF TypeOK
<1>1. CASE MapKernelEntries
  <2>1. PICK p \in Places(mem, 1, "pool") :
            own' = [own EXCEPT !["ke"] = p] /\ work' = Pages(p, <<"high", p>>, 1)
    BY <1>1 DEF MapKernelEntries, Claim
  <2>2. /\ work = <<>> /\ later = {} /\ later' = {} /\ pc = "ke" /\ pc' = "segments"
        /\ UNCHANGED <<tables, space, dropped>>
    BY <1>1 DEF MapKernelEntries, Claim, At, paging, history
  <2>3. /\ own'.ke = p /\ own'.pml4 = own.pml4 /\ own'.segs = own.segs /\ own'.stack = own.stack
    BY <2>1 DEF TypeOK, OwnType
  <2>4. p \in Nat
    BY <1>0, PlaceFree
  <2>5. /\ \A c : Working(c)' <=> c = <<p, <<"high", p>>>>
        /\ \A c : Working(c)' \/ Waiting(c)' => Sound(c)'
    BY <2>1, <2>2, <2>4, OneCall
  <2>6. \A c : Wanted(c)' => Wanted(c) \/ Working(c)'
    BY <2>2, <2>3, <2>5 DEF Wanted, IsImage, Image, VADDR
  <2> QED
    BY <2>2, <2>3, <2>5, <2>6, StageMap
<1>2. CASE AllocateStack
  <2>1. PICK p \in Places(mem, 1, "pages") :
            own' = [own EXCEPT !["stack"] = p] /\ work' = Pages(p, <<"high", p>>, 1)
    BY <1>2 DEF AllocateStack, Claim
  <2>2. /\ work = <<>> /\ later = {} /\ later' = {} /\ pc = "stack" /\ pc' = "mmap"
        /\ UNCHANGED <<tables, space, dropped>>
    BY <1>2 DEF AllocateStack, Claim, At, paging, history
  <2>3. /\ own'.stack = p /\ own'.pml4 = own.pml4 /\ own'.segs = own.segs /\ own'.ke = own.ke
    BY <2>1 DEF TypeOK, OwnType
  <2>4. p \in Nat
    BY <1>0, PlaceFree
  <2>5. /\ \A c : Working(c)' <=> c = <<p, <<"high", p>>>>
        /\ \A c : Working(c)' \/ Waiting(c)' => Sound(c)'
    BY <2>1, <2>2, <2>4, OneCall
  <2>6. \A c : Wanted(c)' => Wanted(c) \/ Working(c)'
    BY <2>2, <2>3, <2>5 DEF Wanted, IsImage, Image, VADDR
  <2> QED
    BY <2>2, <2>3, <2>5, <2>6, StageMap
<1>3. CASE PlaceBitmap
  <2>1. PICK p \in Places(mem, 1, "pages") :
            own' = [own EXCEPT !["bitmap"] = p] /\ work' = Pages(p, <<"low", p>>, 1)
    BY <1>3 DEF PlaceBitmap, Claim
  <2>2. /\ work = <<>> /\ later = {} /\ later' = {} /\ pc = "bitmap" /\ pc' = "free"
        /\ UNCHANGED <<tables, space, dropped, kmap>>
    BY <1>3 DEF PlaceBitmap, Claim, At, paging, history
  <2>3. /\ own'.pml4 = own.pml4 /\ own'.segs = own.segs /\ own'.ke = own.ke
        /\ own'.stack = own.stack
    BY <2>1 DEF TypeOK, OwnType
  <2>4. p \in Nat
    BY <1>0, PlaceFree
  <2>5. \A c : Working(c)' \/ Waiting(c)' => Sound(c)'
    BY <2>1, <2>2, <2>4, OneCall
  <2>6. \A c : Wanted(c)' => Wanted(c)
    BY <2>2, <2>3 DEF Wanted, IsImage, Image
  <2> QED
    BY <2>2, <2>3, <2>5, <2>6, StageMap
<1> QED
  BY <1>1, <1>2, <1>3

\* The PML4 is mapped first.
LEMMA ConfigurePagingMap ==
    ASSUME TypeOK, PhaseInv, SoundInv, TableInv, EntryInv, ConfigurePaging
    PROVE  (SoundInv /\ TableInv /\ EntryInv)'
<1> USE DEF Off, AfterKe, AfterSegs, AfterStack, AfterParse
<1>1. /\ work = <<>> /\ later = {} /\ later' = {} /\ pc = "paging"
      /\ UNCHANGED <<tables, space>> /\ DOMAIN tables = {} /\ own.segs = <<>>
  BY DEF ConfigurePaging, At, paging, PhaseInv
<1>2. CASE pc' = "lost" /\ UNCHANGED <<mem, own, work>>
  <2>1. \A c : ~ Working(c)' /\ ~ Waiting(c)'
    BY <1>1, <1>2 DEF Working, Waiting
  <2> QED
    BY <1>2, <2>1 DEF SoundInv, TableInv, EntryInv
<1>3. ASSUME NEW p \in Places(mem, 1, "pages"), own' = [own EXCEPT !.pml4 = p],
             work' = Pages(p, low(p), 1), pc' = "headers"
      PROVE  (SoundInv /\ TableInv /\ EntryInv)'
  <2>1. p \in Nat
    BY PlaceFree DEF TypeOK
  <2>2. own'.pml4 = p /\ own'.segs = <<>>
    BY <1>1, <1>3 DEF TypeOK, OwnType
  <2>3. /\ \A c : Working(c)' <=> c = <<p, low(p)>>
        /\ \A c : Working(c)' \/ Waiting(c)' => Sound(c)'
    BY <1>1, <1>3, <2>1, OneCall DEF low
  <2>4. TablePages' = {p}
    BY <1>1, <2>2 DEF TablePages
  <2>5. \A c : ~ Wanted(c)'
    BY <1>3, <2>2 DEF Wanted, IsImage
  <2> QED
    BY <2>3, <2>4, <2>5 DEF SoundInv, TableInv, EntryInv
<1> QED
  BY <1>2, <1>3 DEF ConfigurePaging

\* Every page of a segment is asked for.
LEMMA LoadSegmentMap ==
    ASSUME TypeOK, TableInv, EntryInv, LoadSegment
    PROVE  (SoundInv /\ TableInv /\ EntryInv)'
<1> USE DEF Off, AfterKe, AfterSegs, AfterStack, AfterParse
<1>0. PICK k : k = Len(own.segs) + 1
  OBVIOUS
<1>1. PICK p \in Places(mem, Segments[k], "pages") :
          /\ own' = [own EXCEPT !.segs = Append(@, p)]
          /\ later' = {<<Pages(p, p_vaddr(k), Segments[k])[i]>> : i \in 1 .. Segments[k]}
  <2> DEFINE n == Len(own.segs) + 1
             Next1(m) == \E p \in Places(mem, Segments[m], "pages") :
                            /\ own' = [own EXCEPT !.segs = Append(@, p)]
                            /\ later' = {<<Pages(p, p_vaddr(m), Segments[m])[i]>> :
                                            i \in 1 .. Segments[m]}
  <2>1. Next1(n)
    BY Zenon DEF LoadSegment
  <2>2. k = n
    BY <1>0
  <2>3. Next1(k)
    <3> HIDE DEF n, Next1
    <3> QED
      BY <2>1, <2>2
  <2> QED
    BY <2>3
<1>2. /\ k \in Nat /\ Segments[k] \in Nat \ {0} /\ k * ZoneSize \in Nat
      /\ own.segs \in Seq(Nat) /\ MapType(mem)
  <2>1. own.segs \in Seq(Nat) /\ MapType(mem) /\ k <= Len(Segments)
    BY <1>0 DEF TypeOK, OwnType, LoadSegment
  <2>2. k \in 1 .. Len(Segments)
    BY <1>0, <2>1, LoaderAssumption
  <2> QED
    BY <2>1, <2>2, LoaderAssumption
<1>3. p \in Nat
  BY <1>2, PlacesFree
<1>4. /\ work = <<>> /\ later = {} /\ work' = <<>> /\ pc = "segments" /\ pc' = "segments"
      /\ UNCHANGED <<tables, space, dropped>>
  BY DEF LoadSegment, At, paging, history
<1>5. /\ own'.segs = Append(own.segs, p) /\ own'.pml4 = own.pml4 /\ own'.ke = own.ke
  BY <1>1 DEF TypeOK, OwnType
<1>6. /\ DOMAIN own'.segs = DOMAIN own.segs \cup {k} /\ own'.segs[k] = p
      /\ \A j \in DOMAIN own.segs : own'.segs[j] = own.segs[j]
  BY <1>0, <1>2, <1>3, <1>5
<1>7. \A i \in 1 .. Segments[k] : Pages(p, p_vaddr(k), Segments[k])[i] = Image(k, i)'
  <2>1. \A i : Image(k, i)' = <<p + i - 1, <<"image", k * ZoneSize + i - 1>>>>
    BY <1>6 DEF Image
  <2>2. \A i \in 1 .. Segments[k] : Pages(p, p_vaddr(k), Segments[k])[i]
                                      = <<p + i - 1, <<"image", k * ZoneSize + i - 1>>>>
    <3> DEFINE v == k * ZoneSize
    <3>1. v \in Nat /\ p_vaddr(k) = <<"image", v>>
      BY <1>2 DEF p_vaddr
    <3> HIDE DEF v
    <3>2. \A i \in 1 .. Segments[k] : Pages(p, <<"image", v>>, Segments[k])[i]
                                        = <<p + i - 1, <<"image", v + i - 1>>>>
      BY DEF Pages
    <3> QED
      BY <3>1, <3>2 DEF v
  <2> QED
    BY <2>1, <2>2, Zenon
<1>8. \A c : Waiting(c)' <=> \E i \in 1 .. Segments[k] : c = Image(k, i)'
  <2>1. ASSUME NEW c, Waiting(c)' PROVE \E i \in 1 .. Segments[k] : c = Image(k, i)'
    <3>1. PICK r \in later' : \E j \in 1 .. Len(r) : r[j] = c
      BY <2>1 DEF Waiting
    <3>2. PICK i \in 1 .. Segments[k] : r = <<Pages(p, p_vaddr(k), Segments[k])[i]>>
      BY <1>1, <3>1
    <3>3. c = Pages(p, p_vaddr(k), Segments[k])[i]
      BY <3>1, <3>2
    <3> QED
      BY <1>7, <3>3
  <2>2. ASSUME NEW i \in 1 .. Segments[k] PROVE Waiting(Pages(p, p_vaddr(k), Segments[k])[i])'
    <3> DEFINE x == Pages(p, p_vaddr(k), Segments[k])[i]
               r == <<x>>
    <3>1. r \in later'
      BY <1>1
    <3>2. 1 \in 1 .. Len(r) /\ r[1] = x
      OBVIOUS
    <3> HIDE DEF r
    <3> QED
      BY <3>1, <3>2 DEF Waiting
  <2> QED
    BY <1>7, <2>1, <2>2
<1>9. \A c : ~ Working(c)'
  BY <1>4 DEF Working
<1>10. \A j \in DOMAIN own.segs : \A i : Image(j, i)' = Image(j, i)
  BY <1>6 DEF Image
<1>11. \A c : IsImage(c)' <=> IsImage(c) \/ \E i \in 1 .. Segments[k] : c = Image(k, i)'
  BY <1>6, <1>10 DEF IsImage
<1>12. \A c : Waiting(c)' => Sound(c)'
  <2>1. \A i : Image(k, i)'[2][1] = "image"
    BY DEF Image
  <2> QED
    BY <1>8, <1>11, <2>1 DEF Sound
<1>13. \A c : Wanted(c)' => Wanted(c) \/ Waiting(c)'
  BY <1>4, <1>5, <1>8, <1>11 DEF Wanted
<1> QED
  BY <1>4, <1>5, <1>9, <1>12, <1>13, StageMap

\* A nonempty set of naturals has a least element.
LEMMA LeastElement ==
    ASSUME NEW S, S \subseteq Nat, S # {}
    PROVE  \E m \in S : \A k \in S : m <= k
<1>1. \E x \in S : \A y \in S : ~ (<<y, x>> \in OpToRel(<, Nat))
  BY WFMin, NatLessThanWellFounded, Zenon
<1>2. \A x, y \in Nat : y < x => <<y, x>> \in OpToRel(<, Nat)
  BY Zenon DEF OpToRel
<1>3. \E x \in S : \A y \in S : ~ (y < x)
  BY <1>1, <1>2, Zenon
<1> QED
  BY <1>3

\* Every page but page 0 is in a descriptor, of its kind.
LEMMA DescriptorsCover ==
    ASSUME NEW m, MapType(m), NEW p \in DOMAIN m \ {0}
    PROVE  \E d \in Descriptors(m) : p \in d[1] .. d[2] /\ m[d[1]] = m[p]
<1>0. PICK n \in Nat : DOMAIN m = 0 .. n - 1
  BY DEF MapType
<1>1. p \in Nat /\ 1 <= p /\ p <= n - 1
  BY <1>0
<1>2. \E a \in 1 .. p : /\ \A q \in a .. p : m[q] = m[p]
                        /\ a = 1 \/ m[a - 1] # m[p]
  <2> DEFINE S == {a \in 1 .. p : \A q \in a .. p : m[q] = m[p]}
  <2>1. S \subseteq Nat /\ p \in S
    BY <1>1
  <2>2. PICK a \in S : \A k \in S : a <= k
    <3> HIDE DEF S
    <3> QED
      BY <2>1, LeastElement
  <2>3. a \in 1 .. p /\ \A q \in a .. p : m[q] = m[p]
    BY <2>2
  <2>4. ASSUME a # 1, m[a - 1] = m[p] PROVE FALSE
    <3>1. a - 1 \in 1 .. p /\ ~ (a <= a - 1)
      BY <1>1, <2>3, <2>4
    <3>2. ASSUME NEW q \in a - 1 .. p PROVE m[q] = m[p]
      <4>1. q = a - 1 \/ q \in a .. p
        BY <1>1, <2>3
      <4> QED
        BY <2>3, <2>4, <4>1
    <3>3. a - 1 \in S
      BY <3>1, <3>2
    <3> QED
      BY <2>2, <3>1, <3>3
  <2> QED
    BY <2>3, <2>4
<1>3. \E b \in p .. n - 1 : /\ \A q \in p .. b : m[q] = m[p]
                            /\ b + 1 \notin DOMAIN m \/ m[b + 1] # m[p]
  <2> DEFINE S == {x \in 0 .. n - 1 - p : \A q \in p .. n - 1 - x : m[q] = m[p]}
             z == n - 1 - p
  <2>1. S \subseteq Nat /\ z \in S
    <3>1. z \in 0 .. n - 1 - p /\ n - 1 - z = p
      BY <1>1
    <3>2. \A q \in p .. p : m[q] = m[p]
      BY <1>1
    <3> QED
      BY <3>1, <3>2
  <2>2. PICK x \in S : \A k \in S : x <= k
    <3> HIDE DEF S, z
    <3> QED
      BY <2>1, LeastElement
  <2> DEFINE b == n - 1 - x
  <2>3. x \in 0 .. n - 1 - p /\ \A q \in p .. b : m[q] = m[p]
    BY <2>2
  <2>4. b \in p .. n - 1 /\ b \in Nat
    BY <1>1, <2>3
  <2>5. ASSUME b + 1 \in DOMAIN m, m[b + 1] = m[p] PROVE FALSE
    <3>1. x - 1 \in 0 .. n - 1 - p /\ ~ (x <= x - 1) /\ n - 1 - (x - 1) = b + 1
      BY <1>0, <1>1, <2>3, <2>5
    <3>2. ASSUME NEW q \in p .. b + 1 PROVE m[q] = m[p]
      <4>1. q = b + 1 \/ q \in p .. b
        BY <1>1, <2>4
      <4> QED
        BY <2>3, <2>5, <4>1
    <3>3. x - 1 \in S
      <4> HIDE DEF b
      <4> QED
        BY <3>1, <3>2
    <3> QED
      BY <2>2, <3>1, <3>3
  <2> QED
    BY <2>3, <2>4, <2>5
<1>4. PICK a \in 1 .. p : /\ \A q \in a .. p : m[q] = m[p]
                          /\ a = 1 \/ m[a - 1] # m[p]
  BY <1>2
<1>5. PICK b \in p .. n - 1 : /\ \A q \in p .. b : m[q] = m[p]
                              /\ b + 1 \notin DOMAIN m \/ m[b + 1] # m[p]
  BY <1>3
<1> DEFINE d == <<a, b>>
<1>6. a \in DOMAIN m \ {0} /\ b \in DOMAIN m /\ a <= b /\ m[a] = m[p]
  BY <1>0, <1>1, <1>4, <1>5
<1>7. ASSUME NEW q \in a .. b PROVE m[q] = m[a]
  <2>1. q \in a .. p \/ q \in p .. b
    BY <1>1, <1>4, <1>5
  <2> QED
    BY <1>4, <1>5, <1>6, <2>1
<1>8. d \in Descriptors(m)
  BY <1>4, <1>5, <1>6, <1>7 DEF Descriptors
<1>9. p \in d[1] .. d[2] /\ m[d[1]] = m[p]
  BY <1>1, <1>4, <1>5, <1>6
<1> QED
  BY <1>8, <1>9

\* A device is a device in every map the firmware gives.
LEMMA ReadMapSame ==
    ASSUME TypeOK, MemInv, NEW p \in Places(mem, 1, "pool"), kmap' = Taken(mem, p, 1)
    PROVE  SameDevices(kmap, kmap')
<1>1. /\ MapType(mem) /\ "loader" \in Kinds /\ p \in DOMAIN mem /\ mem[p] = "free"
      /\ p .. p + 1 - 1 = {p}
  BY PlaceFree DEF TypeOK, Kinds
<1>2. /\ DOMAIN kmap' = DOMAIN mem
      /\ \A q \in DOMAIN mem : kmap'[q] = IF q = p THEN "loader" ELSE mem[q]
  BY <1>1, MarkedType DEF Taken
<1> QED
  BY <1>1, <1>2 DEF MemInv, SameDevices

\* A stage without MapAddr calls leaves the mappings owed as they are.
LEMMA QuietStages ==
    ASSUME TypeOK, MemInv, TableInv, EntryInv,
           \/ Setup \/ ReadHeaders \/ CloseKernel \/ FreeMMAP \/ ExitBootServices
           \/ GetMMAP("mmap", "parse") \/ GetMMAP("mmap2", "exit")
    PROVE  (SoundInv /\ TableInv /\ EntryInv)'
<1> USE DEF Off, AfterKe, AfterSegs, AfterStack, AfterParse
<1>1. /\ work = <<>> /\ later = {} /\ UNCHANGED <<space, dropped, tables, work, later>>
  BY DEF Setup, ReadHeaders, CloseKernel, FreeMMAP, ExitBootServices, GetMMAP, At, paging, history
<1>2. own'.pml4 = own.pml4 /\ own'.ke = own.ke /\ own'.stack = own.stack /\ own'.segs = own.segs
  BY DEF Setup, ReadHeaders, CloseKernel, FreeMMAP, ExitBootServices, GetMMAP, TypeOK, OwnType
<1>3. \A c : IsImage(c)' <=> IsImage(c)
  BY <1>2 DEF IsImage, Image
<1>4. CASE Setup \/ ReadHeaders \/ CloseKernel \/ FreeMMAP \/ ExitBootServices
  <2>1. /\ kmap' = kmap
        /\ pc' \notin Off => pc \notin Off
        /\ pc' \in AfterKe => pc \in AfterKe
        /\ pc' \in AfterStack => pc \in AfterStack
        /\ pc' \in AfterParse => pc \in AfterParse
    BY <1>4 DEF Setup, ReadHeaders, CloseKernel, FreeMMAP, ExitBootServices, At
  <2>2. \A c : Wanted(c)' => Wanted(c)
    <3> HIDE DEF AfterKe, AfterStack, AfterParse
    <3> QED
      BY <1>2, <1>3, <2>1 DEF Wanted
  <2> QED
    BY <1>1, <1>2, <2>1, <2>2, QuietMap
<1>5. CASE GetMMAP("mmap", "parse")
  <2>1. pc = "mmap" /\ pc' = "parse"
    BY <1>5 DEF GetMMAP, At
  <2>2. \A c : Wanted(c)' => Wanted(c)
    BY <1>2, <1>3, <2>1 DEF Wanted
  <2> QED
    BY <1>1, <1>2, <2>1, <2>2, QuietMap
<1>6. CASE GetMMAP("mmap2", "exit")
  <2>1. pc = "mmap2" /\ pc' = "exit"
    BY <1>6 DEF GetMMAP, At
  <2>2. SameDevices(kmap, kmap')
    BY <1>6, ReadMapSame DEF GetMMAP, ReadMap
  <2>3. \A c : Wanted(c)' => Wanted(c)
    BY <1>2, <1>3, <2>1, <2>2 DEF Wanted, SameDevices
  <2> QED
    BY <1>1, <1>2, <2>1, <2>3, QuietMap
<1> QED
  BY <1>4, <1>5, <1>6

\* ParseMMAP asks for all memory of the map, which is mapped at its own address.
LEMMA ParseMMAPMap ==
    ASSUME TypeOK, TableInv, EntryInv, ParseMMAP
    PROVE  (SoundInv /\ TableInv /\ EntryInv)'
<1> USE DEF Off, AfterKe, AfterSegs, AfterStack, AfterParse
<1>1. /\ work = <<>> /\ later = {} /\ work' = <<>> /\ pc = "parse" /\ pc' = "bitmap"
      /\ UNCHANGED <<space, dropped, tables, own, kmap>>
  BY DEF ParseMMAP, At, paging, history
<1>2. MapType(kmap)
  BY DEF TypeOK
<1>3. \A c : ~ Working(c)'
  BY <1>1 DEF Working
<1>4. \A d \in Descriptors(kmap) : d[1] \in Nat /\ d[2] \in Nat /\ d[1] <= d[2]
                                   /\ d[2] - d[1] + 1 \in Nat
  BY <1>2 DEF Descriptors, MapType
<1>5. ASSUME NEW c, Waiting(c)' PROVE Sound(c)'
  <2>1. PICK r \in later' : \E j \in 1 .. Len(r) : r[j] = c
    BY <1>5 DEF Waiting
  <2>2. PICK d \in Descriptors(kmap) : r = Pages(d[1], low(d[1]), d[2] - d[1] + 1)
    BY <2>1 DEF ParseMMAP
  <2>3. PICK a \in Nat, n \in Nat : r = Pages(a, low(a), n)
    BY <1>4, <2>2
  <2>4. PICK j \in 1 .. Len(r) : r[j] = c
    BY <2>1
  <2>5. Len(r) = n /\ \A i \in 1 .. n : r[i] = <<a + i - 1, <<"low", a + i - 1>>>>
    BY <2>3 DEF Pages, low
  <2>6. c = <<a + j - 1, <<"low", a + j - 1>>>>
    BY <2>4, <2>5
  <2> QED
    BY <2>6 DEF Sound
<1>6. ASSUME NEW p \in DOMAIN kmap \ {0}, kmap[p] # "device" PROVE Waiting(<<p, low(p)>>)'
  <2>1. PICK d \in Descriptors(kmap) : p \in d[1] .. d[2] /\ kmap[d[1]] = kmap[p]
    BY <1>2, DescriptorsCover
  <2>2. kmap[d[1]] \in Mapped
    BY <1>2, <1>6, <2>1 DEF MapType, Mapped, Kinds
  <2>3. PICK r : r = Pages(d[1], low(d[1]), d[2] - d[1] + 1)
    OBVIOUS
  <2>4. r \in later'
    BY <2>1, <2>2, <2>3 DEF ParseMMAP
  <2>5. PICK a \in Nat, b \in Nat : d[1] = a /\ d[2] = b /\ b - a + 1 \in Nat
    BY <1>4, <2>1
  <2>6. /\ Len(r) = b - a + 1
        /\ \A i \in 1 .. b - a + 1 : r[i] = <<a + i - 1, <<"low", a + i - 1>>>>
    <3>1. r = Pages(a, low(a), b - a + 1)
      BY <2>3, <2>5
    <3> QED
      BY <2>5, <3>1 DEF Pages, low
  <2>7. p - a + 1 \in 1 .. Len(r) /\ a + (p - a + 1) - 1 = p
    BY <2>1, <2>5, <2>6
  <2>8. r[p - a + 1] = <<p, low(p)>>
    BY <2>6, <2>7 DEF low
  <2> QED
    BY <2>4, <2>7, <2>8 DEF Waiting
<1>7. \A c : Wanted(c)' => Wanted(c) \/ Waiting(c)'
  <2>1. \A c : IsImage(c)' <=> IsImage(c)
    BY <1>1 DEF IsImage, Image
  <2>2. ASSUME NEW c, Wanted(c)', ~ Wanted(c) PROVE Waiting(c)'
    <3>1. PICK p \in DOMAIN kmap \ {0} : kmap[p] # "device" /\ c = <<p, low(p)>>
      BY <1>1, <2>1, <2>2 DEF Wanted
    <3> QED
      BY <1>6, <3>1
  <2> QED
    BY <2>2
<1> QED
  BY <1>1, <1>3, <1>5, <1>7, StageMap

\* After an error that is not looked at nothing more is promised, and the calls
\* to come stay sound.
LEMMA RefusedMap ==
    ASSUME TypeOK, SoundInv, TableInv, EntryInv, Error \/ TableRefused \/ BitmapRefused
    PROVE  (SoundInv /\ TableInv /\ EntryInv)'
<1> USE DEF Off
<1>1. own' = own /\ later' = later /\ (dropped' = TRUE \/ pc' = "returned")
  BY DEF Error, TableRefused, BitmapRefused
<1>2. \A c : (Sound(c)' <=> Sound(c)) /\ (Waiting(c)' <=> Waiting(c))
  BY <1>1 DEF Sound, IsImage, Image, Waiting
<1>3. CASE work' = work \/ work' = <<>>
  <2>1. \A c : Working(c)' => Working(c)
    BY <1>3 DEF Working
  <2> QED
    BY <1>1, <1>2, <2>1 DEF SoundInv, TableInv, EntryInv
<1>4. CASE BitmapRefused
  <2>1. work' = Pages(0, <<"low", 0>>, 1) /\ later' = {} /\ 0 \in Nat
    BY <1>4 DEF BitmapRefused, low, At
  <2>2. \A c : Working(c)' \/ Waiting(c)' => Sound(c)'
    BY <2>1, OneCall
  <2> QED
    BY <1>1, <2>2 DEF SoundInv, TableInv, EntryInv
<1> QED
  BY <1>3, <1>4 DEF Error, TableRefused

\* Neither the firmware's own allocations nor the end of the loader matter.
LEMMA SameMap ==
    ASSUME SoundInv, TableInv, EntryInv,
           UNCHANGED <<pc, own, tables, space, work, later, kmap, dropped>>
    PROVE  (SoundInv /\ TableInv /\ EntryInv)'
<1>1. /\ \A c : (Sound(c)' <=> Sound(c)) /\ (Waiting(c)' <=> Waiting(c))
                /\ (Working(c)' <=> Working(c)) /\ (Wanted(c)' <=> Wanted(c))
      /\ (\A v, p : IsMapped(v, p)' <=> IsMapped(v, p)) /\ TablePages' = TablePages
  BY DEF Sound, IsImage, Image, Waiting, Working, Wanted, IsMapped, TablePages
<1> QED
  BY <1>1 DEF SoundInv, TableInv, EntryInv

\* Every step keeps the mappings.
LEMMA NextMap ==
    ASSUME TypeOK, MemInv, PhaseInv, SoundInv, TableInv, EntryInv, Next
    PROVE  (SoundInv /\ TableInv /\ EntryInv)'
<1>1. CASE FirmwareEvent \/ Over
  BY <1>1, SameMap DEF FirmwareEvent, Over, vars, paging
<1>2. CASE MapStep
  BY <1>2, WriteEntryMap, AddTableMap, RefusedMap DEF MapStep
<1>3. CASE Error \/ BitmapRefused
  BY <1>3, RefusedMap
<1>4. CASE MapKernelEntries \/ AllocateStack \/ PlaceBitmap
  BY <1>4, ClaimMap
<1>5. CASE \/ Setup \/ ReadHeaders \/ CloseKernel \/ FreeMMAP \/ ExitBootServices
           \/ GetMMAP("mmap", "parse") \/ GetMMAP("mmap2", "exit")
  BY <1>5, QuietStages
<1>6. CASE NextRange
  BY <1>6, NextRangeMap
<1>7. CASE ConfigurePaging
  BY <1>7, ConfigurePagingMap
<1>8. CASE LoadSegment
  BY <1>8, LoadSegmentMap
<1>9. CASE ParseMMAP
  BY <1>9, ParseMMAPMap
<1> QED
  BY <1>1, <1>2, <1>3, <1>4, <1>5, <1>6, <1>7, <1>8, <1>9 DEF Next

\* At the start there is nothing to map.
LEMMA InitMap == Init => PhaseInv /\ SoundInv /\ TableInv /\ EntryInv
<1> SUFFICES ASSUME Init PROVE PhaseInv /\ SoundInv /\ TableInv /\ EntryInv
  OBVIOUS
<1>1. /\ pc = "setup" /\ work = <<>> /\ later = {} /\ DOMAIN tables = {} /\ own.segs = <<>>
  BY DEF Init, Nothing, None
<1>2. \A c : ~ Working(c) /\ ~ Waiting(c)
  BY <1>1 DEF Working, Waiting
<1>3. PhaseInv
  BY <1>1 DEF PhaseInv, AfterSegs, AfterStack, AfterParse
<1> QED
  BY <1>1, <1>2, <1>3 DEF SoundInv, TableInv, EntryInv, Off

\* The inductive invariant: what the loader's memory is, where the stages are,
\* that no call contradicts another, and that what is owed is mapped or asked
\* for.
IInv == TypeOK /\ MemInv /\ PhaseInv /\ SoundInv /\ TableInv /\ EntryInv

\* The invariant holds throughout.
LEMMA Inductive == Spec => []IInv
<1>1. Init => IInv
  BY InitType, InitMap DEF IInv
<1>2. IInv /\ [Next]_vars => IInv'
  <2> SUFFICES ASSUME IInv, [Next]_vars PROVE IInv'
    OBVIOUS
  <2>1. CASE Next
    BY <2>1, NextType, NextMem, NextPhase, NextMap DEF IInv
  <2>2. CASE UNCHANGED vars
    <3>2. TypeOK'
      BY <2>2 DEF vars, IInv, TypeOK, OwnType
    <3>3. MemInv'
      BY <2>2, MemSame DEF vars, IInv, TypeOK, OwnType, MemInv
    <3>4. PhaseInv'
      BY <2>2 DEF vars, IInv, PhaseInv
    <3>5. (SoundInv /\ TableInv /\ EntryInv)'
      BY <2>2, SameMap DEF vars, IInv
    <3> QED
      BY <3>2, <3>3, <3>4, <3>5 DEF IInv
  <2> QED
    BY <2>1, <2>2
<1> QED
  BY <1>1, <1>2, PTL DEF Spec

\* Every variable of the loader keeps its type: the calls of MapAddr are calls,
\* the maps stay maps of the same pages, and no more segments are loaded than
\* kernel.elf has.
THEOREM TypeCorrect == Spec => []TypeOK
<1>1. Init => TypeOK
  BY InitType
<1>2. TypeOK /\ [Next]_vars => TypeOK'
  <2> SUFFICES ASSUME TypeOK, UNCHANGED vars PROVE TypeOK'
    BY NextType
  <2> QED
    BY DEF vars, TypeOK, OwnType
<1> QED
  BY <1>1, <1>2, PTL DEF Spec

\* Whenever MapAddr (boot/mem.c) has returned, the PML4 and all tables it has
\* linked are mapped at their own addresses, for every memory map and every
\* number of tables the recursion takes.
THEOREM TablesAreMapped == Spec => []TablesMapped
<1>1. IInv => TablesMapped
  <2> SUFFICES ASSUME IInv, work = <<>>, ~ dropped, pc \notin {"setup", "paging", "returned"},
                      NEW t \in TablePages
               PROVE  IsMapped(low(t), t)
    BY DEF TablesMapped
  <2>1. pc \notin Off
    BY DEF IInv, PhaseInv, Off
  <2>2. ~ Working(<<t, low(t)>>)
    BY DEF Working
  <2> QED
    BY <2>1, <2>2 DEF IInv, TableInv
<1> QED
  BY <1>1, Inductive, PTL

\* The kernel finds all memory of the map it is given, its stack, the list of
\* its segments and every page of every segment mapped where it expects them,
\* unless an error was dropped: the older map ParseMMAP went by is enough.
THEOREM KernelFindsItsMappings == ASSUME SegmentsApart PROVE Spec => []EntryMapped
<1>1. IInv => EntryMapped
  <2> SUFFICES ASSUME IInv, pc = "entered", ~ dropped
               PROVE  /\ \A p \in DOMAIN kmap \ {0} : kmap[p] # "device" => IsMapped(low(p), p)
                      /\ \A p \in {own.stack, own.ke} : IsMapped(VADDR(p), p)
                      /\ \A k \in DOMAIN Segments : \A c \in
                            {Pages(own.segs[k], p_vaddr(k), Segments[k])[i] : i \in 1 .. Segments[k]} :
                                IsMapped(c[2], c[1])
    BY DEF EntryMapped
  <2>1. \A c : Wanted(c) => IsMapped(c[2], c[1])
    <3>1. work = <<>> /\ later = {}
      BY DEF IInv, PhaseInv
    <3>2. \A c : ~ Working(c) /\ ~ Waiting(c)
      BY <3>1 DEF Working, Waiting
    <3> QED
      BY <3>2 DEF IInv, EntryInv, Off
  <2>2. pc \in AfterParse /\ pc \in AfterStack /\ pc \in AfterKe /\ pc \in AfterSegs
    BY DEF AfterKe, AfterSegs, AfterStack, AfterParse
  <2>3. ASSUME NEW p \in DOMAIN kmap \ {0}, kmap[p] # "device" PROVE IsMapped(low(p), p)
    <3>1. Wanted(<<p, low(p)>>)
      BY <2>2, <2>3 DEF Wanted
    <3> QED
      BY <2>1, <3>1
  <2>4. IsMapped(VADDR(own.stack), own.stack) /\ IsMapped(VADDR(own.ke), own.ke)
    <3>1. Wanted(<<own.ke, VADDR(own.ke)>>) /\ Wanted(<<own.stack, VADDR(own.stack)>>)
      BY <2>2 DEF Wanted
    <3> QED
      BY <2>1, <3>1
  <2>5. ASSUME NEW k \in DOMAIN Segments, NEW i \in 1 .. Segments[k],
               NEW c, c = Pages(own.segs[k], p_vaddr(k), Segments[k])[i]
        PROVE  IsMapped(c[2], c[1])
    <3>1. k \in DOMAIN own.segs
      <4>1. Len(own.segs) = Len(Segments) /\ own.segs \in Seq(Nat) /\ Segments \in Seq(Nat \ {0})
        BY <2>2, LoaderAssumption DEF IInv, PhaseInv, TypeOK, OwnType
      <4> QED
        BY <4>1
    <3>2. c = Image(k, i)
      BY <2>5 DEF Pages, p_vaddr, Image
    <3>3. Wanted(c)
      BY <3>1, <3>2 DEF Wanted, IsImage
    <3> QED
      BY <2>1, <3>3
  <2> QED
    BY <2>3, <2>4, <2>5
<1> QED
  BY <1>1, Inductive, PTL
=============================================================================
