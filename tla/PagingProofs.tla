---------------------------- MODULE PagingProofs ----------------------------
(***************************************************************************)
(* Proofs about Paging, for any size of memory and of tables.              *)
(*                                                                         *)
(* The page tables of each space form a tree: there is a description of    *)
(* every table, its space, its level and the addresses it is for, that no  *)
(* other table has and that all entries agree with.  A description is not  *)
(* part of the state of Paging; the invariant says that there is one.  As  *)
(* long as one of the first Fan frames is free, map_addr finds the tables: *)
(* the kernel's space has all of memory, and in a thread's only pages next *)
(* to its P4 are mapped, whose tables are there already.                   *)
(***************************************************************************)
EXTENDS Paging, FiniteSetTheorems, WellFoundedInduction, SequenceTheorems, TLAPS

-----------------------------------------------------------------------------
(* Address spaces *)

\* K tells for every table which space it belongs to, its level, and the number
\* that the addresses of its pages begin with.  The tables of m with these
\* descriptions are trees, one for each space in S: an entry above the lowest
\* level leads to the table it should lead to, every table has the entry that
\* leads to it, and no two tables have one description.
TablesTyped(m, K, S) ==
    /\ \A t \in DOMAIN m : t \in 1 .. MemPages - 1 /\ K[t].space \in S
                               /\ K[t].level \in 1 .. 4 /\ K[t].base \in Nat
    /\ \A t \in DOMAIN m : \A i \in DOMAIN m[t] :
           i \in 0 .. Fan - 1 /\ m[t][i].frame \in Nat /\ m[t][i].frame # 0

Told(K, t, space, level, base) ==
    K[t].space = space /\ K[t].level = level /\ K[t].base = base

TablesDiffer(m, K) ==
    \A t, u \in DOMAIN m : Told(K, t, K[u].space, K[u].level, K[u].base) => t = u

RootsKnown(m, K, S) == \A s \in S : s \in DOMAIN m /\ Told(K, s, s, 4, 0)

EntriesLead(m, K) ==
    \A t \in DOMAIN m : K[t].level > 1 =>
        \A i \in DOMAIN m[t] : LET u == m[t][i].frame IN
            /\ u \in DOMAIN m /\ K[u].space = K[t].space /\ K[u].level = K[t].level - 1
            /\ K[u].base \div Fan = K[t].base /\ K[u].base % Fan = i

TablesLinked(m, K) ==
    \A u \in DOMAIN m : K[u].level < 4 =>
        \E t \in DOMAIN m : /\ Told(K, t, K[u].space, K[u].level + 1, K[u].base \div Fan)
                            /\ K[u].base % Fan \in DOMAIN m[t]
                            /\ m[t][K[u].base % Fan].frame = u

Trees(m, K, S) ==
    /\ TablesTyped(m, K, S) /\ TablesDiffer(m, K) /\ RootsKnown(m, K, S)
    /\ EntriesLead(m, K) /\ TablesLinked(m, K)

-----------------------------------------------------------------------------
(* The invariant *)

Members(q) == {q[n] : n \in 1 .. Len(q)}

\* The kernel runs, and its frame allocator.
Late == phase \notin {"loader", "pmm"}

\* A table of space s is in the frame.
Holds(K, s, f) == f \in DOMAIN mem /\ K[f].space = s

\* No table of s is or will be in the frame of that number.
Outside(K, s, page) ==
    page >= MemPages \/ (Late /\ page \notin FreeFrames /\ ~ Holds(K, s, page))

CallRecord == [phys : Nat \ {0}, page : 1 .. Limit - 1, user : BOOLEAN, space : Nat,
               table : Nat, level : 1 .. 4]

\* A call has come to its table, and will set what the space was asked for, and
\* only a table's own address when that is the address of a table.
CallOK(K, c) ==
    /\ c.space \in Spaces /\ c.table # 0
    /\ TableFor(mem, c.space, c.page, c.level) = c.table
    /\ c.page \in DOMAIN asked[c.space] => asked[c.space][c.page] = c.phys
    /\ c.phys = c.page \/ Outside(K, c.space, c.page)
    /\ c.user => Late /\ c.phys \notin DOMAIN mem /\ c.phys \notin FreeFrames

CallsInv(K) == calls \in Seq(CallRecord) /\ \A c \in Members(calls) : CallOK(K, c)

OpRecord == [op : {"map", "valloc", "heap", "load"}, phys : Nat, page : Nat,
             count : Nat \ {0}, user : BOOLEAN, space : Nat]

OpOK(K, o) ==
    /\ o.space \in Spaces /\ o.page + o.count <= Limit
    /\ o.op = "map" => o.phys = o.page \/ o.page >= MemPages
    /\ o.op = "map" /\ o.user => Late /\ \A n \in Nat : n < o.count => o.phys + n \in Opened
    /\ o.op = "valloc" => \A n \in Nat : n < o.count => Outside(K, o.space, o.page + n)
    /\ o.op = "valloc" /\ o.user => Late
    /\ o.op = "heap" => o.page >= MemPages /\ ~ o.user /\ o.count = 1

OpsInv(K) == todo \in Seq(OpRecord) /\ \A o \in Members(todo) : OpOK(K, o)

FramesInv ==
    /\ \A t \in DOMAIN mem : t \in used /\ t \notin Opened
    /\ \A f \in FreeFrames : f \notin Opened
    /\ ~ Late => \A f \in DOMAIN mem \cup FreeFrames : f \in LoaderFrames

Pending(s, page) == \E c \in Members(calls) : c.space = s /\ c.page = page

AskedInv(K) ==
    \A s \in Spaces : \A page \in DOMAIN asked[s] :
        /\ page \in 1 .. Limit - 1 /\ asked[s][page] # 0
        /\ translate_addr(mem, s, page) = asked[s][page] \/ Pending(s, page)
        /\ asked[s][page] = page \/ Outside(K, s, page)

\* The P4 of a new space is mapped next.
RootNext(t) ==
    /\ t \in Spaces /\ todo # <<>> /\ Head(todo).op = "map" /\ Head(todo).phys = t
    /\ Head(todo).page = t /\ Head(todo).space = t

SelfInv(K) ==
    \A t \in DOMAIN mem :
        translate_addr(mem, K[t].space, t) = t \/ Pending(K[t].space, t) \/ RootNext(t)

UserInv(K) ==
    \A t \in DOMAIN mem : K[t].level = 1 => \A i \in DOMAIN mem[t] : mem[t][i].user =>
        Late /\ mem[t][i].frame \notin DOMAIN mem /\ mem[t][i].frame \notin FreeFrames

BootInv ==
    /\ phase = "loader" => DOMAIN mem = {} /\ Spaces = {} /\ calls = <<>> /\ todo = <<>>
    /\ phase # "loader" => kernel \in Spaces
    /\ threads \in Seq(Nat) /\ \A n \in 1 .. Len(threads) : threads[n] \in Spaces
    /\ phase = "stack" => threads # <<>>

Taken(n) == \A f \in FreeFrames : f > n

\* The first three frames, whose numbers are the addresses of a thread's
\* regions, are taken one by one by the kernel's own first vallocs.
LowInv ==
    /\ phase = "heap" /\ todo = <<>> => Taken(VmmPages)
    /\ phase = "heap" /\ todo # <<>> =>
           /\ Tail(todo) = <<>> /\ Head(todo).op = "valloc" /\ Half <= Head(todo).page
           /\ Head(todo).page + Head(todo).count = Half + VmmPages
           /\ Taken(Head(todo).page - Half)
    /\ phase = "lapic" /\ todo = <<>> => Taken(3)
    /\ phase = "lapic" /\ todo # <<>> =>
           Tail(todo) = <<>> /\ Head(todo).op = "valloc" /\ Head(todo).count = 1 /\ Taken(2)
    /\ phase \in {"ioapic", "threads", "stack", "waiting"} => Taken(3)

SpacesInv(K) ==
    /\ DOMAIN K = DOMAIN mem /\ Trees(mem, K, Spaces) /\ CallsInv(K) /\ OpsInv(K) /\ FramesInv
    /\ AskedInv(K) /\ SelfInv(K) /\ UserInv(K) /\ BootInv /\ LowInv

PagingInv == stray \/ \E K : SpacesInv(K)

-----------------------------------------------------------------------------
(* Arithmetic of page numbers *)

\* Dividing a number by Fan splits it into a prefix and an index, which together
\* determine it (the indices P4_ENTRY to P1_ENTRY of an address).
LEMMA Split ==
    ASSUME NEW x \in Nat
    PROVE  /\ x \div Fan \in Nat /\ x % Fan \in 0 .. Fan - 1
           /\ \A y \in Nat : x \div Fan = y \div Fan /\ x % Fan = y % Fan => x = y
<1>1. PICK d \in Nat : d = Fan /\ d > 1
  BY PagingAssumption
<1>2. x \div d \in Nat /\ x % d \in 0 .. d - 1
  BY <1>1
<1>3. ASSUME NEW y \in Nat, x \div d = y \div d, x % d = y % d PROVE x = y
  BY <1>1, <1>3
<1>4. QED
  BY <1>1, <1>2, <1>3

\* A number below Fan times b has a prefix below b.
LEMMA SplitBound ==
    ASSUME NEW x \in Nat, NEW b \in Nat, x < Fan * b
    PROVE  x \div Fan < b
<1>1. Fan \in Nat /\ Fan > 1
  BY PagingAssumption
<1>2. PICK q \in Nat : q = x \div Fan /\ Fan * q <= x
  BY <1>1
<1>3. CASE q >= b
  <2>1. PICK d \in Nat : q = b + d
    BY <1>3
  <2>2. Fan * q = Fan * b + Fan * d /\ Fan * d >= 0 /\ Fan * b \in Int /\ Fan * d \in Int
    BY <1>1, <2>1
  <2>3. QED
    BY <1>2, <2>2
<1>4. QED
  BY <1>2, <1>3

Pages == 0 .. Limit - 1

\* The prefix of the pages of a table is what the table above it sees of them,
\* and the P4 table has all pages.
LEMMA AboveSteps ==
    ASSUME NEW page \in Pages
    PROVE  /\ \A level \in 1 .. 4 : Above(page, level) \in Nat
           /\ \A level \in 2 .. 4 : Above(page, level) = Above(page, level - 1) \div Fan
           /\ Above(page, 1) = page /\ Above(page, 4) \div Fan = 0
<1>1. Fan \in Nat /\ Fan > 1 /\ Limit \in Nat /\ page \in Nat /\ page < Limit
  <2>1. Fan \in Nat /\ Fan > 1
    BY PagingAssumption
  <2>2. Fan * Fan \in Nat
    BY <2>1
  <2>3. Fan * (Fan * Fan) \in Nat
    BY <2>1, <2>2
  <2>4. Limit \in Nat
    BY <2>1, <2>3 DEF Limit
  <2>5. QED
    BY <2>1, <2>4 DEF Pages
<1>2. PICK p2 \in Nat : p2 = page \div Fan
  BY Split, <1>1
<1>3. PICK p3 \in Nat : p3 = p2 \div Fan
  BY Split
<1>4. PICK p4 \in Nat : p4 = p3 \div Fan
  BY Split
<1>5. p2 < Fan * (Fan * Fan)
  BY <1>1, <1>2, SplitBound DEF Limit
<1>6. p3 < Fan * Fan
  BY <1>1, <1>3, <1>5, SplitBound
<1>7. p4 < Fan * 1
  BY <1>1, <1>4, <1>6, SplitBound
<1>8. p4 \div Fan < 1 /\ p4 \div Fan \in Nat
  BY <1>7, SplitBound, Split
<1>9. /\ Above(page, 1) = page /\ Above(page, 2) = p2 /\ Above(page, 3) = p3
      /\ Above(page, 4) = p4
  BY <1>2, <1>3, <1>4 DEF Above
<1>10. \A level \in 1 .. 4 : level = 1 \/ level = 2 \/ level = 3 \/ level = 4
  OBVIOUS
<1>11. QED
  BY <1>1, <1>2, <1>3, <1>4, <1>8, <1>9, <1>10

\* The indices of an address are indices of a table.
LEMMA EntryRange ==
    ASSUME NEW page \in Pages, NEW level \in 1 .. 4
    PROVE  Entry(page, level) \in 0 .. Fan - 1 /\ Entry(page, level) = Above(page, level) % Fan
BY AboveSteps, Split DEF Entry

-----------------------------------------------------------------------------
(* Walks *)

\* The tables a walk passes, level by level.
LEMMA WalkSteps ==
    ASSUME NEW m, NEW s, NEW page
    PROVE  /\ TableFor(m, s, page, 4) = s
           /\ TableFor(m, s, page, 3) = Child(m, TableFor(m, s, page, 4), page, 4)
           /\ TableFor(m, s, page, 2) = Child(m, TableFor(m, s, page, 3), page, 3)
           /\ TableFor(m, s, page, 1) = Child(m, TableFor(m, s, page, 2), page, 2)
           /\ translate_addr(m, s, page) = Child(m, TableFor(m, s, page, 1), page, 1)
BY DEF TableFor, translate_addr

\* A table that a step of a walk finds below a table is described as one level
\* deeper on the way to the page.
LEMMA StepDown ==
    ASSUME NEW m, NEW K, NEW S, Trees(m, K, S), NEW page \in Pages, NEW level \in 2 .. 4,
           NEW s, NEW t \in DOMAIN m, Told(K, t, s, level, Above(page, level) \div Fan),
           NEW u, u = Child(m, t, page, level), u # 0
    PROVE  u \in DOMAIN m /\ Told(K, u, s, level - 1, Above(page, level - 1) \div Fan)
<1>1. PICK i : i = Entry(page, level)
  OBVIOUS
<1>2. i \in DOMAIN m[t] /\ u = m[t][i].frame
  BY <1>1 DEF Child
<1>3. K[t].level > 1
  BY DEF Told
<1>4. /\ u \in DOMAIN m /\ K[u].space = K[t].space /\ K[u].level = K[t].level - 1
      /\ K[u].base \div Fan = K[t].base /\ K[u].base % Fan = i
  BY <1>2, <1>3 DEF Trees, EntriesLead
<1>5. K[u].base \in Nat
  BY <1>4 DEF Trees, TablesTyped
<1>6. K[u].base = Above(page, level)
  <2>1. Above(page, level) \in Nat /\ i = Above(page, level) % Fan
    BY <1>1, AboveSteps, EntryRange
  <2>2. K[u].base \div Fan = Above(page, level) \div Fan
    BY <1>4 DEF Told
  <2>3. QED
    BY <1>4, <1>5, <2>1, <2>2, Split
<1>7. K[u].base = Above(page, level - 1) \div Fan
  BY <1>6, AboveSteps
<1>8. QED
  BY <1>4, <1>7 DEF Told

\* The table that a walk arrives at is the one with that description.
LEMMA WalkArrives ==
    ASSUME NEW m, NEW K, NEW S, Trees(m, K, S), NEW s \in S, NEW page \in Pages
    PROVE  /\ 0 \notin DOMAIN m
           /\ \A level \in 1 .. 4 : LET t == TableFor(m, s, page, level) IN
                  t # 0 => t \in DOMAIN m /\ Told(K, t, s, level, Above(page, level) \div Fan)
<1>1. 0 \notin DOMAIN m
  BY DEF Trees, TablesTyped
<1> DEFINE T(level) == TableFor(m, s, page, level)
           P(level) == T(level) # 0 => /\ T(level) \in DOMAIN m
                                       /\ Told(K, T(level), s, level, Above(page, level) \div Fan)
<1>2. T(3) = Child(m, T(4), page, 4) /\ T(2) = Child(m, T(3), page, 3)
      /\ T(1) = Child(m, T(2), page, 2) /\ T(4) = s
  BY WalkSteps
<1>3. P(4)
  BY <1>2, AboveSteps DEF Trees, RootsKnown
<1> HIDE DEF T
<1>4. P(3)
  <2>1. T(3) # 0 => T(4) # 0
    BY <1>1, <1>2 DEF Child
  <2>2. QED
    BY <1>2, <1>3, <2>1, StepDown
<1>5. P(2)
  <2>1. T(2) # 0 => T(3) # 0
    BY <1>1, <1>2 DEF Child
  <2>2. QED
    BY <1>2, <1>4, <2>1, StepDown
<1>6. P(1)
  <2>1. T(1) # 0 => T(2) # 0
    BY <1>1, <1>2 DEF Child
  <2>2. QED
    BY <1>2, <1>5, <2>1, StepDown
<1>7. \A level \in 1 .. 4 : P(level)
  <2>1. \A level \in 1 .. 4 : level = 1 \/ level = 2 \/ level = 3 \/ level = 4
    OBVIOUS
  <2>2. QED
    BY <1>3, <1>4, <1>5, <1>6, <2>1
<1>8. QED
  BY <1>1, <1>7 DEF T

-----------------------------------------------------------------------------
(* Changes of the tables *)

\* n has what m has, and leads to the same frames.
Extends(m, n) ==
    \A t \in DOMAIN m :
        t \in DOMAIN n /\ \A i \in DOMAIN m[t] : i \in DOMAIN n[t] /\ n[t][i].frame = m[t][i].frame

\* A walk that succeeds in m ends at the same table or frame in n.
WalksKept(m, n) ==
    \A s, page :
        /\ \A level \in 1 .. 4 : TableFor(m, s, page, level) # 0 =>
               TableFor(n, s, page, level) = TableFor(m, s, page, level)
        /\ translate_addr(m, s, page) # 0 =>
               translate_addr(n, s, page) = translate_addr(m, s, page)

\* Adding entries does not disturb the walks that succeed.
LEMMA ExtendsKeepsWalks ==
    ASSUME NEW m, NEW n, Extends(m, n), 0 \notin DOMAIN m
    PROVE  WalksKept(m, n)
<1> SUFFICES ASSUME NEW s, NEW page
             PROVE  /\ \A level \in 1 .. 4 : TableFor(m, s, page, level) # 0 =>
                           TableFor(n, s, page, level) = TableFor(m, s, page, level)
                    /\ translate_addr(m, s, page) # 0 =>
                           translate_addr(n, s, page) = translate_addr(m, s, page)
  BY DEF WalksKept
<1>1. \A t, level : Child(m, t, page, level) # 0 =>
          t # 0 /\ Child(n, t, page, level) = Child(m, t, page, level)
  BY DEF Extends, Child
<1> DEFINE T(level) == TableFor(m, s, page, level)
           N(level) == TableFor(n, s, page, level)
<1>2. /\ T(4) = s /\ T(3) = Child(m, T(4), page, 4) /\ T(2) = Child(m, T(3), page, 3)
      /\ T(1) = Child(m, T(2), page, 2)
      /\ translate_addr(m, s, page) = Child(m, T(1), page, 1)
  BY WalkSteps
<1>3. /\ N(4) = s /\ N(3) = Child(n, N(4), page, 4) /\ N(2) = Child(n, N(3), page, 3)
      /\ N(1) = Child(n, N(2), page, 2)
      /\ translate_addr(n, s, page) = Child(n, N(1), page, 1)
  BY WalkSteps
<1> HIDE DEF T, N
<1>4. T(3) # 0 => N(3) = T(3)
  BY <1>1, <1>2, <1>3
<1>5. T(2) # 0 => N(2) = T(2)
  BY <1>1, <1>2, <1>3, <1>4
<1>6. T(1) # 0 => N(1) = T(1)
  BY <1>1, <1>2, <1>3, <1>5
<1>7. translate_addr(m, s, page) # 0 => translate_addr(n, s, page) = translate_addr(m, s, page)
  BY <1>1, <1>2, <1>3, <1>6
<1>8. \A level \in 1 .. 4 : T(level) # 0 => N(level) = T(level)
  <2>1. \A level \in 1 .. 4 : level = 1 \/ level = 2 \/ level = 3 \/ level = 4
    OBVIOUS
  <2>2. QED
    BY <1>2, <1>3, <1>4, <1>5, <1>6, <2>1
<1>9. QED
  BY <1>7, <1>8 DEF T, N

\* m with entry i of table t set.
WithEntry(m, t, i, e) == Put(m, t, Put(m[t], i, e))

\* An entry that was not there extends the tables.
LEMMA EntryFacts ==
    ASSUME NEW m, NEW t \in DOMAIN m, NEW i, NEW e, NEW n, n = WithEntry(m, t, i, e)
    PROVE  /\ DOMAIN n = DOMAIN m /\ \A u \in DOMAIN m : u # t => n[u] = m[u]
           /\ DOMAIN n[t] = DOMAIN m[t] \cup {i} /\ n[t][i] = e
           /\ \A j \in DOMAIN m[t] : j # i => n[t][j] = m[t][j]
<1>1. PICK h : h = Put(m[t], i, e)
  OBVIOUS
<1>2. DOMAIN h = DOMAIN m[t] \cup {i} /\ h[i] = e /\ \A j \in DOMAIN m[t] : j # i => h[j] = m[t][j]
  BY <1>1 DEF Put
<1>3. n = Put(m, t, h)
  BY <1>1 DEF WithEntry
<1>4. DOMAIN n = DOMAIN m \cup {t} /\ n[t] = h /\ \A u \in DOMAIN m : u # t => n[u] = m[u]
  BY <1>3 DEF Put
<1>5. QED
  BY <1>2, <1>4

\* m with a new, empty table f behind entry i of table t.
WithTable(m, t, i, f) == Put(WithEntry(m, t, i, [frame |-> f, user |-> TRUE]), f, None)

TableAdded(m, t, i, f, n) ==
    /\ DOMAIN n = DOMAIN m \cup {f} /\ DOMAIN n[f] = {}
    /\ \A u \in DOMAIN m : u # t => n[u] = m[u]
    /\ DOMAIN n[t] = DOMAIN m[t] \cup {i} /\ n[t][i].frame = f
    /\ \A j \in DOMAIN m[t] : n[t][j] = m[t][j]
    /\ Extends(m, n)

\* What WithTable leaves as it is and what it adds.
LEMMA TableFacts ==
    ASSUME NEW m, NEW t \in DOMAIN m, NEW i, i \notin DOMAIN m[t], NEW f, f \notin DOMAIN m,
           NEW n, n = WithTable(m, t, i, f)
    PROVE  TableAdded(m, t, i, f, n)
<1>0. PICK e : e = [frame |-> f, user |-> TRUE]
  OBVIOUS
<1>1. e.frame = f
  BY <1>0
<1>2. PICK l : l = WithEntry(m, t, i, e)
  OBVIOUS
<1>3. /\ DOMAIN l = DOMAIN m /\ \A u \in DOMAIN m : u # t => l[u] = m[u]
      /\ DOMAIN l[t] = DOMAIN m[t] \cup {i} /\ l[t][i] = e
      /\ \A j \in DOMAIN m[t] : j # i => l[t][j] = m[t][j]
  BY <1>2, EntryFacts
<1>4. n = Put(l, f, None)
  BY <1>0, <1>2 DEF WithTable
<1>5. DOMAIN n = DOMAIN l \cup {f} /\ n[f] = None /\ \A u \in DOMAIN l : u # f => n[u] = l[u]
  BY <1>4 DEF Put
<1>6. DOMAIN None = {}
  BY DEF None
<1>7. \A u \in DOMAIN m : n[u] = l[u]
  BY <1>3, <1>5
<1>8. Extends(m, n)
  BY <1>3, <1>5, <1>7 DEF Extends
<1>9. QED
  BY <1>1, <1>3, <1>5, <1>6, <1>7, <1>8 DEF TableAdded

\* The description of one more table.
Describe(K, f, space, level, base) ==
    Put(K, f, [space |-> space, level |-> level, base |-> base])

\* n has a new, empty P4 in frame f, J its description, and R the space.
RootAdded(m, K, S, f, n, J, R) ==
    /\ Trees(n, J, R) /\ DOMAIN J = DOMAIN n /\ f \notin S
    /\ Extends(m, n) /\ DOMAIN n = DOMAIN m \cup {f} /\ DOMAIN n[f] = {}
    /\ \A t \in DOMAIN m : n[t] = m[t] /\ J[t] = K[t]

\* A new space with nothing but its P4 is a tree of its own.
LEMMA RootKeepsTrees ==
    ASSUME NEW m, NEW K, NEW S, Trees(m, K, S), DOMAIN K = DOMAIN m,
           NEW f \in 1 .. MemPages - 1, f \notin DOMAIN m,
           NEW n, n = Put(m, f, None), NEW R, R = S \cup {f}
    PROVE  \E J : RootAdded(m, K, S, f, n, J, R)
<1>0. PICK J : J = Describe(K, f, f, 4, 0)
  OBVIOUS
<1>1. /\ DOMAIN n = DOMAIN m \cup {f} /\ DOMAIN n[f] = {} /\ \A t \in DOMAIN m : n[t] = m[t]
  <2>1. DOMAIN None = {}
    BY DEF None
  <2>2. QED
    BY <2>1 DEF Put
<1>2. /\ \A t \in DOMAIN m : J[t] = K[t]
      /\ J[f].space = f /\ J[f].level = 4 /\ J[f].base = 0 /\ DOMAIN J = DOMAIN n
  BY <1>0, <1>1 DEF Describe, Put
<1>3. Extends(m, n)
  BY <1>1 DEF Extends
<1>4. \A s \in S : s \in DOMAIN m
  BY DEF Trees, RootsKnown
<1>5. TablesTyped(n, J, S \cup {f})
  BY <1>1, <1>2 DEF Trees, TablesTyped
<1>6. TablesDiffer(n, J)
  <2>1. \A t \in DOMAIN m : J[t].space # f
    BY <1>2, <1>4 DEF Trees, TablesTyped
  <2>2. QED
    BY <1>1, <1>2, <2>1 DEF Trees, TablesDiffer, Told
<1>7. RootsKnown(n, J, S \cup {f})
  BY <1>1, <1>2 DEF Trees, RootsKnown, Told
<1>8. EntriesLead(n, J)
  BY <1>1, <1>2 DEF Trees, EntriesLead
<1>9. TablesLinked(n, J)
  BY <1>1, <1>2 DEF Trees, TablesLinked, Told
<1>10. QED
  BY <1>1, <1>2, <1>3, <1>4, <1>5, <1>6, <1>7, <1>8, <1>9 DEF Trees, RootAdded

\* A new table behind an entry that was missing keeps the trees: there was no
\* table of its description, because that would have been behind the same entry.
LEMMA TableKeepsTrees ==
    ASSUME NEW m, NEW K, NEW S, Trees(m, K, S), DOMAIN K = DOMAIN m,
           NEW t \in DOMAIN m, K[t].level > 1, NEW b \in Nat, b \div Fan = K[t].base,
           NEW i, i = b % Fan, i \notin DOMAIN m[t],
           NEW f \in 1 .. MemPages - 1, f \notin DOMAIN m, NEW n, n = WithTable(m, t, i, f),
           NEW J, J = Describe(K, f, K[t].space, K[t].level - 1, b)
    PROVE  /\ Trees(n, J, S) /\ DOMAIN J = DOMAIN n /\ Extends(m, n)
           /\ \A u \in DOMAIN m : J[u] = K[u]
           /\ J[f].space = K[t].space
<1>1. /\ DOMAIN n = DOMAIN m \cup {f} /\ DOMAIN n[f] = {} /\ \A u \in DOMAIN m : u # t => n[u] = m[u]
      /\ DOMAIN n[t] = DOMAIN m[t] \cup {i} /\ n[t][i].frame = f
      /\ \A j \in DOMAIN m[t] : n[t][j] = m[t][j]
      /\ Extends(m, n)
  <2>1. TableAdded(m, t, i, f, n)
    BY TableFacts
  <2>2. QED
    BY <2>1 DEF TableAdded
<1>2. /\ \A u \in DOMAIN m : J[u] = K[u]
      /\ J[f].space = K[t].space /\ J[f].level = K[t].level - 1 /\ J[f].base = b
      /\ DOMAIN J = DOMAIN n
  BY <1>1 DEF Describe, Put
<1>3. K[t].level \in 2 .. 4 /\ K[t].space \in S /\ K[t].base \in Nat /\ i \in 0 .. Fan - 1
  <2>1. i \in 0 .. Fan - 1
    BY Split
  <2>2. QED
    BY <2>1 DEF Trees, TablesTyped
<1>4. TablesTyped(n, J, S)
  <2>1. \A u \in DOMAIN n : u \in 1 .. MemPages - 1 /\ J[u].space \in S
            /\ J[u].level \in 1 .. 4 /\ J[u].base \in Nat
    BY <1>1, <1>2, <1>3 DEF Trees, TablesTyped
  <2>2. ASSUME NEW u \in DOMAIN n, NEW j \in DOMAIN n[u]
        PROVE  j \in 0 .. Fan - 1 /\ n[u][j].frame \in Nat /\ n[u][j].frame # 0
    <3>1. CASE u = t
      BY <1>1, <1>3, <3>1 DEF Trees, TablesTyped
    <3>2. CASE u # t
      BY <1>1, <3>2 DEF Trees, TablesTyped
    <3>3. QED
      BY <3>1, <3>2
  <2>3. QED
    BY <2>1, <2>2 DEF TablesTyped
<1>5. ASSUME NEW u \in DOMAIN m, Told(K, u, K[t].space, K[t].level - 1, b) PROVE FALSE
  <2>1. K[u].level < 4
    BY <1>3, <1>5 DEF Told
  <2>2. PICK v \in DOMAIN m : /\ Told(K, v, K[u].space, K[u].level + 1, K[u].base \div Fan)
                              /\ K[u].base % Fan \in DOMAIN m[v]
    BY <2>1 DEF Trees, TablesLinked
  <2>3. K[v].space = K[t].space /\ K[v].level = K[t].level /\ K[v].base = K[t].base
    BY <1>3, <1>5, <2>2 DEF Told
  <2>4. v = t
    BY <2>3 DEF Trees, TablesDiffer, Told
  <2>5. QED
    BY <1>5, <2>2, <2>4 DEF Told
<1>6. TablesDiffer(n, J)
  <2> SUFFICES ASSUME NEW u \in DOMAIN n, NEW v \in DOMAIN n,
                      J[u].space = J[v].space, J[u].level = J[v].level, J[u].base = J[v].base
               PROVE  u = v
    BY DEF TablesDiffer, Told
  <2>1. CASE u = f /\ v # f
    <3>1. v \in DOMAIN m /\ Told(K, v, K[t].space, K[t].level - 1, b)
      BY <1>1, <1>2, <2>1 DEF Told
    <3>2. QED
      BY <1>5, <3>1
  <2>2. CASE u # f /\ v = f
    <3>1. u \in DOMAIN m /\ Told(K, u, K[t].space, K[t].level - 1, b)
      BY <1>1, <1>2, <2>2 DEF Told
    <3>2. QED
      BY <1>5, <3>1
  <2>3. CASE u # f /\ v # f
    <3>1. /\ u \in DOMAIN m /\ v \in DOMAIN m /\ Told(K, u, K[v].space, K[v].level, K[v].base)
      BY <1>1, <1>2, <2>3 DEF Told
    <3>2. QED
      BY <3>1 DEF Trees, TablesDiffer
  <2>4. QED
    BY <2>1, <2>2, <2>3
<1>7. RootsKnown(n, J, S)
  BY <1>1, <1>2 DEF Trees, RootsKnown, Told
<1>8. EntriesLead(n, J)
  <2> SUFFICES ASSUME NEW u \in DOMAIN n, J[u].level > 1, NEW j \in DOMAIN n[u],
                      NEW v, v = n[u][j].frame
               PROVE  /\ v \in DOMAIN n /\ J[v].space = J[u].space
                      /\ J[v].level = J[u].level - 1
                      /\ J[v].base \div Fan = J[u].base /\ J[v].base % Fan = j
    BY DEF EntriesLead
  <2>1. u \in DOMAIN m
    BY <1>1
  <2>2. CASE u = t /\ j = i
    BY <1>1, <1>2, <2>2
  <2>3. CASE ~ (u = t /\ j = i)
    <3>1. j \in DOMAIN m[u] /\ v = m[u][j].frame /\ J[u] = K[u]
      BY <1>1, <1>2, <2>1, <2>3
    <3>2. /\ v \in DOMAIN m /\ K[v].space = K[u].space /\ K[v].level = K[u].level - 1
          /\ K[v].base \div Fan = K[u].base /\ K[v].base % Fan = j
      BY <2>1, <3>1 DEF Trees, EntriesLead
    <3>3. QED
      BY <1>1, <1>2, <3>1, <3>2
  <2>4. QED
    BY <2>2, <2>3
<1>9. TablesLinked(n, J)
  <2> SUFFICES ASSUME NEW u \in DOMAIN n, J[u].level < 4
               PROVE  \E v \in DOMAIN n :
                          /\ Told(J, v, J[u].space, J[u].level + 1, J[u].base \div Fan)
                          /\ J[u].base % Fan \in DOMAIN n[v]
                          /\ n[v][J[u].base % Fan].frame = u
    BY DEF TablesLinked
  <2>1. CASE u = f
    <3>1. Told(J, t, J[u].space, J[u].level + 1, J[u].base \div Fan)
      BY <1>2, <1>3, <2>1 DEF Told
    <3>2. J[u].base % Fan = i
      BY <1>2, <2>1
    <3>3. QED
      BY <1>1, <2>1, <3>1, <3>2
  <2>2. CASE u # f
    <3>1. u \in DOMAIN m /\ J[u] = K[u]
      BY <1>1, <1>2, <2>2
    <3>2. PICK v \in DOMAIN m :
                  /\ Told(K, v, K[u].space, K[u].level + 1, K[u].base \div Fan)
                  /\ K[u].base % Fan \in DOMAIN m[v] /\ m[v][K[u].base % Fan].frame = u
      BY <3>1 DEF Trees, TablesLinked
    <3>3. Told(J, v, J[u].space, J[u].level + 1, J[u].base \div Fan)
      BY <1>2, <3>1, <3>2 DEF Told
    <3>4. PICK j : j = K[u].base % Fan
      OBVIOUS
    <3>5. j \in DOMAIN n[v] /\ n[v][j].frame = u
      BY <1>1, <3>2, <3>4
    <3>6. QED
      BY <1>1, <3>1, <3>3, <3>4, <3>5
  <2>3. QED
    BY <2>1, <2>2
<1>10. QED
  BY <1>1, <1>2, <1>4, <1>6, <1>7, <1>8, <1>9 DEF Trees

\* An entry of a table of the lowest level keeps the trees.
LEMMA LeafKeepsTrees ==
    ASSUME NEW m, NEW K, NEW S, Trees(m, K, S), NEW t \in DOMAIN m, K[t].level = 1,
           NEW i \in 0 .. Fan - 1, NEW e, e.frame \in Nat, e.frame # 0,
           NEW n, n = WithEntry(m, t, i, e)
    PROVE  Trees(n, K, S)
<1>1. /\ DOMAIN n = DOMAIN m /\ \A u \in DOMAIN m : u # t => n[u] = m[u]
      /\ DOMAIN n[t] = DOMAIN m[t] \cup {i} /\ n[t][i] = e
      /\ \A j \in DOMAIN m[t] : j # i => n[t][j] = m[t][j]
  BY EntryFacts
<1>2. TablesTyped(n, K, S)
  <2>1. ASSUME NEW u \in DOMAIN n, NEW j \in DOMAIN n[u]
        PROVE  j \in 0 .. Fan - 1 /\ n[u][j].frame \in Nat /\ n[u][j].frame # 0
    <3>1. CASE u = t /\ j = i
      BY <1>1, <3>1
    <3>2. CASE ~ (u = t /\ j = i)
      <4>1. u \in DOMAIN m /\ j \in DOMAIN m[u] /\ n[u][j] = m[u][j]
        BY <1>1, <3>2
      <4>2. QED
        BY <4>1 DEF Trees, TablesTyped
    <3>3. QED
      BY <3>1, <3>2
  <2>2. QED
    BY <1>1, <2>1 DEF Trees, TablesTyped
<1>3. TablesDiffer(n, K) /\ RootsKnown(n, K, S)
  BY <1>1 DEF Trees, TablesDiffer, RootsKnown
<1>4. EntriesLead(n, K)
  BY <1>1 DEF Trees, EntriesLead
<1>5. TablesLinked(n, K)
  <2> SUFFICES ASSUME NEW u \in DOMAIN m, K[u].level < 4
               PROVE  \E v \in DOMAIN m :
                          /\ Told(K, v, K[u].space, K[u].level + 1, K[u].base \div Fan)
                          /\ K[u].base % Fan \in DOMAIN n[v]
                          /\ n[v][K[u].base % Fan].frame = u
    BY <1>1 DEF TablesLinked
  <2>1. PICK v \in DOMAIN m :
                  /\ Told(K, v, K[u].space, K[u].level + 1, K[u].base \div Fan)
                  /\ K[u].base % Fan \in DOMAIN m[v] /\ m[v][K[u].base % Fan].frame = u
    BY DEF Trees, TablesLinked
  <2>2. K[u].level \in 1 .. 4
    BY DEF Trees, TablesTyped
  <2>3. v # t
    BY <2>1, <2>2 DEF Told
  <2>4. QED
    BY <1>1, <2>1, <2>3
<1>6. QED
  BY <1>2, <1>3, <1>4, <1>5 DEF Trees

\* It changes what one page of one space leads to, and nothing else.
LEMMA LeafChangesPage ==
    ASSUME NEW m, NEW K, NEW S, Trees(m, K, S), NEW s \in S, NEW page \in Pages,
           NEW t, t = TableFor(m, s, page, 1), t # 0, NEW i, i = Entry(page, 1),
           NEW e, NEW n, n = WithEntry(m, t, i, e)
    PROVE  \A r \in S, q \in Pages :
               /\ \A level \in 1 .. 4 : TableFor(n, r, q, level) = TableFor(m, r, q, level)
               /\ r = s /\ q = page => translate_addr(n, r, q) = e.frame
               /\ r # s \/ q # page => translate_addr(n, r, q) = translate_addr(m, r, q)
<1>1. t \in DOMAIN m /\ Told(K, t, s, 1, page \div Fan)
  <2>1. t \in DOMAIN m /\ Told(K, t, s, 1, Above(page, 1) \div Fan)
    BY WalkArrives
  <2>2. QED
    BY <2>1, AboveSteps
<1>2. /\ DOMAIN n = DOMAIN m /\ \A u \in DOMAIN m : u # t => n[u] = m[u]
      /\ DOMAIN n[t] = DOMAIN m[t] \cup {i} /\ n[t][i] = e
      /\ \A j \in DOMAIN m[t] : j # i => n[t][j] = m[t][j]
  BY <1>1, EntryFacts
<1> SUFFICES ASSUME NEW r \in S, NEW q \in Pages
             PROVE  /\ \A level \in 1 .. 4 : TableFor(n, r, q, level) = TableFor(m, r, q, level)
                    /\ r = s /\ q = page => translate_addr(n, r, q) = e.frame
                    /\ r # s \/ q # page => translate_addr(n, r, q) = translate_addr(m, r, q)
  OBVIOUS
<1> DEFINE T(level) == TableFor(m, r, q, level)
           N(level) == TableFor(n, r, q, level)
<1>3. \A level \in 1 .. 4 : T(level) # 0 =>
          T(level) \in DOMAIN m /\ Told(K, T(level), r, level, Above(q, level) \div Fan)
  BY WalkArrives
<1>4. /\ T(4) = r /\ T(3) = Child(m, T(4), q, 4) /\ T(2) = Child(m, T(3), q, 3)
      /\ T(1) = Child(m, T(2), q, 2) /\ translate_addr(m, r, q) = Child(m, T(1), q, 1)
  BY WalkSteps
<1>5. /\ N(4) = r /\ N(3) = Child(n, N(4), q, 4) /\ N(2) = Child(n, N(3), q, 3)
      /\ N(1) = Child(n, N(2), q, 2) /\ translate_addr(n, r, q) = Child(n, N(1), q, 1)
  BY WalkSteps
<1> HIDE DEF T, N
<1>6. \A u, level : u # t => Child(n, u, q, level) = Child(m, u, q, level)
  BY <1>2 DEF Child
<1>7. T(4) # t /\ T(3) # t /\ T(2) # t
  <2>1. \A level \in 2 .. 4 : T(level) = t => FALSE
    <3>1. 0 \notin DOMAIN m
      BY DEF Trees, TablesTyped
    <3>2. QED
      BY <1>1, <1>3, <3>1 DEF Told
  <2>2. QED
    BY <2>1
<1>8. N(4) = T(4) /\ N(3) = T(3) /\ N(2) = T(2) /\ N(1) = T(1)
  BY <1>4, <1>5, <1>6, <1>7
<1>9. \A level \in 1 .. 4 : N(level) = T(level)
  <2>1. \A level \in 1 .. 4 : level = 1 \/ level = 2 \/ level = 3 \/ level = 4
    OBVIOUS
  <2>2. QED
    BY <1>8, <2>1
<1>10. ASSUME r = s, q = page PROVE translate_addr(n, r, q) = e.frame
  <2>1. N(1) = t
    BY <1>8, <1>10 DEF T
  <2>2. QED
    BY <1>1, <1>2, <1>5, <1>10, <2>1 DEF Child
<1>11. ASSUME r # s \/ q # page PROVE translate_addr(n, r, q) = translate_addr(m, r, q)
  <2>1. CASE T(1) # t
    BY <1>4, <1>5, <1>6, <1>8, <2>1
  <2>2. CASE T(1) = t
    <3>1. Told(K, t, r, 1, Above(q, 1) \div Fan) /\ Above(q, 1) = q
      BY <1>3, <2>2, AboveSteps
    <3>2. r = s /\ q \div Fan = page \div Fan
      BY <1>1, <3>1 DEF Told
    <3>3. q \in Nat /\ page \in Nat /\ q % Fan # page % Fan
      <4>1. q \in Nat /\ page \in Nat
        BY DEF Pages
      <4>2. QED
        BY <1>11, <3>2, <4>1, Split
    <3>4. PICK j : j = Entry(q, 1)
      OBVIOUS
    <3>5. j # i
      <4>1. Entry(q, 1) = q % Fan /\ Entry(page, 1) = page % Fan
        BY EntryRange, AboveSteps
      <4>2. QED
        BY <3>3, <3>4, <4>1
    <3>6. Child(n, t, q, 1) = Child(m, t, q, 1)
      BY <1>1, <1>2, <3>4, <3>5 DEF Child
    <3>7. QED
      BY <1>4, <1>5, <1>8, <2>2, <3>6
  <2>3. QED
    BY <2>1, <2>2
<1>12. QED
  BY <1>9, <1>10, <1>11 DEF T, N

-----------------------------------------------------------------------------
(* Lists and frames *)

\* The members of a list with a new head, and of a list without its head.
LEMMA MembersPush ==
    ASSUME NEW R, NEW q \in Seq(R), NEW x \in R, NEW p, p = <<x>> \o q
    PROVE  /\ p \in Seq(R) /\ p # <<>> /\ Head(p) = x /\ Tail(p) = q
           /\ Members(p) = {x} \cup Members(q)
<1>1. p \in Seq(R) /\ Len(p) = 1 + Len(q) /\ p[1] = x /\ \A n \in 1 .. Len(q) : p[n + 1] = q[n]
  OBVIOUS
<1>2. Members(p) = {x} \cup Members(q)
  <2>1. ASSUME NEW y \in Members(p) PROVE y \in {x} \cup Members(q)
    <3>1. PICK n \in 1 .. Len(p) : y = p[n]
      BY DEF Members
    <3>2. CASE n = 1
      BY <1>1, <3>1, <3>2
    <3>3. CASE n # 1
      <4>1. PICK k \in 1 .. Len(q) : n = k + 1
        BY <1>1, <3>1, <3>3
      <4>2. y = q[k]
        BY <1>1, <3>1, <4>1
      <4>3. QED
        BY <4>2 DEF Members
    <3>4. QED
      BY <3>2, <3>3
  <2>2. ASSUME NEW y \in {x} \cup Members(q) PROVE y \in Members(p)
    <3>1. CASE y = x
      BY <1>1, <3>1 DEF Members
    <3>2. CASE y \in Members(q)
      <4>1. PICK k \in 1 .. Len(q) : y = q[k]
        BY <3>2 DEF Members
      <4>2. k + 1 \in 1 .. Len(p) /\ y = p[k + 1]
        BY <1>1, <4>1
      <4>3. QED
        BY <4>2 DEF Members
    <3>3. QED
      BY <3>1, <3>2
  <2>3. QED
    BY <2>1, <2>2
<1>3. p # <<>> /\ Head(p) = x
  BY <1>1
<1>4. Tail(p) = q
  OBVIOUS
<1>5. QED
  BY <1>1, <1>2, <1>3, <1>4

\* A list is its head and what comes behind it.
LEMMA MembersSplit ==
    ASSUME NEW R, NEW p \in Seq(R), p # <<>>
    PROVE  /\ Head(p) \in R /\ Tail(p) \in Seq(R) /\ p = <<Head(p)>> \o Tail(p)
           /\ Members(p) = {Head(p)} \cup Members(Tail(p))
<1>1. Head(p) \in R /\ Tail(p) \in Seq(R) /\ p = <<Head(p)>> \o Tail(p)
  OBVIOUS
<1>2. PICK x \in R : x = Head(p)
  BY <1>1
<1>3. PICK q \in Seq(R) : q = Tail(p)
  BY <1>1
<1>4. p = <<x>> \o q
  BY <1>1, <1>2, <1>3
<1>5. Members(p) = {x} \cup Members(q)
  BY <1>4, MembersPush
<1>6. QED
  BY <1>1, <1>2, <1>3, <1>5

\* The members of two lists in a row.
LEMMA MembersConcat ==
    ASSUME NEW R, NEW p \in Seq(R), NEW q \in Seq(R)
    PROVE  /\ p \o q \in Seq(R)
           /\ \A x \in Members(p \o q) : x \in Members(p) \/ x \in Members(q)
           /\ \A x \in Members(q) : x \in Members(p \o q)
<1>1. /\ p \o q \in Seq(R) /\ Len(p \o q) = Len(p) + Len(q)
      /\ \A n \in 1 .. Len(p) + Len(q) :
             (p \o q)[n] = IF n <= Len(p) THEN p[n] ELSE q[n - Len(p)]
  BY ConcatProperties
<1>2. ASSUME NEW x \in Members(p \o q) PROVE x \in Members(p) \/ x \in Members(q)
  <2>1. PICK n \in 1 .. Len(p) + Len(q) : x = (p \o q)[n]
    BY <1>1 DEF Members
  <2>2. CASE n <= Len(p)
    <3>1. n \in 1 .. Len(p) /\ x = p[n]
      BY <1>1, <2>1, <2>2
    <3>2. QED
      BY <3>1 DEF Members
  <2>3. CASE ~ (n <= Len(p))
    <3>1. PICK k \in 1 .. Len(q) : k = n - Len(p)
      BY <1>1, <2>1, <2>3
    <3>2. x = q[k]
      BY <1>1, <2>1, <2>3, <3>1
    <3>3. QED
      BY <3>2 DEF Members
  <2>4. QED
    BY <1>1, <2>2, <2>3
<1>3. ASSUME NEW x \in Members(q) PROVE x \in Members(p \o q)
  <2>1. PICK k \in 1 .. Len(q) : x = q[k]
    BY DEF Members
  <2>2. PICK n \in 1 .. Len(p) + Len(q) : n = Len(p) + k /\ ~ (n <= Len(p)) /\ n - Len(p) = k
    OBVIOUS
  <2>3. x = (p \o q)[n]
    BY <1>1, <2>1, <2>2
  <2>4. QED
    BY <1>1, <2>2, <2>3 DEF Members
<1>4. QED
  BY <1>1, <1>2, <1>3

\* The empty list has no members.
LEMMA MembersEmpty == Members(<<>>) = {}
BY DEF Members

\* The frame that alloc_frame returns is the lowest free one.
LEMMA LowestMember ==
    ASSUME FreeFrames # {}
    PROVE  Lowest \in FreeFrames /\ \A g \in FreeFrames : Lowest <= g
<1>1. FreeFrames \in SUBSET Nat
  BY PagingAssumption DEF FreeFrames
<1>2. \E x \in FreeFrames : \A y \in FreeFrames : ~ (<<y, x>> \in OpToRel(<, Nat))
  BY <1>1, WFMin, NatLessThanWellFounded, Zenon
<1>3. \A x, y \in Nat : y < x => <<y, x>> \in OpToRel(<, Nat)
  BY Zenon DEF OpToRel
<1>4. \E x \in FreeFrames : \A y \in FreeFrames : x <= y
  <2>1. PICK x \in FreeFrames : \A y \in FreeFrames : ~ (<<y, x>> \in OpToRel(<, Nat))
    BY <1>2
  <2>2. \A y \in FreeFrames : ~ (y < x)
    BY <1>1, <1>3, <2>1, Zenon
  <2>3. QED
    BY <1>1, <2>2
<1>5. QED
  BY <1>4 DEF Lowest

\* ... and 0 stands for none.
LEMMA LowestFree ==
    Lowest # 0 => /\ Lowest \in FreeFrames /\ Lowest \in 1 .. MemPages - 1
                  /\ \A g \in FreeFrames : Lowest <= g
<1>1. CASE FreeFrames = {}
  BY <1>1 DEF Lowest
<1>2. CASE FreeFrames # {}
  <2>1. Lowest \in FreeFrames /\ \A g \in FreeFrames : Lowest <= g
    BY <1>2, LowestMember
  <2>2. QED
    BY <2>1 DEF FreeFrames
<1>3. QED
  BY <1>1, <1>2

\* The upper half of the address space holds every page number of memory.
LEMMA Sizes ==
    /\ Fan \in Nat /\ Fan > 1 /\ Limit \in Nat /\ Half \in Nat /\ Half + Half <= Limit
    /\ MemPages \in Nat /\ MemPages > 0 /\ MemPages < Half
<1>1. Fan \in Nat /\ Fan > 1
  BY PagingAssumption
<1>2. Fan * Fan \in Nat
  BY <1>1
<1>3. Fan * (Fan * Fan) \in Nat
  BY <1>1, <1>2
<1>4. Limit \in Nat
  BY <1>1, <1>3 DEF Limit
<1>5. Half \in Nat /\ Half + Half <= Limit
  BY <1>4 DEF Half
<1>6. QED
  BY <1>1, <1>4, <1>5, PagingAssumption

-----------------------------------------------------------------------------
(* map_addr *)

\* Where the innermost call is.
LEMMA HeadCall ==
    ASSUME NEW K, SpacesInv(K), calls # <<>>, NEW c, c = Head(calls)
    PROVE  /\ c \in CallRecord /\ CallOK(K, c) /\ Tail(calls) \in Seq(CallRecord)
           /\ Members(calls) = {c} \cup Members(Tail(calls))
           /\ c.page \in Pages /\ c.space \in DOMAIN mem /\ c.table \in DOMAIN mem
           /\ Told(K, c.table, c.space, c.level, Above(c.page, c.level) \div Fan)
           /\ phase # "loader"
<1>1. /\ c \in CallRecord /\ Tail(calls) \in Seq(CallRecord)
      /\ Members(calls) = {c} \cup Members(Tail(calls))
  BY MembersSplit DEF SpacesInv, CallsInv
<1>2. CallOK(K, c)
  BY <1>1 DEF SpacesInv, CallsInv
<1>3. c.page \in Pages /\ c.level \in 1 .. 4
  BY <1>1 DEF CallRecord, Pages
<1>4. c.space \in Spaces /\ c.table # 0 /\ TableFor(mem, c.space, c.page, c.level) = c.table
  BY <1>2 DEF CallOK
<1>5. Trees(mem, K, Spaces)
  BY DEF SpacesInv
<1>6. /\ c.table \in DOMAIN mem
      /\ Told(K, c.table, c.space, c.level, Above(c.page, c.level) \div Fan)
  BY <1>3, <1>4, <1>5, WalkArrives
<1>7. c.space \in DOMAIN mem
  BY <1>4, <1>5 DEF Trees, RootsKnown
<1>8. phase # "loader"
  BY DEF SpacesInv, BootInv
<1>9. QED
  BY <1>1, <1>2, <1>3, <1>6, <1>7, <1>8

\* A level of map_addr that finds its entry.
LEMMA DescendKeeps ==
    ASSUME NEW K, SpacesInv(K), calls # <<>>, Descend
    PROVE  SpacesInv(K)'
<1>1. PICK c : c = Head(calls)
  OBVIOUS
<1>2. PICK i : i = Entry(c.page, c.level)
  OBVIOUS
<1>3. PICK d : d = [c EXCEPT !.table = mem[c.table][i].frame, !.level = @ - 1]
  OBVIOUS
<1>4. /\ c.level > 1 /\ i \in DOMAIN mem[c.table] /\ calls' = <<d>> \o Tail(calls)
      /\ UNCHANGED <<mem, used, todo, asked, kernel, threads, phase>>
  BY <1>1, <1>2, <1>3 DEF Descend, callers
<1>5. /\ c \in CallRecord /\ CallOK(K, c) /\ Tail(calls) \in Seq(CallRecord)
      /\ Members(calls) = {c} \cup Members(Tail(calls))
      /\ c.page \in Pages /\ c.table \in DOMAIN mem /\ phase # "loader"
  BY <1>1, HeadCall
<1>6. /\ d.phys = c.phys /\ d.page = c.page /\ d.user = c.user /\ d.space = c.space
      /\ d.table = mem[c.table][i].frame /\ d.level = c.level - 1
  BY <1>3, <1>5 DEF CallRecord
<1>7. d.table \in Nat /\ d.table # 0 /\ d.level \in 1 .. 3
  <2>1. d.table \in Nat /\ d.table # 0
    BY <1>4, <1>5, <1>6 DEF SpacesInv, Trees, TablesTyped
  <2>2. QED
    BY <1>4, <1>5, <1>6, <2>1 DEF CallRecord
<1>8. d \in CallRecord
  <2>1. PICK x \in Nat : x = mem[c.table][i].frame
    BY <1>6, <1>7
  <2>2. PICK y \in 1 .. 4 : y = c.level - 1
    BY <1>6, <1>7
  <2>3. d = [c EXCEPT !.table = x, !.level = y]
    BY <1>3, <1>5, <2>1, <2>2 DEF CallRecord
  <2>4. QED
    BY ONLY <1>5, <2>3 DEF CallRecord
<1>9. calls' \in Seq(CallRecord) /\ Members(calls') = {d} \cup Members(Tail(calls))
  <2>1. PICK q \in Seq(CallRecord) : q = Tail(calls)
    BY <1>5
  <2>2. PICK p : p = <<d>> \o q
    OBVIOUS
  <2>3. p \in Seq(CallRecord) /\ Members(p) = {d} \cup Members(q)
    BY <1>8, <2>2, MembersPush
  <2>4. QED
    BY <1>4, <2>1, <2>2, <2>3
<1>10. TableFor(mem, d.space, d.page, d.level) = d.table
  <2>1. TableFor(mem, c.space, c.page, c.level) = c.table
    BY <1>5 DEF CallOK
  <2>2. Child(mem, c.table, c.page, c.level) = d.table
    BY <1>2, <1>4, <1>5, <1>6 DEF Child
  <2>3. d.level = 1 \/ d.level = 2 \/ d.level = 3
    BY <1>7
  <2>4. c.level \in 2 .. 4
    BY <1>4, <1>5 DEF CallRecord
  <2>5. QED
    BY <1>6, <2>1, <2>2, <2>3, <2>4, WalkSteps
<1>11. \A s, page : Outside(K, s, page)' <=> Outside(K, s, page)
  BY <1>4 DEF Outside, Late, FreeFrames, Holds
<1>12. \A e : CallOK(K, e)' <=> CallOK(K, e)
  BY <1>4, <1>11 DEF CallOK, Spaces, Late, FreeFrames
<1>13. CallOK(K, d)
  BY <1>5, <1>6, <1>7, <1>10 DEF CallOK
<1>14. CallsInv(K)'
  BY <1>5, <1>9, <1>12, <1>13 DEF SpacesInv, CallsInv
<1>15. \A s, page : Pending(s, page)' <=> Pending(s, page)
  BY <1>5, <1>6, <1>9 DEF Pending
<1>16. AskedInv(K)'
  BY <1>4, <1>11, <1>15 DEF SpacesInv, AskedInv, Spaces
<1>17. SelfInv(K)'
  <2>1. \A t : RootNext(t)' <=> RootNext(t)
    BY <1>4 DEF RootNext, Spaces
  <2>2. QED
    BY <1>4, <1>15, <2>1 DEF SpacesInv, SelfInv
<1>18. OpsInv(K)'
  BY <1>4, <1>11 DEF SpacesInv, OpsInv, OpOK, Spaces, Late
<1>19. FramesInv' /\ UserInv(K)' /\ BootInv' /\ LowInv'
  <2>1. FramesInv'
    BY <1>4 DEF SpacesInv, FramesInv, FreeFrames, Late
  <2>2. UserInv(K)'
    BY <1>4 DEF SpacesInv, UserInv, FreeFrames, Late
  <2>3. BootInv'
    BY <1>4, <1>5 DEF SpacesInv, BootInv, Spaces
  <2>4. LowInv'
    BY <1>4 DEF SpacesInv, LowInv, FreeFrames, Taken
  <2>5. QED
    BY <2>1, <2>2, <2>3, <2>4
<1>20. (DOMAIN K = DOMAIN mem /\ Trees(mem, K, Spaces))'
  BY <1>4 DEF SpacesInv, Spaces, Trees, TablesTyped, TablesDiffer, RootsKnown, EntriesLead, TablesLinked
<1>21. QED
  BY <1>14, <1>16, <1>17, <1>18, <1>19, <1>20 DEF SpacesInv

\* A call that begins at the P4 of a space in f's own space.
LEMMA FreshCall ==
    ASSUME NEW x \in Nat \ {0}, NEW page \in 1 .. Limit - 1, NEW user \in BOOLEAN,
           NEW s \in Nat, NEW c, c = Call(x, page, user, s)
    PROVE  /\ c \in CallRecord /\ c.phys = x /\ c.page = page /\ c.user = user
           /\ c.space = s /\ c.table = s /\ c.level = 4
BY DEF Call, CallRecord

\* A level of map_addr that adds a table: the new table is in a frame of its own,
\* and the call that maps it at its own address is pending.
LEMMA AddTableKeeps ==
    ASSUME NEW K, SpacesInv(K), ~ stray, calls # <<>>, AddTable
    PROVE  stray' \/ \E J : SpacesInv(J)'
<1> SUFFICES ASSUME ~ stray' PROVE \E J : SpacesInv(J)'
  OBVIOUS
<1>1. PICK c : c = Head(calls)
  OBVIOUS
<1>2. PICK i : i = Entry(c.page, c.level)
  OBVIOUS
<1>3. PICK f : f = Lowest
  OBVIOUS
<1>4. PICK t : t = c.table
  OBVIOUS
<1>5. /\ c.level > 1 /\ i \notin DOMAIN mem[t] /\ f # 0
      /\ used' = used \cup {f} /\ mem' = WithTable(mem, t, i, f)
      /\ calls' = <<Call(f, f, FALSE, c.space)>> \o calls
      /\ UNCHANGED <<todo, asked, kernel, threads, phase>>
  <2>1. c.level > 1 /\ i \notin DOMAIN mem[t]
    BY <1>1, <1>2, <1>4 DEF AddTable
  <2>2. PICK l : l = SetEntry(t, i, f, TRUE)
    OBVIOUS
  <2>3. CASE ~ Accessible(l, f)
    BY <1>1, <1>2, <1>3, <1>4, <2>2, <2>3 DEF AddTable, Astray
  <2>4. CASE Accessible(l, f)
    <3>1. /\ alloc_frame /\ mem' = Put(l, f, None)
          /\ calls' = <<Call(f, f, FALSE, c.space)>> \o calls
          /\ UNCHANGED callers
      BY <1>1, <1>2, <1>3, <1>4, <2>2, <2>4 DEF AddTable
    <3>2. f # 0
      BY <2>4 DEF Accessible
    <3>3. used' = used \cup {f}
      BY <1>3, <3>1, <3>2 DEF alloc_frame
    <3>4. mem' = WithTable(mem, t, i, f)
      BY <2>2, <3>1 DEF SetEntry, WithTable, WithEntry
    <3>5. QED
      BY <2>1, <3>1, <3>2, <3>3, <3>4 DEF callers
  <2>5. QED
    BY <2>3, <2>4
<1>6. /\ c \in CallRecord /\ CallOK(K, c) /\ c.page \in Pages /\ c.space \in DOMAIN mem
      /\ t \in DOMAIN mem
      /\ Told(K, t, c.space, c.level, Above(c.page, c.level) \div Fan)
      /\ phase # "loader"
  BY <1>1, <1>4, HeadCall
<1>7. f \in FreeFrames /\ f \in 1 .. MemPages - 1 /\ f \notin DOMAIN mem
  <2>1. f \in FreeFrames /\ f \in 1 .. MemPages - 1
    BY <1>3, <1>5, LowestFree
  <2>2. QED
    BY <2>1 DEF SpacesInv, FramesInv, FreeFrames
<1>8. PICK b \in Nat : b = Above(c.page, c.level) /\ b \div Fan = K[t].base /\ b % Fan = i
  <2>1. c.level \in 1 .. 4
    BY <1>6 DEF CallRecord
  <2>2. Above(c.page, c.level) \in Nat
    BY <1>6, <2>1, AboveSteps
  <2>3. Entry(c.page, c.level) = Above(c.page, c.level) % Fan
    BY <1>6, <2>1, EntryRange
  <2>4. QED
    BY <1>2, <1>6, <2>2, <2>3 DEF Told
<1>9. PICK J : J = Describe(K, f, K[t].space, K[t].level - 1, b)
  OBVIOUS
<1>10. PICK n : n = mem'
  OBVIOUS
<1>11. Trees(mem, K, Spaces) /\ DOMAIN K = DOMAIN mem
  BY DEF SpacesInv
<1>12. K[t].level > 1 /\ K[t].space = c.space
  BY <1>5, <1>6 DEF Told
<1>13. /\ Trees(n, J, Spaces) /\ DOMAIN J = DOMAIN n /\ Extends(mem, n)
       /\ \A u \in DOMAIN mem : J[u] = K[u]
       /\ J[f].space = K[t].space
  BY <1>5, <1>6, <1>7, <1>8, <1>9, <1>10, <1>11, <1>12, TableKeepsTrees
<1>14. TableAdded(mem, t, i, f, n)
  BY <1>5, <1>6, <1>7, <1>10, TableFacts
<1>15. /\ DOMAIN n = DOMAIN mem \cup {f} /\ DOMAIN n[f] = {}
       /\ \A u \in DOMAIN mem : u # t => n[u] = mem[u]
  BY <1>14 DEF TableAdded
<1>16. WalksKept(mem, n)
  <2>1. 0 \notin DOMAIN mem
    BY <1>11 DEF Trees, TablesTyped
  <2>2. QED
    BY <1>13, <2>1, ExtendsKeepsWalks
<1>17. \A g : g \in FreeFrames' <=> g \in FreeFrames /\ g # f
  BY <1>5 DEF FreeFrames
<1>18. \A s, page : Outside(K, s, page) => Outside(J, s, page)'
  BY <1>5, <1>7, <1>10, <1>13, <1>15, <1>17 DEF Outside, Late, Holds
<1>19. PICK d : d = Call(f, f, FALSE, c.space)
  OBVIOUS
<1>20. /\ d \in CallRecord /\ d.phys = f /\ d.page = f /\ ~ d.user
       /\ d.space = c.space /\ d.table = c.space /\ d.level = 4
  <2>1. f \in Nat \ {0} /\ f \in 1 .. Limit - 1 /\ c.space \in Nat /\ FALSE \in BOOLEAN
    BY <1>6, <1>7, Sizes DEF CallRecord
  <2>2. QED
    BY ONLY <1>19, <2>1 DEF Call, CallRecord
<1>21. calls' \in Seq(CallRecord) /\ Members(calls') = {d} \cup Members(calls)
  <2>1. calls \in Seq(CallRecord)
    BY DEF SpacesInv, CallsInv
  <2>2. PICK p : p = <<d>> \o calls
    OBVIOUS
  <2>3. p \in Seq(CallRecord) /\ Members(p) = {d} \cup Members(calls)
    BY <1>20, <2>1, <2>2, MembersPush
  <2>4. QED
    BY <1>5, <1>19, <2>2, <2>3
<1>22. CallOK(J, d)'
  <2>1. c.space \in Spaces /\ c.space # 0
    BY <1>6, <1>11 DEF CallOK, Trees, TablesTyped
  <2>2. f \in DOMAIN asked[c.space] => asked[c.space][f] = f
    <3>1. f \in DOMAIN asked[c.space] => asked[c.space][f] = f \/ Outside(K, c.space, f)
      BY <2>1 DEF SpacesInv, AskedInv
    <3>2. ~ Outside(K, c.space, f)
      BY <1>7, Sizes DEF Outside
    <3>3. QED
      BY <3>1, <3>2
  <2>3. TableFor(n, d.space, d.page, d.level) = d.table
    BY <1>20, WalkSteps
  <2>4. QED
    BY <1>5, <1>10, <1>20, <2>1, <2>2, <2>3 DEF CallOK, Spaces
<1>23. ASSUME NEW e \in Members(calls) PROVE CallOK(J, e)'
  <2>1. CallOK(K, e) /\ e \in CallRecord
    BY DEF SpacesInv, CallsInv, Members
  <2>2. e.level \in 1 .. 4
    BY <2>1 DEF CallRecord
  <2>3. TableFor(n, e.space, e.page, e.level) = e.table
    BY <1>16, <2>1, <2>2 DEF CallOK, WalksKept
  <2>4. e.user => (Late /\ e.phys \notin DOMAIN mem /\ e.phys \notin FreeFrames)'
    BY <1>5, <1>7, <1>10, <1>15, <1>17, <2>1 DEF CallOK, Late
  <2>5. QED
    BY <1>5, <1>10, <1>18, <2>1, <2>3, <2>4 DEF CallOK, Spaces
<1>24. CallsInv(J)'
  BY <1>21, <1>22, <1>23 DEF CallsInv
<1>25. \A s, page : Pending(s, page) => Pending(s, page)'
  BY <1>21 DEF Pending
<1>26. AskedInv(J)'
  <2> SUFFICES ASSUME NEW s \in Spaces, NEW page \in DOMAIN asked[s]
               PROVE  /\ page \in 1 .. Limit - 1 /\ asked[s][page] # 0
                      /\ translate_addr(n, s, page) = asked[s][page] \/ Pending(s, page)'
                      /\ asked[s][page] = page \/ Outside(J, s, page)'
    BY <1>5, <1>10 DEF AskedInv, Spaces
  <2>1. /\ page \in 1 .. Limit - 1 /\ asked[s][page] # 0
        /\ translate_addr(mem, s, page) = asked[s][page] \/ Pending(s, page)
        /\ asked[s][page] = page \/ Outside(K, s, page)
    BY DEF SpacesInv, AskedInv
  <2>2. translate_addr(mem, s, page) = asked[s][page] =>
            translate_addr(n, s, page) = asked[s][page]
    BY <1>16, <2>1 DEF WalksKept
  <2>3. QED
    BY <1>18, <1>25, <2>1, <2>2
<1>27. SelfInv(J)'
  <2> SUFFICES ASSUME NEW u \in DOMAIN n
               PROVE  \/ translate_addr(n, J[u].space, u) = u
                      \/ Pending(J[u].space, u)' \/ RootNext(u)'
    BY <1>10 DEF SelfInv
  <2>1. CASE u = f
    BY <1>12, <1>13, <1>20, <1>21, <2>1 DEF Pending
  <2>2. CASE u # f
    <3>1. u \in DOMAIN mem /\ J[u] = K[u] /\ u # 0
      BY <1>11, <1>13, <1>15, <2>2 DEF Trees, TablesTyped
    <3>2. translate_addr(mem, K[u].space, u) = u \/ Pending(K[u].space, u) \/ RootNext(u)
      BY <3>1 DEF SpacesInv, SelfInv
    <3>3. translate_addr(mem, K[u].space, u) = u => translate_addr(n, K[u].space, u) = u
      BY <1>16, <3>1 DEF WalksKept
    <3>4. RootNext(u) => RootNext(u)'
      BY <1>5 DEF RootNext, Spaces
    <3>5. QED
      BY <1>25, <3>1, <3>2, <3>3, <3>4
  <2>3. QED
    BY <2>1, <2>2
<1>28. OpsInv(J)'
  BY <1>5, <1>18 DEF SpacesInv, OpsInv, OpOK, Spaces, Late
<1>29. FramesInv'
  BY <1>5, <1>7, <1>10, <1>15, <1>17 DEF SpacesInv, FramesInv, Late
<1>30. UserInv(J)'
  <2> SUFFICES ASSUME NEW u \in DOMAIN n, J[u].level = 1, NEW j \in DOMAIN n[u], n[u][j].user
               PROVE  (Late)' /\ n[u][j].frame \notin DOMAIN n /\ n[u][j].frame \notin FreeFrames'
    BY <1>10 DEF UserInv
  <2>1. u \in DOMAIN mem /\ u # t
    BY <1>12, <1>13, <1>15
  <2>2. n[u] = mem[u] /\ J[u] = K[u]
    BY <1>13, <1>15, <2>1
  <2>3. Late /\ n[u][j].frame \notin DOMAIN mem /\ n[u][j].frame \notin FreeFrames
    BY <2>1, <2>2 DEF SpacesInv, UserInv
  <2>4. QED
    BY <1>5, <1>7, <1>15, <1>17, <2>3 DEF Late
<1>31. BootInv' /\ LowInv'
  <2>1. BootInv'
    BY <1>5, <1>6 DEF SpacesInv, BootInv, Spaces
  <2>2. \A k : Taken(k) => Taken(k)'
    BY <1>17 DEF Taken
  <2>3. LowInv'
    BY <1>5, <2>2 DEF SpacesInv, LowInv
  <2>4. QED
    BY <2>1, <2>3
<1>32. (DOMAIN J = DOMAIN mem /\ Trees(mem, J, Spaces))'
  <2>1. Spaces' = Spaces
    BY <1>5 DEF Spaces
  <2>2. Trees(n, J, Spaces')
    BY <1>13, <2>1
  <2>3. QED
    BY <1>10, <1>13, <2>2
<1>33. QED
  BY <1>24, <1>26, <1>27, <1>28, <1>29, <1>30, <1>31, <1>32 DEF SpacesInv

\* The last level of map_addr changes what its page leads to, and nothing else.
LEMMA SetLeafKeeps ==
    ASSUME NEW K, SpacesInv(K), calls # <<>>, SetLeaf
    PROVE  SpacesInv(K)'
<1>1. PICK c : c = Head(calls)
  OBVIOUS
<1>2. PICK t : t = c.table
  OBVIOUS
<1>3. PICK i : i = Entry(c.page, 1)
  OBVIOUS
<1>4. PICK e : e = [frame |-> c.phys, user |-> c.user]
  OBVIOUS
<1>5. /\ c.level = 1 /\ mem' = WithEntry(mem, t, i, e) /\ calls' = Tail(calls)
      /\ UNCHANGED <<used, todo, asked, kernel, threads, phase>>
  BY <1>1, <1>2, <1>3, <1>4 DEF SetLeaf, SetEntry, WithEntry, callers
<1>6. /\ c \in CallRecord /\ CallOK(K, c) /\ Tail(calls) \in Seq(CallRecord)
      /\ Members(calls) = {c} \cup Members(Tail(calls))
      /\ c.page \in Pages /\ t \in DOMAIN mem
      /\ Told(K, t, c.space, c.level, Above(c.page, c.level) \div Fan)
      /\ phase # "loader"
  BY <1>1, <1>2, HeadCall
<1>7. PICK n : n = mem'
  OBVIOUS
<1>8. Trees(mem, K, Spaces) /\ DOMAIN K = DOMAIN mem
  BY DEF SpacesInv
<1>9. K[t].level = 1 /\ i \in 0 .. Fan - 1 /\ e.frame = c.phys /\ e.frame \in Nat /\ e.frame # 0
  <2>1. i \in 0 .. Fan - 1
    BY <1>3, <1>6, EntryRange
  <2>2. QED
    BY <1>4, <1>5, <1>6, <2>1 DEF Told, CallRecord
<1>10. n = WithEntry(mem, t, i, e)
  BY <1>5, <1>7
<1>11. Trees(n, K, Spaces)
  BY <1>6, <1>8, <1>9, <1>10, LeafKeepsTrees
<1>12. /\ DOMAIN n = DOMAIN mem /\ \A u \in DOMAIN mem : u # t => n[u] = mem[u]
       /\ DOMAIN n[t] = DOMAIN mem[t] \cup {i} /\ n[t][i] = e
       /\ \A j \in DOMAIN mem[t] : j # i => n[t][j] = mem[t][j]
  BY <1>6, <1>10, EntryFacts
<1>13. PICK s \in Spaces : s = c.space
  BY <1>6 DEF CallOK
<1>14. PICK page \in Pages : page = c.page
  BY <1>6
<1>15. t = TableFor(mem, s, page, 1) /\ t # 0 /\ i = Entry(page, 1)
  BY <1>2, <1>3, <1>5, <1>6, <1>13, <1>14 DEF CallOK
<1>16. \A r \in Spaces, q \in Pages :
           /\ \A level \in 1 .. 4 : TableFor(n, r, q, level) = TableFor(mem, r, q, level)
           /\ r = s /\ q = page => translate_addr(n, r, q) = c.phys
           /\ r # s \/ q # page => translate_addr(n, r, q) = translate_addr(mem, r, q)
  BY <1>8, <1>9, <1>10, <1>15, LeafChangesPage
<1>17. \A r, q : Outside(K, r, q)' <=> Outside(K, r, q)
  BY <1>5, <1>7, <1>12 DEF Outside, Late, FreeFrames, Holds
<1>18. CallsInv(K)'
  <2>1. ASSUME NEW d \in Members(Tail(calls)) PROVE CallOK(K, d)'
    <3>1. CallOK(K, d) /\ d \in CallRecord
      BY <1>6 DEF SpacesInv, CallsInv, Members
    <3>2. d.level \in 1 .. 4 /\ d.page \in Pages /\ d.space \in Spaces
      BY <3>1 DEF CallRecord, Pages, CallOK
    <3>3. TableFor(n, d.space, d.page, d.level) = d.table
      BY <1>16, <3>1, <3>2 DEF CallOK
    <3>4. d.user => (Late /\ d.phys \notin DOMAIN mem /\ d.phys \notin FreeFrames)'
      BY <1>5, <1>7, <1>12, <3>1 DEF CallOK, Late, FreeFrames
    <3>5. QED
      BY <1>5, <1>7, <1>17, <3>1, <3>3, <3>4 DEF CallOK, Spaces
  <2>2. QED
    BY <1>5, <1>6, <2>1 DEF CallsInv
<1>19. \A r, q : Pending(r, q) /\ (r # s \/ q # page) => Pending(r, q)'
  BY <1>5, <1>6, <1>13, <1>14 DEF Pending
<1>20. AskedInv(K)'
  <2> SUFFICES ASSUME NEW r \in Spaces, NEW q \in DOMAIN asked[r]
               PROVE  /\ q \in 1 .. Limit - 1 /\ asked[r][q] # 0
                      /\ translate_addr(n, r, q) = asked[r][q] \/ Pending(r, q)'
                      /\ asked[r][q] = q \/ Outside(K, r, q)'
    BY <1>5, <1>7 DEF AskedInv, Spaces
  <2>1. /\ q \in 1 .. Limit - 1 /\ asked[r][q] # 0
        /\ translate_addr(mem, r, q) = asked[r][q] \/ Pending(r, q)
        /\ asked[r][q] = q \/ Outside(K, r, q)
    BY DEF SpacesInv, AskedInv
  <2>2. q \in Pages
    BY <2>1, Sizes DEF Pages
  <2>3. CASE r = s /\ q = page
    <3>1. asked[r][q] = c.phys
      BY <1>6, <1>13, <1>14, <2>3 DEF CallOK
    <3>2. QED
      BY <1>16, <1>17, <2>1, <2>2, <2>3, <3>1
  <2>4. CASE r # s \/ q # page
    BY <1>16, <1>17, <1>19, <2>1, <2>2, <2>4
  <2>5. QED
    BY <2>3, <2>4
<1>21. SelfInv(K)'
  <2> SUFFICES ASSUME NEW u \in DOMAIN mem
               PROVE  \/ translate_addr(n, K[u].space, u) = u
                      \/ Pending(K[u].space, u)' \/ RootNext(u)'
    BY <1>7, <1>12 DEF SelfInv
  <2>1. u \in 1 .. MemPages - 1 /\ K[u].space \in Spaces
    BY <1>8 DEF Trees, TablesTyped
  <2>2. u \in Pages
    BY <2>1, Sizes DEF Pages
  <2>3. CASE K[u].space = s /\ u = page
    <3>1. ~ Outside(K, s, page)
      BY <2>1, <2>3, Sizes DEF Outside, Holds
    <3>2. c.phys = u
      BY <1>6, <1>13, <1>14, <2>3, <3>1 DEF CallOK
    <3>3. QED
      BY <1>16, <2>1, <2>2, <2>3, <3>2
  <2>4. CASE ~ (K[u].space = s /\ u = page)
    <3>1. translate_addr(mem, K[u].space, u) = u \/ Pending(K[u].space, u) \/ RootNext(u)
      BY DEF SpacesInv, SelfInv
    <3>2. RootNext(u) => RootNext(u)'
      BY <1>5 DEF RootNext, Spaces
    <3>3. translate_addr(n, K[u].space, u) = translate_addr(mem, K[u].space, u)
      BY <1>16, <2>1, <2>2, <2>4
    <3>4. Pending(K[u].space, u) => Pending(K[u].space, u)'
      BY <1>19, <2>4
    <3>5. QED
      BY <3>1, <3>2, <3>3, <3>4
  <2>5. QED
    BY <2>3, <2>4
<1>22. OpsInv(K)'
  BY <1>5, <1>17 DEF SpacesInv, OpsInv, OpOK, Spaces, Late
<1>23. FramesInv'
  BY <1>5, <1>7, <1>12 DEF SpacesInv, FramesInv, Late, FreeFrames
<1>24. UserInv(K)'
  <2> SUFFICES ASSUME NEW u \in DOMAIN mem, K[u].level = 1, NEW j \in DOMAIN n[u], n[u][j].user
               PROVE  Late /\ n[u][j].frame \notin DOMAIN mem /\ n[u][j].frame \notin FreeFrames
    BY <1>5, <1>7, <1>12 DEF UserInv, Late, FreeFrames
  <2>1. CASE u = t /\ j = i
    <3>1. e.user = c.user
      BY <1>4
    <3>2. n[u][j].frame = c.phys /\ n[u][j].user = c.user
      BY <1>9, <1>12, <2>1, <3>1
    <3>3. c.user
      BY <3>2
    <3>4. QED
      BY <1>6, <3>2, <3>3 DEF CallOK
  <2>2. CASE ~ (u = t /\ j = i)
    <3>1. j \in DOMAIN mem[u] /\ n[u][j] = mem[u][j]
      BY <1>12, <2>2
    <3>2. QED
      BY <3>1 DEF SpacesInv, UserInv
  <2>3. QED
    BY <2>1, <2>2
<1>25. BootInv'
  BY <1>5, <1>6 DEF SpacesInv, BootInv, Spaces
<1>26. LowInv'
  BY <1>5 DEF SpacesInv, LowInv, FreeFrames, Taken
<1>27. (DOMAIN K = DOMAIN mem /\ Trees(mem, K, Spaces))'
  <2>1. Spaces' = Spaces
    BY <1>5 DEF Spaces
  <2>2. Trees(n, K, Spaces')
    BY <1>11, <2>1
  <2>3. QED
    BY <1>7, <1>8, <1>12, <2>2
<1>28. QED
  BY <1>18, <1>20, <1>21, <1>22, <1>23, <1>24, <1>25, <1>26, <1>27 DEF SpacesInv

-----------------------------------------------------------------------------
(* The loops that call map_addr *)

\* What is left of the work after a round of the first loop.
RoundDone(o) ==
    \/ o.count = 1 /\ todo' = Tail(todo)
    \/ /\ o.count > 1 /\ todo' # <<>> /\ Tail(todo') = Tail(todo)
       /\ Head(todo').op = o.op /\ Head(todo').page = o.page + 1
       /\ Head(todo').count = o.count - 1

\* A loop that goes on to its next page.
NextPage(o) == [o EXCEPT !.phys = @ + 1, !.page = @ + 1, !.count = @ - 1]

WentOn(o, d) ==
    /\ d \in OpRecord /\ d.op = o.op /\ d.phys = o.phys + 1 /\ d.page = o.page + 1
    /\ d.count = o.count - 1 /\ d.user = o.user /\ d.space = o.space

\* The next page of a loop is one further on, and there is one page less to go.
LEMMA NextRound ==
    ASSUME NEW o \in OpRecord, o.count # 1, NEW d, d = NextPage(o)
    PROVE  WentOn(o, d)
<1>1. PICK x \in Nat : x = o.phys + 1
  BY DEF OpRecord
<1>2. PICK y \in Nat : y = o.page + 1
  BY DEF OpRecord
<1>3. PICK z \in Nat \ {0} : z = o.count - 1
  BY DEF OpRecord
<1>4. /\ d.op = o.op /\ d.phys = x /\ d.page = y /\ d.count = z /\ d.user = o.user
      /\ d.space = o.space
  BY <1>1, <1>2, <1>3 DEF OpRecord, NextPage
<1>5. d = [o EXCEPT !.phys = x, !.page = y, !.count = z]
  BY <1>1, <1>2, <1>3 DEF OpRecord, NextPage
<1>6. o \in OpRecord
  OBVIOUS
<1>7. d \in OpRecord
  BY ONLY <1>5, <1>6 DEF OpRecord
<1>8. QED
  BY <1>1, <1>2, <1>3, <1>4, <1>7 DEF WentOn

\* A round leaves a list whose operations are in order.
LEMMA RestKeeps ==
    ASSUME NEW K, OpsInv(K), todo # <<>>, todo' = Rest, Spaces' = Spaces,
           phase' = phase, \A s, page : Outside(K, s, page) => Outside(K, s, page)',
           NEW o, o = Head(todo)
    PROVE  o \in OpRecord /\ OpOK(K, o) /\ OpsInv(K)' /\ RoundDone(o)
<1>1. /\ o \in OpRecord /\ Tail(todo) \in Seq(OpRecord)
      /\ Members(todo) = {o} \cup Members(Tail(todo))
  BY MembersSplit DEF OpsInv
<1>2. OpOK(K, o)
  BY <1>1 DEF OpsInv
<1>3. \A p : OpOK(K, p) => OpOK(K, p)'
  BY DEF OpOK, Late
<1>4. CASE o.count = 1
  <2>1. todo' = Tail(todo)
    BY <1>4 DEF Rest
  <2>2. QED
    BY <1>1, <1>2, <1>3, <1>4, <2>1 DEF OpsInv, RoundDone
<1>5. CASE o.count # 1
  <2>1. PICK d : d = NextPage(o)
    OBVIOUS
  <2>2. PICK x \in Nat : x = o.phys + 1
    BY <1>1 DEF OpRecord
  <2>3. PICK y \in Nat : y = o.page + 1
    BY <1>1 DEF OpRecord
  <2>4. PICK z \in Nat \ {0} : z = o.count - 1
    <3>1. PICK k \in Nat : k = o.count /\ k # 0 /\ k # 1
      BY <1>1, <1>5 DEF OpRecord
    <3>2. QED
      BY <3>1
  <2>5. /\ d.op = o.op /\ d.phys = x /\ d.page = y /\ d.count = z /\ d.user = o.user
        /\ d.space = o.space
    <3>1. WentOn(o, d)
      BY <1>1, <1>5, <2>1, NextRound
    <3>2. QED
      BY <2>2, <2>3, <2>4, <3>1 DEF WentOn
  <2>6. d \in OpRecord
    BY <1>1, <1>5, <2>1, NextRound DEF WentOn
  <2>7. todo' = <<d>> \o Tail(todo)
    BY <1>5, <2>1 DEF Rest, NextPage
  <2>8. PICK q \in Seq(OpRecord) : q = Tail(todo)
    BY <1>1
  <2>9. PICK p : p = <<d>> \o q
    OBVIOUS
  <2>10. p \in Seq(OpRecord) /\ p # <<>> /\ Head(p) = d /\ Tail(p) = q
         /\ Members(p) = {d} \cup Members(q)
    BY <2>6, <2>9, MembersPush
  <2>11. OpOK(K, d)
    <3>1. /\ o.phys \in Nat /\ o.page \in Nat /\ o.count \in Nat
      BY <1>1 DEF OpRecord
    <3>2. d.space \in Spaces /\ d.page + d.count <= Limit
      BY <1>2, <2>3, <2>4, <2>5, <3>1, Sizes DEF OpOK
    <3>3. d.op = "map" => d.phys = d.page \/ d.page >= MemPages
      BY <1>2, <2>2, <2>3, <2>5, <3>1, Sizes DEF OpOK
    <3>4. ASSUME NEW n \in Nat, n < d.count
          PROVE  n + 1 \in Nat /\ n + 1 < o.count /\ d.phys + n = o.phys + (n + 1)
                 /\ d.page + n = o.page + (n + 1)
      <4>1. n + 1 \in Nat /\ n < o.count - 1
        BY <2>4, <2>5, <3>4
      <4>2. n + 1 < o.count
        BY <3>1, <4>1
      <4>3. \A k \in Nat : (k + 1) + n = k + (n + 1)
        OBVIOUS
      <4>4. d.phys + n = o.phys + (n + 1)
        BY <2>2, <2>5, <3>1, <4>3
      <4>5. d.page + n = o.page + (n + 1)
        BY <2>3, <2>5, <3>1, <4>3
      <4>6. QED
        BY <4>1, <4>2, <4>4, <4>5
    <3>5. d.op = "map" /\ d.user =>
              Late /\ \A n \in Nat : n < d.count => d.phys + n \in Opened
      BY <1>2, <2>5, <3>4 DEF OpOK
    <3>6. /\ d.op = "valloc" => \A n \in Nat : n < d.count => Outside(K, d.space, d.page + n)
          /\ d.op = "valloc" /\ d.user => Late
      BY <1>2, <2>5, <3>4 DEF OpOK
    <3>7. d.op # "heap"
      BY <1>2, <1>5, <2>5 DEF OpOK
    <3>8. QED
      BY <3>2, <3>3, <3>5, <3>6, <3>7 DEF OpOK
  <2>12. OpsInv(K)'
    BY <1>1, <1>3, <2>7, <2>8, <2>9, <2>10, <2>11 DEF OpsInv
  <2>13. RoundDone(o)
    <3>1. o.count > 1
      <4>1. PICK k \in Nat : k = o.count /\ k # 0 /\ k # 1
        BY <1>1, <1>5 DEF OpRecord
      <4>2. QED
        BY <4>1
    <3>2. QED
      BY <2>3, <2>4, <2>5, <2>7, <2>8, <2>9, <2>10, <3>1 DEF RoundDone
  <2>14. QED
    BY <1>1, <1>2, <2>12, <2>13
<1>6. QED
  BY <1>4, <1>5

\* When frames are only taken, what was outside stays outside.
LEMMA OutsideKept ==
    ASSUME NEW K, UNCHANGED mem, Late => (Late)', \A g : g \in FreeFrames' => g \in FreeFrames
    PROVE  \A s, page : Outside(K, s, page) => Outside(K, s, page)'
BY DEF Outside, Holds

\* The parts of the invariant that a step keeps when it leaves the tables alone
\* and takes at most frames.
LEMMA TablesAlone ==
    ASSUME NEW K, SpacesInv(K), UNCHANGED mem, Late => (Late)', Spaces' = Spaces,
           \A g : g \in FreeFrames' => g \in FreeFrames, \A t \in used : t \in used'
    PROVE  (DOMAIN K = DOMAIN mem /\ Trees(mem, K, Spaces) /\ FramesInv /\ UserInv(K))'
<1>1. (DOMAIN K = DOMAIN mem /\ Trees(mem, K, Spaces))'
  <2>1. Trees(mem, K, Spaces) /\ DOMAIN K = DOMAIN mem
    BY DEF SpacesInv
  <2>2. Trees(mem', K, Spaces')
    BY <2>1
  <2>3. QED
    BY <2>1, <2>2
<1>2. FramesInv'
  BY DEF SpacesInv, FramesInv
<1>3. UserInv(K)'
  BY DEF SpacesInv, UserInv
<1>4. QED
  BY <1>1, <1>2, <1>3

\* A new call of map_addr for the first operation, with or without a frame that
\* was taken for it.
LEMMA AskKeeps ==
    ASSUME NEW K, SpacesInv(K), Ready, NEW o, o = Head(todo), NEW x \in Nat, Ask(x, o),
           todo' = Rest, UNCHANGED <<mem, kernel, threads, phase>>,
           \A g : g \in FreeFrames' => g \in FreeFrames, \A t \in used : t \in used',
           o.op = "map" => x = o.phys,
           x # 0 => x = o.page \/ Outside(K, o.space, o.page),
           o.user /\ x # 0 => Late /\ x \notin DOMAIN mem /\ x \notin FreeFrames',
           RoundDone(o) => LowInv'
    PROVE  SpacesInv(K)'
<1>1. calls = <<>> /\ todo # <<>>
  BY DEF Ready
<1>2. phase # "loader"
  BY <1>1 DEF SpacesInv, BootInv
<1>3. Spaces' = Spaces
  BY DEF Ask, Spaces
<1>0. Late => (Late)'
  BY DEF Late
<1>4. \A s, page : Outside(K, s, page) => Outside(K, s, page)'
  BY <1>0, OutsideKept
<1>5. o \in OpRecord /\ OpOK(K, o) /\ OpsInv(K)' /\ RoundDone(o)
  <2>1. OpsInv(K)
    BY DEF SpacesInv
  <2>2. QED
    BY <1>1, <1>3, <1>4, <2>1, RestKeeps
<1>6. LowInv'
  BY <1>5
<1>7. BootInv'
  BY <1>2, <1>3 DEF SpacesInv, BootInv
<1>8. (DOMAIN K = DOMAIN mem /\ Trees(mem, K, Spaces) /\ FramesInv /\ UserInv(K))'
  BY <1>0, <1>3, TablesAlone
<1>9. Trees(mem, K, Spaces)
  BY DEF SpacesInv
<1>10. Members(calls) = {} /\ \A s, page : ~ Pending(s, page)
  BY <1>1, MembersEmpty DEF Pending
<1>11. o.page \in Nat /\ o.space \in Spaces /\ (o.page # 0 => o.page \in 1 .. Limit - 1)
  <2>1. o.page \in Nat /\ o.count \in Nat /\ o.count # 0 /\ o.page + o.count <= Limit
    BY <1>5 DEF OpRecord, OpOK
  <2>2. QED
    BY <1>5, <2>1, Sizes DEF OpOK
<1>12. CASE x = 0 \/ o.page = 0
  <2>1. UNCHANGED <<calls, asked>>
    BY <1>12 DEF Ask
  <2>2. CallsInv(K)'
    BY <1>1, <1>10, <2>1 DEF SpacesInv, CallsInv
  <2>3. AskedInv(K)'
    BY <1>4, <1>10, <2>1 DEF SpacesInv, AskedInv, Spaces
  <2>4. SelfInv(K)'
    <3>1. ASSUME NEW t \in DOMAIN mem PROVE translate_addr(mem, K[t].space, t) = t
      <4>1. t # 0
        BY <1>9 DEF Trees, TablesTyped
      <4>2. ~ RootNext(t)
        BY <1>12, <4>1 DEF RootNext
      <4>3. QED
        BY <1>10, <4>2 DEF SpacesInv, SelfInv
    <3>2. QED
      BY <3>1 DEF SelfInv
  <2>5. QED
    BY <1>5, <1>6, <1>7, <1>8, <2>2, <2>3, <2>4 DEF SpacesInv
<1>13. CASE x # 0 /\ o.page # 0
  <2>1. PICK c : c = Call(x, o.page, o.user, o.space)
    OBVIOUS
  <2>2. PICK s \in Spaces : s = o.space
    BY <1>11
  <2>3. PICK page \in 1 .. Limit - 1 : page = o.page
    BY <1>11, <1>13
  <2>4. calls' = <<c>> /\ asked' = [asked EXCEPT ![s] = Put(@, page, x)]
    BY <1>13, <2>1, <2>2, <2>3 DEF Ask
  <2>5. /\ c \in CallRecord /\ c.phys = x /\ c.page = page /\ c.user = o.user
        /\ c.space = s /\ c.table = s /\ c.level = 4
    <3>1. PICK user \in BOOLEAN : user = o.user
      BY <1>5 DEF OpRecord
    <3>2. s \in Nat
      BY <1>5, <2>2 DEF OpRecord
    <3>3. c = Call(x, page, user, s)
      BY <2>1, <2>2, <2>3, <3>1
    <3>4. x \in Nat \ {0}
      BY <1>13
    <3>5. QED
      BY <3>1, <3>2, <3>3, <3>4, FreshCall
  <2>6. calls' \in Seq(CallRecord) /\ Members(calls') = {c}
    BY <2>4, <2>5 DEF Members
  <2>7. /\ DOMAIN asked'[s] = DOMAIN asked[s] \cup {page} /\ asked'[s][page] = x
        /\ \A q \in DOMAIN asked[s] : q # page => asked'[s][q] = asked[s][q]
        /\ \A r \in Spaces : r # s => asked'[r] = asked[r]
    BY <2>4 DEF Put, Spaces
  <2>8. CallOK(K, c)'
    <3>1. s # 0
      BY <1>9 DEF Trees, RootsKnown, TablesTyped
    <3>2. TableFor(mem, c.space, c.page, c.level) = c.table
      BY <2>5, WalkSteps
    <3>3. x = page \/ Outside(K, s, page)'
      BY <1>4, <1>13, <2>2, <2>3
    <3>4. c.user => (Late)' /\ x \notin DOMAIN mem /\ x \notin FreeFrames'
      BY <1>13, <2>5 DEF Late
    <3>5. QED
      BY <1>3, <2>5, <2>7, <3>1, <3>2, <3>3, <3>4 DEF CallOK
  <2>9. CallsInv(K)'
    BY <2>6, <2>8 DEF CallsInv
  <2>10. Pending(s, page)'
    BY <2>5, <2>6 DEF Pending
  <2>11. AskedInv(K)'
    <3> SUFFICES ASSUME NEW r \in Spaces, NEW q \in DOMAIN asked'[r]
                 PROVE  /\ q \in 1 .. Limit - 1 /\ asked'[r][q] # 0
                        /\ translate_addr(mem, r, q) = asked'[r][q] \/ Pending(r, q)'
                        /\ asked'[r][q] = q \/ Outside(K, r, q)'
      BY <1>3 DEF AskedInv
    <3>1. CASE r = s /\ q = page
      BY <1>4, <1>13, <2>2, <2>3, <2>7, <2>10, <3>1
    <3>2. CASE ~ (r = s /\ q = page)
      <4>1. q \in DOMAIN asked[r] /\ asked'[r][q] = asked[r][q]
        BY <2>7, <3>2
      <4>2. /\ q \in 1 .. Limit - 1 /\ asked[r][q] # 0
            /\ translate_addr(mem, r, q) = asked[r][q]
            /\ asked[r][q] = q \/ Outside(K, r, q)
        BY <1>10, <4>1 DEF SpacesInv, AskedInv
      <4>3. QED
        BY <1>4, <4>1, <4>2
    <3>3. QED
      BY <3>1, <3>2
  <2>12. SelfInv(K)'
    <3> SUFFICES ASSUME NEW t \in DOMAIN mem
                 PROVE  translate_addr(mem, K[t].space, t) = t \/ Pending(K[t].space, t)'
      BY DEF SelfInv
    <3>1. translate_addr(mem, K[t].space, t) = t \/ RootNext(t)
      BY <1>10 DEF SpacesInv, SelfInv
    <3>2. ASSUME RootNext(t) PROVE Pending(K[t].space, t)'
      <4>1. page = t /\ s = t /\ t \in Spaces
        BY <2>2, <2>3, <3>2 DEF RootNext
      <4>2. K[t].space = t
        BY <1>9, <4>1 DEF Trees, RootsKnown, Told
      <4>3. QED
        BY <2>10, <4>1, <4>2
    <3>3. QED
      BY <3>1, <3>2
  <2>13. QED
    BY <1>5, <1>6, <1>7, <1>8, <2>9, <2>11, <2>12 DEF SpacesInv
<1>14. QED
  BY <1>12, <1>13

\* While the kernel's first vallocs are done, nothing else is to be done.
LEMMA OnlyValloc ==
    ASSUME LowInv, todo # <<>>, Head(todo).op # "valloc", UNCHANGED phase,
           \A g : g \in FreeFrames' => g \in FreeFrames
    PROVE  LowInv'
<1>1. phase \notin {"heap", "lapic"}
  BY DEF LowInv
<1>2. QED
  BY <1>1 DEF LowInv, Taken

\* A page of map_range.
LEMMA MapPageKeeps ==
    ASSUME NEW K, SpacesInv(K), MapPage
    PROVE  SpacesInv(K)'
<1>1. PICK o : o = Head(todo)
  OBVIOUS
<1>2. PICK x : x = o.phys
  OBVIOUS
<1>3. /\ Ready /\ o.op = "map" /\ Ask(x, o) /\ todo' = Rest
      /\ UNCHANGED <<mem, used, kernel, threads, phase>>
  BY <1>1, <1>2 DEF MapPage, others
<1>4. o \in OpRecord /\ OpOK(K, o)
  BY <1>1, <1>3, MembersSplit DEF SpacesInv, OpsInv, Ready
<1>5. x \in Nat
  BY <1>2, <1>4 DEF OpRecord
<1>6. FreeFrames' = FreeFrames
  BY <1>3 DEF FreeFrames
<1>7. x = o.page \/ Outside(K, o.space, o.page)
  BY <1>2, <1>3, <1>4 DEF OpOK, Outside
<1>8. ASSUME o.user PROVE Late /\ x \notin DOMAIN mem /\ x \notin FreeFrames
  <2>1. Late /\ \A n \in Nat : n < o.count => o.phys + n \in Opened
    BY <1>3, <1>4, <1>8 DEF OpOK
  <2>2. 0 < o.count /\ o.phys + 0 = o.phys
    BY <1>2, <1>4, <1>5 DEF OpRecord
  <2>3. x \in Opened
    BY <1>2, <2>1, <2>2
  <2>4. QED
    BY <2>1, <2>3 DEF SpacesInv, FramesInv
<1>9. LowInv'
  BY <1>1, <1>3, <1>6, OnlyValloc DEF SpacesInv, Ready
<1>10. \A t \in used : t \in used'
  BY <1>3
<1>11. QED
  BY <1>1, <1>2, <1>3, <1>5, <1>6, <1>7, <1>8, <1>9, <1>10, AskKeeps

\* A page of map_heap, at the frame the kernel has it in.
LEMMA CopyPageKeeps ==
    ASSUME NEW K, SpacesInv(K), CopyPage
    PROVE  SpacesInv(K)'
<1>1. PICK o : o = Head(todo)
  OBVIOUS
<1>2. PICK x : x = translate_addr(mem, kernel, HeapPage)
  OBVIOUS
<1>3. /\ Ready /\ o.op = "heap" /\ Ask(x, o) /\ todo' = Rest
      /\ UNCHANGED <<mem, used, kernel, threads, phase>>
  BY <1>1, <1>2 DEF CopyPage, others
<1>4. o \in OpRecord /\ OpOK(K, o)
  BY <1>1, <1>3, MembersSplit DEF SpacesInv, OpsInv, Ready
<1>5. x \in Nat
  <2>1. PICK t : x = Child(mem, t, HeapPage, 1)
    BY <1>2, WalkSteps
  <2>2. QED
    BY <2>1 DEF Child, SpacesInv, Trees, TablesTyped
<1>6. FreeFrames' = FreeFrames
  BY <1>3 DEF FreeFrames
<1>7. Outside(K, o.space, o.page) /\ ~ o.user
  BY <1>3, <1>4 DEF OpOK, Outside
<1>8. LowInv'
  BY <1>1, <1>3, <1>6, OnlyValloc DEF SpacesInv, Ready
<1>9. \A t \in used : t \in used'
  BY <1>3
<1>10. QED
  BY <1>1, <1>3, <1>5, <1>6, <1>7, <1>8, <1>9, AskKeeps

\* A page of valloc, on a fresh frame, which is neither a table's nor, for one of
\* a thread's regions, the page's own number.
LEMMA VallocPageKeeps ==
    ASSUME NEW K, SpacesInv(K), ~ stray, VallocPage
    PROVE  stray' \/ SpacesInv(K)'
<1>1. PICK o : o = Head(todo)
  OBVIOUS
<1>2. PICK x : x = Lowest
  OBVIOUS
<1>3. CASE x = 0
  BY <1>2, <1>3 DEF VallocPage, Astray
<1>4. CASE x # 0
  <2>1. /\ Ready /\ o.op = "valloc" /\ Ask(x, o) /\ todo' = Rest
        /\ UNCHANGED <<mem, kernel, threads, phase>> /\ used' = used \cup {x}
    BY <1>1, <1>2, <1>4 DEF VallocPage, others, alloc_frame
  <2>2. /\ x \in FreeFrames /\ x \in 1 .. MemPages - 1 /\ \A g \in FreeFrames : x <= g
    BY <1>2, <1>4, LowestFree
  <2>3. \A g : g \in FreeFrames' <=> g \in FreeFrames /\ g # x
    BY <2>1 DEF FreeFrames
  <2>4. o \in OpRecord /\ OpOK(K, o)
    BY <1>1, <2>1, MembersSplit DEF SpacesInv, OpsInv, Ready
  <2>5. Outside(K, o.space, o.page)
    <3>1. 0 < o.count /\ o.page + 0 = o.page /\ 0 \in Nat
      BY <2>4 DEF OpRecord
    <3>2. \A n \in Nat : n < o.count => Outside(K, o.space, o.page + n)
      BY <2>1, <2>4 DEF OpOK
    <3>3. Outside(K, o.space, o.page + 0)
      BY <3>1, <3>2
    <3>4. QED
      BY <3>1, <3>3
  <2>6. x \notin DOMAIN mem /\ x \notin FreeFrames' /\ (o.user => Late)
    <3>1. x \notin DOMAIN mem
      BY <2>2 DEF SpacesInv, FramesInv, FreeFrames
    <3>2. QED
      BY <2>1, <2>3, <2>4, <3>1 DEF OpOK
  <2>7. ASSUME NEW n \in Int, NEW k \in Int, k = n + 1, Taken(n) PROVE Taken(k)'
    <3>1. \A g \in FreeFrames : g \in Nat /\ g > n
      BY <2>7, Sizes DEF FreeFrames, Taken
    <3>2. x \in Nat /\ x > n
      BY <2>2, <3>1
    <3>3. \A g \in FreeFrames : g # x => g > k
      BY <2>2, <2>7, <3>1, <3>2
    <3>4. QED
      BY <2>3, <3>3 DEF Taken
  <2>8. ASSUME RoundDone(o) PROVE LowInv'
    <3>1. o.page \in Nat /\ o.count \in Nat /\ o.count # 0
      BY <2>4 DEF OpRecord
    <3>2. LowInv /\ todo # <<>> /\ phase' = phase
      BY <2>1 DEF SpacesInv, Ready
    <3>3. CASE phase = "heap"
      <4>1. /\ Tail(todo) = <<>> /\ Half <= o.page /\ o.page + o.count = Half + VmmPages
            /\ Taken(o.page - Half)
        BY <1>1, <3>2, <3>3 DEF LowInv
      <4>2. PICK page \in Nat : page = o.page
        BY <3>1
      <4>3. PICK n \in Int : n = page - Half
        BY Sizes
      <4>4. PICK k \in Int : k = n + 1
        OBVIOUS
      <4>5. Taken(k)'
        BY <2>7, <4>1, <4>2, <4>3, <4>4
      <4>6. VmmPages \in Nat /\ Half \in Nat
        BY PagingAssumption, Sizes
      <4>7. CASE o.count = 1
        <5>0. ~ (o.count > 1)
          BY <4>7
        <5>1. todo' = <<>>
          BY <2>8, <4>1, <5>0 DEF RoundDone
        <5>2. page + 1 = Half + VmmPages
          BY <4>1, <4>2, <4>7
        <5>3. k = VmmPages
          BY <4>3, <4>4, <4>6, <5>2
        <5>4. QED
          BY <3>2, <3>3, <4>5, <5>1, <5>3 DEF LowInv
      <4>8. CASE o.count # 1
        <5>1. /\ todo' # <<>> /\ Tail(todo') = <<>> /\ Head(todo').op = "valloc"
              /\ Head(todo').page = page + 1 /\ Head(todo').count = o.count - 1
          BY <2>1, <2>8, <4>1, <4>2, <4>8 DEF RoundDone
        <5>2. PICK d : d = Head(todo')
          OBVIOUS
        <5>3. PICK count \in Nat : count = o.count
          BY <3>1
        <5>4. page + count = Half + VmmPages /\ Half <= page
          BY <4>1, <4>2, <5>3
        <5>5. (page + 1) - Half = k /\ Half <= page + 1
              /\ (page + 1) + (count - 1) = Half + VmmPages
          BY <4>3, <4>4, <4>6, <5>4
        <5>6. d.page = page + 1 /\ d.count = count - 1
          BY <5>1, <5>2, <5>3
        <5>7. d.page - Half = k /\ Half <= d.page /\ d.page + d.count = Half + VmmPages
          BY <5>5, <5>6
        <5>8. (/\ Tail(todo) = <<>> /\ Head(todo).op = "valloc" /\ Half <= Head(todo).page
               /\ Head(todo).page + Head(todo).count = Half + VmmPages
               /\ Taken(Head(todo).page - Half))'
          BY <4>5, <5>1, <5>2, <5>7
        <5>9. QED
          BY <3>2, <3>3, <5>1, <5>8 DEF LowInv
      <4>9. QED
        BY <4>7, <4>8
    <3>4. CASE phase = "lapic"
      <4>1. Tail(todo) = <<>> /\ o.count = 1 /\ Taken(2)
        BY <1>1, <3>2, <3>4 DEF LowInv
      <4>0. ~ (o.count > 1)
        BY <4>1
      <4>2. todo' = <<>>
        BY <2>8, <4>0, <4>1 DEF RoundDone
      <4>3. PICK n \in Int : n = 2
        OBVIOUS
      <4>4. PICK k \in Int : k = 3
        OBVIOUS
      <4>5. Taken(k)'
        <5>1. k = n + 1 /\ Taken(n)
          BY <4>1, <4>3, <4>4
        <5>2. QED
          BY <2>7, <5>1
      <4>6. Taken(3)'
        BY <4>4, <4>5
      <4>7. QED
        BY <3>2, <3>4, <4>2, <4>6 DEF LowInv
    <3>5. CASE phase \notin {"heap", "lapic"}
      BY <2>3, <3>2, <3>5 DEF LowInv, Taken
    <3>6. QED
      BY <3>3, <3>4, <3>5
  <2>9. \A t \in used : t \in used'
    BY <2>1
  <2>10. x \in Nat
    BY <2>2, Sizes
  <2>11. SpacesInv(K)'
    BY <1>1, <2>1, <2>3, <2>5, <2>6, <2>8, <2>9, <2>10, AskKeeps
  <2>12. QED
    BY <2>11
<1>5. QED
  BY <1>3, <1>4

\* load_cr3 changes no table.
LEMMA LoadCr3Keeps ==
    ASSUME NEW K, SpacesInv(K), LoadCr3
    PROVE  SpacesInv(K)'
<1>1. PICK o : o = Head(todo)
  OBVIOUS
<1>2. /\ Ready /\ o.op = "load" /\ todo' = Rest
      /\ UNCHANGED <<mem, used, calls, asked, kernel, threads, phase>>
  BY <1>1 DEF LoadCr3, others
<1>3. FreeFrames' = FreeFrames /\ Spaces' = Spaces /\ calls = <<>> /\ todo # <<>>
  BY <1>2 DEF FreeFrames, Spaces, Ready
<1>0. Late => (Late)'
  BY <1>2 DEF Late
<1>4. \A s, page : Outside(K, s, page) => Outside(K, s, page)'
  BY <1>0, <1>2, <1>3, OutsideKept
<1>5. OpsInv(K)'
  <2>1. OpsInv(K)
    BY DEF SpacesInv
  <2>2. QED
    BY <1>1, <1>2, <1>3, <1>4, <2>1, RestKeeps
<1>6. LowInv'
  BY <1>1, <1>2, <1>3, OnlyValloc DEF SpacesInv
<1>7. BootInv'
  BY <1>2, <1>3 DEF SpacesInv, BootInv
<1>8. (DOMAIN K = DOMAIN mem /\ Trees(mem, K, Spaces) /\ FramesInv /\ UserInv(K))'
  <2>1. \A t \in used : t \in used'
    BY <1>2
  <2>2. QED
    BY <1>0, <1>2, <1>3, <2>1, TablesAlone
<1>9. Members(calls) = {} /\ \A s, page : ~ Pending(s, page)
  BY <1>3, MembersEmpty DEF Pending
<1>10. CallsInv(K)'
  BY <1>2, <1>9 DEF SpacesInv, CallsInv
<1>11. AskedInv(K)'
  BY <1>2, <1>3, <1>4, <1>9 DEF SpacesInv, AskedInv
<1>12. SelfInv(K)'
  <2>1. \A t \in DOMAIN mem : translate_addr(mem, K[t].space, t) = t
    BY <1>1, <1>2, <1>9 DEF SpacesInv, SelfInv, RootNext
  <2>2. QED
    BY <1>2, <2>1 DEF SelfInv
<1>13. QED
  BY <1>5, <1>6, <1>7, <1>8, <1>10, <1>11, <1>12 DEF SpacesInv

-----------------------------------------------------------------------------
(* The lists of work *)

\* An operation on a space of S, on pages for user code or among the first three
\* only if the space is in U; no space is loaded if U is empty.
OpFits(o, S, U) ==
    /\ o.space \in S /\ o.page + o.count <= Limit /\ (o.user => o.space \in U)
    /\ o.op = "map" => o.phys = o.page \/ o.page >= MemPages
    /\ o.op = "map" /\ o.user => \A n \in Nat : n < o.count => o.phys + n \in Opened
    /\ o.op = "valloc" =>
           o.page >= MemPages \/ (o.count = 1 /\ o.page \in 1 .. 3 /\ o.space \in U)
    /\ o.op = "heap" => o.page >= MemPages /\ ~ o.user /\ o.count = 1
    /\ o.op = "load" => U # {}

ListFits(q, S, U) == q \in Seq(OpRecord) /\ \A o \in Members(q) : OpFits(o, S, U)

\* The list begins with the mapping of a P4 at its own address.
Begins(q, f) ==
    /\ q # <<>> /\ Head(q).op = "map" /\ Head(q).phys = f /\ Head(q).page = f
    /\ Head(q).space = f

\* No work fits.
LEMMA FitsEmpty ==
    ASSUME NEW S, NEW U
    PROVE  ListFits(<<>>, S, U)
BY MembersEmpty DEF ListFits

\* A list of one operation fits when the operation does.
LEMMA FitsOne ==
    ASSUME NEW S, NEW U, NEW o \in OpRecord, OpFits(o, S, U), NEW q, q = <<o>>
    PROVE  ListFits(q, S, U)
<1>1. Members(q) = {o} /\ q \in Seq(OpRecord)
  BY DEF Members
<1>2. QED
  BY <1>1 DEF ListFits

\* Two lists that fit, one behind the other, fit.
LEMMA FitsConcat ==
    ASSUME NEW S, NEW U, NEW p, NEW q, ListFits(p, S, U), ListFits(q, S, U), NEW r, r = p \o q
    PROVE  ListFits(r, S, U) /\ \A f : Begins(p, f) => Begins(r, f)
<1>1. p \in Seq(OpRecord) /\ q \in Seq(OpRecord)
  BY DEF ListFits
<1>2. r \in Seq(OpRecord) /\ \A x \in Members(r) : x \in Members(p) \/ x \in Members(q)
  BY <1>1, MembersConcat
<1>3. p # <<>> => r # <<>> /\ Head(r) = Head(p)
  BY <1>1
<1>4. QED
  BY <1>2, <1>3 DEF ListFits, Begins

\* map_range fits when it maps pages at their own number, or pages no frame has
\* the number of, and gives user code only frames it may have.
LEMMA FitsRange ==
    ASSUME NEW S, NEW U, NEW x \in Nat, NEW page \in Nat, NEW count \in Nat,
           NEW user \in BOOLEAN, NEW s \in S, s \in Nat, page + count <= Limit,
           x = page \/ page >= MemPages,
           user => s \in U /\ \A n \in Nat : n < count => x + n \in Opened,
           NEW q, q = map_range(x, page, count, user, s)
    PROVE  /\ ListFits(q, S, U)
           /\ count = 1 /\ x = s /\ page = s => Begins(q, s)
<1>1. CASE count = 0
  <2>1. q = <<>>
    BY <1>1 DEF map_range, Loop
  <2>2. QED
    BY <1>1, <2>1, FitsEmpty
<1>2. CASE count # 0
  <2>1. PICK kind \in {"map", "valloc", "heap", "load"} : kind = "map"
    OBVIOUS
  <2>2. PICK o : o = Op(kind, x, page, count, user, s)
    OBVIOUS
  <2>3. /\ o \in OpRecord /\ o.op = kind /\ o.phys = x /\ o.page = page
        /\ o.count = count /\ o.user = user /\ o.space = s
    BY <1>2, <2>2 DEF Op, OpRecord
  <2>4. q = <<o>>
    BY <1>2, <2>1, <2>2 DEF map_range, Loop
  <2>5. OpFits(o, S, U)
    <3>1. o.op = "map" /\ o.op # "valloc" /\ o.op # "heap"
      BY <2>1, <2>3
    <3>2. o.user <=> user
      BY <2>3
    <3>3. o.user => o.space \in U /\ \A n \in Nat : n < o.count => o.phys + n \in Opened
      BY <2>3, <3>2
    <3>4. o.space \in S /\ o.page + o.count <= Limit
      BY <2>3
    <3>5. o.phys = o.page \/ o.page >= MemPages
      BY <2>3
    <3>6. QED
      BY <3>1, <3>3, <3>4, <3>5 DEF OpFits
  <2>6. ListFits(q, S, U)
    BY <2>3, <2>4, <2>5, FitsOne
  <2>7. q # <<>> /\ Head(q) = o
    BY <2>4
  <2>8. QED
    BY <2>1, <2>3, <2>6, <2>7 DEF Begins
<1>3. QED
  BY <1>1, <1>2

\* The list is one round or more of valloc.
OneValloc(q, page, count) ==
    /\ q # <<>> /\ Tail(q) = <<>> /\ Head(q).op = "valloc"
    /\ Head(q).page = page /\ Head(q).count = count

\* valloc fits on pages no frame has the number of, and on the first three of a
\* space in U.
LEMMA FitsValloc ==
    ASSUME NEW S, NEW U, NEW page \in Nat, NEW count \in Nat, NEW user \in BOOLEAN,
           NEW s \in S, s \in Nat, page + count <= Limit,
           page >= MemPages \/ (count = 1 /\ page \in 1 .. 3 /\ s \in U), user => s \in U,
           NEW q, q = valloc(page, count, user, s)
    PROVE  /\ ListFits(q, S, U)
           /\ count # 0 => OneValloc(q, page, count)
<1>1. CASE count = 0
  <2>1. q = <<>>
    BY <1>1 DEF valloc, Loop
  <2>2. QED
    BY <1>1, <2>1, FitsEmpty
<1>2. CASE count # 0
  <2>1. PICK kind \in {"map", "valloc", "heap", "load"} : kind = "valloc"
    OBVIOUS
  <2>2. PICK z \in Nat : z = 0
    OBVIOUS
  <2>3. PICK o : o = Op(kind, z, page, count, user, s)
    OBVIOUS
  <2>4. /\ o \in OpRecord /\ o.op = kind /\ o.page = page
        /\ o.count = count /\ o.user = user /\ o.space = s
    BY <1>2, <2>3 DEF Op, OpRecord
  <2>5. q = <<o>>
    BY <1>2, <2>1, <2>2, <2>3 DEF valloc, Loop
  <2>6. OpFits(o, S, U)
    <3>1. o.op # "map" /\ o.op # "heap" /\ o.op # "load"
      BY <2>1, <2>4
    <3>2. o.user => o.space \in U
      BY <2>4
    <3>3. o.space \in S /\ o.page + o.count <= Limit
      BY <2>4
    <3>4. o.page >= MemPages \/ (o.count = 1 /\ o.page \in 1 .. 3 /\ o.space \in U)
      BY <2>4
    <3>5. QED
      BY <3>1, <3>2, <3>3, <3>4 DEF OpFits
  <2>7. ListFits(q, S, U)
    BY <2>4, <2>5, <2>6, FitsOne
  <2>8. q # <<>> /\ Head(q) = o /\ Tail(q) = <<>>
    BY <2>5
  <2>9. QED
    BY <2>1, <2>4, <2>7, <2>8 DEF OneValloc
<1>3. QED
  BY <1>1, <1>2

\* load_cr3 fits when spaces may be loaded.
LEMMA FitsLoad ==
    ASSUME NEW S, NEW U, U # {}, NEW s \in S, s \in Nat, NEW q, q = load_cr3(s)
    PROVE  ListFits(q, S, U)
<1>1. PICK kind \in {"map", "valloc", "heap", "load"} : kind = "load"
  OBVIOUS
<1>2. PICK o : o = Op(kind, 0, 0, 1, FALSE, s)
  OBVIOUS
<1>3. /\ o \in OpRecord /\ o.op = kind /\ o.page = 0 /\ o.count = 1 /\ ~ o.user /\ o.space = s
  BY <1>2 DEF Op, OpRecord
<1>4. OpFits(o, S, U)
  BY <1>1, <1>3, Sizes DEF OpFits
<1>5. q = <<o>>
  BY <1>1, <1>2 DEF load_cr3
<1>6. QED
  BY <1>3, <1>4, <1>5, FitsOne

\* map_heap fits: the heap is in the upper half.
LEMMA FitsHeap ==
    ASSUME NEW S, NEW U, NEW s \in S, s \in Nat, NEW q, q = map_heap(s)
    PROVE  ListFits(q, S, U)
<1>1. PICK kind \in {"map", "valloc", "heap", "load"} : kind = "heap"
  OBVIOUS
<1>2. PICK page : page = HeapPage
  OBVIOUS
<1>3. page \in Nat /\ page >= MemPages /\ page + 1 <= Limit
  <2>1. VmmFirst \in Nat /\ VmmFirst < Half
    BY PagingAssumption, Sizes
  <2>2. QED
    BY <1>2, <2>1, Sizes DEF HeapPage, VADDR
<1>4. PICK o : o = Op(kind, 0, page, 1, FALSE, s)
  OBVIOUS
<1>5. o \in OpRecord /\ o.op = kind /\ o.page = page /\ o.count = 1 /\ ~ o.user /\ o.space = s
  BY <1>3, <1>4 DEF Op, OpRecord
<1>6. OpFits(o, S, U)
  BY <1>1, <1>3, <1>5 DEF OpFits
<1>7. q = <<o>>
  BY <1>1, <1>2, <1>4 DEF map_heap
<1>8. QED
  BY <1>5, <1>6, <1>7, FitsOne

\* map_kernel_entries fits: the image is in the upper half.
LEMMA FitsImage ==
    ASSUME NEW S, NEW U, NEW user \in BOOLEAN, NEW s \in S, s \in Nat, user => s \in U,
           NEW q, q = MapImage(user, s)
    PROVE  ListFits(q, S, U)
<1>1. PICK x \in Nat : x = Kernel.paddr
  BY PagingAssumption
<1>2. PICK page \in Nat : page = Kernel.vaddr /\ page >= MemPages
  BY PagingAssumption, Sizes
<1>3. PICK count \in Nat : count = Kernel.num_pages
  BY PagingAssumption
<1>4. page + count <= Limit
  BY <1>2, <1>3, PagingAssumption
<1>5. \A n \in Nat : n < count => x + n \in Opened
  BY <1>1, <1>3 DEF Opened
<1>6. q = map_range(x, page, count, user, s)
  BY <1>1, <1>2, <1>3 DEF MapImage
<1>7. QED
  BY <1>2, <1>4, <1>5, <1>6, FitsRange

\* map_framebuffer fits: its pages are mapped at their own numbers.
LEMMA FitsFramebuffer ==
    ASSUME NEW S, NEW U, NEW user \in BOOLEAN, NEW s \in S, s \in Nat, user => s \in U,
           NEW q, q = map_framebuffer(user, s)
    PROVE  ListFits(q, S, U)
<1>1. PICK x \in Nat : x = Framebuffer.start
  BY PagingAssumption
<1>2. PICK count \in Nat : count = Framebuffer.count
  BY PagingAssumption
<1>3. x + count <= Limit
  BY <1>1, <1>2, PagingAssumption
<1>4. \A n \in Nat : n < count => x + n \in Opened
  BY <1>1, <1>2 DEF Opened
<1>5. q = map_range(x, x, count, user, s)
  BY <1>1, <1>2 DEF map_framebuffer
<1>6. QED
  BY <1>3, <1>4, <1>5, FitsRange

\* One page for the kernel, at its own address or in the upper half.
LEMMA FitsMap ==
    ASSUME NEW S, NEW U, NEW x \in Nat, NEW page \in Nat, page < Limit, NEW s \in S, s \in Nat,
           x = page \/ page >= MemPages, NEW q, q = Map(x, page, FALSE, s)
    PROVE  ListFits(q, S, U) /\ (x = s /\ page = s => Begins(q, s))
<1>1. PICK user \in BOOLEAN : user = FALSE
  OBVIOUS
<1>2. PICK count \in Nat : count = 1
  OBVIOUS
<1>3. q = map_range(x, page, count, user, s)
  BY <1>1, <1>2 DEF Map
<1>4. page + count <= Limit
  BY <1>2, Sizes
<1>5. ~ user
  BY <1>1
<1>6. QED
  BY <1>2, <1>3, <1>4, <1>5, FitsRange

\* The stack of the boot processor in the upper half.
LEMMA FitsStack ==
    ASSUME NEW S, NEW U, NEW s \in S, s \in Nat, NEW f \in 1 .. MemPages - 1,
           NEW q, q = Map(f, VADDR(f), FALSE, s)
    PROVE  ListFits(q, S, U)
<1>1. PICK page \in Nat : page = VADDR(f) /\ page >= MemPages /\ page < Limit
  BY Sizes DEF VADDR
<1>2. q = Map(f, page, FALSE, s) /\ f \in Nat
  BY <1>1, Sizes
<1>3. QED
  BY <1>1, <1>2, FitsMap

\* map_lapic fits, in either mode of the APIC.
LEMMA FitsLapic ==
    ASSUME NEW S, NEW U, NEW s \in S, s \in Nat, NEW q, q = map_lapic(s)
    PROVE  ListFits(q, S, U)
<1>1. CASE x2mode
  BY <1>1, FitsEmpty DEF map_lapic
<1>2. CASE ~ x2mode
  <2>1. PICK page \in Nat : page = Lapic /\ page < Limit
    BY PagingAssumption, Sizes
  <2>2. q = Map(page, page, FALSE, s)
    BY <1>2, <2>1 DEF map_lapic
  <2>3. QED
    BY <2>1, <2>2, FitsMap
<1>3. QED
  BY <1>1, <1>2

\* The regions of a thread fit in its own space.
LEMMA FitsRegions ==
    ASSUME NEW S, NEW U, NEW s \in S, s \in U, s \in Nat, NEW q, q = Regions(s)
    PROVE  ListFits(q, S, U)
<1>1. PICK user \in BOOLEAN : user = TRUE
  OBVIOUS
<1>2. PICK count \in Nat : count = 1
  OBVIOUS
<1>3. ASSUME NEW page \in 1 .. 3, NEW v, v = valloc(page, count, user, s)
      PROVE  ListFits(v, S, U)
  <2>1. page + count <= Limit /\ page \in Nat
    BY <1>2, Sizes
  <2>2. QED
    BY <1>2, <1>3, <2>1, FitsValloc
<1>4. PICK p1 \in 1 .. 3, p2 \in 1 .. 3, p3 \in 1 .. 3 : p1 = 1 /\ p2 = 2 /\ p3 = 3
  OBVIOUS
<1>5. PICK a1 : a1 = valloc(p1, count, user, s)
  OBVIOUS
<1>6. PICK a2 : a2 = valloc(p2, count, user, s)
  OBVIOUS
<1>7. PICK a3 : a3 = valloc(p3, count, user, s)
  OBVIOUS
<1>8. ListFits(a1, S, U) /\ ListFits(a2, S, U) /\ ListFits(a3, S, U)
  BY <1>3, <1>5, <1>6, <1>7
<1>9. PICK b : b = a1 \o a2
  OBVIOUS
<1>10. ListFits(b, S, U)
  BY <1>8, <1>9, FitsConcat
<1>11. q = b \o a3
  BY <1>1, <1>2, <1>4, <1>5, <1>6, <1>7, <1>9 DEF Regions
<1>12. QED
  BY <1>8, <1>10, <1>11, FitsConcat

\* The work of create_thread opens to user code only the thread's own space.
LEMMA FitsThread ==
    ASSUME NEW S, NEW f \in 1 .. MemPages - 1, f \in S, kernel \in S, kernel \in Nat,
           NEW q, q = init_thread_vmm(f)
    PROVE  ListFits(q, S, {f}) /\ Begins(q, f)
<1>1. f \in Nat /\ f < Limit
  BY Sizes
<1>2. PICK user \in BOOLEAN : user = TRUE
  OBVIOUS
<1>3. PICK U : U = {f} /\ f \in U
  OBVIOUS
<1>4. PICK b1 : b1 = Map(f, f, FALSE, f)
  OBVIOUS
<1>5. ListFits(b1, S, U) /\ Begins(b1, f)
  BY <1>1, <1>4, FitsMap
<1>6. PICK a2 : a2 = Map(Stack, VADDR(Stack), FALSE, f)
  OBVIOUS
<1>7. ListFits(a2, S, U)
  BY <1>1, <1>6, FitsStack, PagingAssumption
<1>8. PICK a3 : a3 = MapImage(user, f)
  OBVIOUS
<1>9. ListFits(a3, S, U)
  BY <1>1, <1>3, <1>8, FitsImage
<1>10. PICK a4 : a4 = map_framebuffer(user, f)
  OBVIOUS
<1>11. ListFits(a4, S, U)
  BY <1>1, <1>3, <1>10, FitsFramebuffer
<1>12. PICK a5 : a5 = map_lapic(f)
  OBVIOUS
<1>13. ListFits(a5, S, U)
  BY <1>1, <1>12, FitsLapic
<1>14. PICK a6 : a6 = map_heap(f)
  OBVIOUS
<1>15. ListFits(a6, S, U)
  BY <1>1, <1>14, FitsHeap
<1>16. PICK a7 : a7 = Map(PmmBitmap, PmmBitmap, FALSE, f)
  OBVIOUS
<1>17. ListFits(a7, S, U)
  <2>1. PICK page \in Nat : page = PmmBitmap /\ page < Limit
    BY PagingAssumption, Sizes
  <2>2. a7 = Map(page, page, FALSE, f)
    BY <1>16, <2>1
  <2>3. QED
    BY <1>1, <2>1, <2>2, FitsMap
<1>18. PICK a8 : a8 = load_cr3(f)
  OBVIOUS
<1>19. ListFits(a8, S, U)
  BY <1>1, <1>3, <1>18, FitsLoad
<1>20. PICK a9 : a9 = Regions(f)
  OBVIOUS
<1>21. ListFits(a9, S, U)
  BY <1>1, <1>3, <1>20, FitsRegions
<1>22. PICK a10 : a10 = load_cr3(kernel)
  OBVIOUS
<1>23. ListFits(a10, S, U)
  <2>1. PICK k \in S : k = kernel
    OBVIOUS
  <2>2. a10 = load_cr3(k) /\ k \in Nat
    BY <1>22, <2>1
  <2>3. QED
    BY <1>3, <2>2, FitsLoad
<1> DEFINE Ok(b) == ListFits(b, S, U) /\ Begins(b, f)
<1>24. ASSUME NEW b, Ok(b), NEW a, ListFits(a, S, U), NEW r, r = b \o a PROVE Ok(r)
  BY <1>24, FitsConcat
<1>25. Ok(b1)
  BY <1>5
<1> HIDE DEF Ok
<1>26. PICK b2 : b2 = b1 \o a2 /\ Ok(b2)
  BY <1>7, <1>24, <1>25
<1>27. PICK b3 : b3 = b2 \o a3 /\ Ok(b3)
  BY <1>9, <1>24, <1>26
<1>28. PICK b4 : b4 = b3 \o a4 /\ Ok(b4)
  BY <1>11, <1>24, <1>27
<1>29. PICK b5 : b5 = b4 \o a5 /\ Ok(b5)
  BY <1>13, <1>24, <1>28
<1>30. PICK b6 : b6 = b5 \o a6 /\ Ok(b6)
  BY <1>15, <1>24, <1>29
<1>31. PICK b7 : b7 = b6 \o a7 /\ Ok(b7)
  BY <1>17, <1>24, <1>30
<1>32. PICK b8 : b8 = b7 \o a8 /\ Ok(b8)
  BY <1>19, <1>24, <1>31
<1>33. PICK b9 : b9 = b8 \o a9 /\ Ok(b9)
  BY <1>21, <1>24, <1>32
<1>34. PICK b10 : b10 = b9 \o a10 /\ Ok(b10)
  BY <1>23, <1>24, <1>33
<1>35. q = b10
  BY <1>2, <1>4, <1>6, <1>8, <1>10, <1>12, <1>14, <1>16, <1>18, <1>20, <1>22, <1>26, <1>27,
     <1>28, <1>29, <1>30, <1>31, <1>32, <1>33, <1>34 DEF init_thread_vmm
<1>36. QED
  BY <1>3, <1>34, <1>35 DEF Ok

\* The work of the boot loader opens nothing to user code.
LEMMA FitsLoader ==
    ASSUME NEW S, NEW f \in 1 .. MemPages - 1, f \in S, NEW q, q = ConfigurePaging(f)
    PROVE  ListFits(q, S, {}) /\ Begins(q, f)
<1>1. f \in Nat /\ f < Limit
  BY Sizes
<1>2. PICK user \in BOOLEAN : user = FALSE
  OBVIOUS
<1>3. PICK U : U = {}
  OBVIOUS
<1>4. PICK b1 : b1 = Map(f, f, FALSE, f)
  OBVIOUS
<1>5. ListFits(b1, S, U) /\ Begins(b1, f)
  BY <1>1, <1>4, FitsMap
<1>6. PICK a2 : a2 = MapImage(user, f)
  OBVIOUS
<1>7. ListFits(a2, S, U)
  BY <1>1, <1>2, <1>6, FitsImage
<1>8. PICK a3 : a3 = Map(Stack, VADDR(Stack), FALSE, f)
  OBVIOUS
<1>9. ListFits(a3, S, U)
  BY <1>1, <1>8, FitsStack, PagingAssumption
<1>10. PICK x \in Nat : x = 1
  OBVIOUS
<1>11. PICK count \in Nat : count = MemPages - 1
  BY Sizes
<1>12. PICK a4 : a4 = map_range(x, x, count, user, f)
  OBVIOUS
<1>13. ListFits(a4, S, U)
  <2>1. x + count <= Limit /\ ~ user
    BY <1>2, <1>10, <1>11, Sizes
  <2>2. QED
    BY <1>1, <1>12, <2>1, FitsRange
<1>14. PICK b2 : b2 = b1 \o a2
  OBVIOUS
<1>15. ListFits(b2, S, U) /\ Begins(b2, f)
  BY <1>5, <1>7, <1>14, FitsConcat
<1>16. PICK b3 : b3 = b2 \o a3
  OBVIOUS
<1>17. ListFits(b3, S, U) /\ Begins(b3, f)
  BY <1>9, <1>15, <1>16, FitsConcat
<1>18. PICK b4 : b4 = b3 \o a4
  OBVIOUS
<1>19. ListFits(b4, S, U) /\ Begins(b4, f)
  BY <1>13, <1>17, <1>18, FitsConcat
<1>20. q = b4
  BY <1>2, <1>4, <1>6, <1>8, <1>10, <1>11, <1>12, <1>14, <1>16, <1>18 DEF ConfigurePaging
<1>21. QED
  BY <1>3, <1>19, <1>20

-----------------------------------------------------------------------------
(* The boot loader and init_kernel *)

\* A list of work that fits is one that the invariant allows.
LEMMA FitsIsOK ==
    ASSUME NEW K, NEW U, NEW S, S = Spaces', NEW q, q = todo', ListFits(q, S, U),
           \A s \in U : (Late)' /\ \A page \in 1 .. 3 : Outside(K, s, page)'
    PROVE  OpsInv(K)'
<1>1. ASSUME NEW o \in Members(q) PROVE OpOK(K, o)'
  <2>1. o \in OpRecord /\ OpFits(o, S, U)
    BY DEF ListFits, Members
  <2>2. o.page \in Nat /\ o.count \in Nat /\ MemPages \in Nat
    BY <2>1, Sizes DEF OpRecord
  <2>3. ASSUME o.op = "valloc", NEW n \in Nat, n < o.count
        PROVE  Outside(K, o.space, o.page + n)'
    <3>1. CASE o.page >= MemPages
      <4>1. o.page + n >= MemPages
        BY <2>2, <3>1
      <4>2. QED
        BY <4>1 DEF Outside
    <3>2. CASE o.count = 1 /\ o.page \in 1 .. 3 /\ o.space \in U
      <4>1. n = 0
        BY <2>3, <3>2
      <4>2. o.page + n = o.page
        BY <2>2, <4>1
      <4>3. Outside(K, o.space, o.page)'
        BY <3>2
      <4>4. QED
        BY <4>2, <4>3
    <3>3. QED
      BY <2>1, <2>3, <3>1, <3>2 DEF OpFits
  <2>4. o.user => (Late)'
    BY <2>1 DEF OpFits
  <2>5. QED
    BY <2>1, <2>3, <2>4 DEF OpFits, OpOK
<1>2. QED
  BY <1>1 DEF OpsInv, ListFits

\* A call of init_kernel that works on the spaces there are.
LEMMA StartKeeps ==
    ASSUME NEW K, SpacesInv(K), Idle, UNCHANGED <<mem, asked, calls>>, Late, (Late)',
           \A g : g \in FreeFrames' => g \in FreeFrames, \A t \in used : t \in used',
           NEW q, q = todo', ListFits(q, Spaces, {}), BootInv', LowInv'
    PROVE  SpacesInv(K)'
<1>1. calls = <<>> /\ todo = <<>> /\ Spaces' = Spaces
  BY DEF Idle, Spaces
<1>2. \A s, page : Outside(K, s, page) => Outside(K, s, page)'
  BY OutsideKept
<1>3. OpsInv(K)'
  <2>1. PICK S : S = Spaces'
    OBVIOUS
  <2>2. PICK U : U = {}
    OBVIOUS
  <2>3. ListFits(q, S, U) /\ \A s \in U : FALSE
    BY <1>1, <2>1, <2>2
  <2>4. QED
    BY <2>1, <2>3, FitsIsOK
<1>4. (DOMAIN K = DOMAIN mem /\ Trees(mem, K, Spaces) /\ FramesInv /\ UserInv(K))'
  BY <1>1, TablesAlone
<1>5. Members(calls) = {} /\ \A s, page : ~ Pending(s, page)
  BY <1>1, MembersEmpty DEF Pending
<1>6. CallsInv(K)'
  BY <1>5 DEF SpacesInv, CallsInv
<1>7. AskedInv(K)'
  BY <1>1, <1>2, <1>5 DEF SpacesInv, AskedInv
<1>8. SelfInv(K)'
  <2>1. \A t \in DOMAIN mem : translate_addr(mem, K[t].space, t) = t
    BY <1>1, <1>5 DEF SpacesInv, SelfInv, RootNext
  <2>2. QED
    BY <2>1 DEF SelfInv
<1>9. QED
  BY <1>3, <1>4, <1>6, <1>7, <1>8 DEF SpacesInv

\* A new space: its P4 is in a frame that was free, and nothing but the mapping of
\* that P4 is to be done first.
LEMMA NewSpaceKeeps ==
    ASSUME NEW K, SpacesInv(K), Idle, UNCHANGED calls, Lowest # 0, NewSpace,
           (Late)' <=> Late, NEW U, NEW f, f = Lowest,
           NEW q, q = todo', NEW S, S = Spaces \cup {f}, ListFits(q, S, U), Begins(q, f),
           \A s \in U : s = f /\ Late /\ Taken(3), BootInv', LowInv'
    PROVE  \E J : SpacesInv(J)'
<1>1. calls = <<>> /\ todo = <<>> /\ calls' = <<>>
  BY DEF Idle
<1>2. f # 0 /\ used' = used \cup {f} /\ mem' = Put(mem, f, None) /\ asked' = Put(asked, f, None)
  BY DEF NewSpace, alloc_frame
<1>3. f \in FreeFrames /\ f \in 1 .. MemPages - 1 /\ f \notin DOMAIN mem
  <2>1. f \in FreeFrames /\ f \in 1 .. MemPages - 1
    BY <1>2, LowestFree
  <2>2. QED
    BY <2>1 DEF SpacesInv, FramesInv, FreeFrames
<1>4. PICK n : n = mem'
  OBVIOUS
<1>5. Trees(mem, K, Spaces) /\ DOMAIN K = DOMAIN mem
  BY DEF SpacesInv
<1>6. PICK J : RootAdded(mem, K, Spaces, f, n, J, S)
  BY <1>2, <1>3, <1>4, <1>5, RootKeepsTrees
<1>7. /\ Trees(n, J, S) /\ DOMAIN J = DOMAIN n /\ f \notin Spaces
      /\ Extends(mem, n) /\ DOMAIN n = DOMAIN mem \cup {f} /\ DOMAIN n[f] = {}
      /\ \A t \in DOMAIN mem : n[t] = mem[t] /\ J[t] = K[t]
  BY <1>6 DEF RootAdded
<1>8. Spaces' = S /\ DOMAIN asked'[f] = {} /\ \A s \in Spaces : asked'[s] = asked[s]
  BY <1>2, <1>7 DEF Spaces, Put, None
<1>9. WalksKept(mem, n)
  <2>1. 0 \notin DOMAIN mem
    BY <1>5 DEF Trees, TablesTyped
  <2>2. QED
    BY <1>7, <2>1, ExtendsKeepsWalks
<1>10. \A g : g \in FreeFrames' <=> g \in FreeFrames /\ g # f
  BY <1>2 DEF FreeFrames
<1>11. \A s, page : Outside(K, s, page) => Outside(J, s, page)'
  BY <1>3, <1>4, <1>7, <1>10 DEF Outside, Holds
<1>12. Members(calls) = {} /\ \A s, page : ~ Pending(s, page)
  BY <1>1, MembersEmpty DEF Pending
<1>13. CallsInv(J)'
  BY <1>1, <1>12 DEF CallsInv
<1>14. OpsInv(J)'
  <2>1. ASSUME NEW s \in U, NEW page \in 1 .. 3 PROVE Outside(J, s, page)'
    <3>1. s = f /\ Late /\ \A g \in FreeFrames : g > 3
      BY DEF Taken
    <3>2. page \notin FreeFrames /\ page # f
      BY <1>3, <3>1
    <3>3. ~ Holds(J, f, page)'
      <4>1. page \in DOMAIN mem => K[page].space # f
        BY <1>5, <1>7 DEF Trees, TablesTyped
      <4>2. QED
        BY <1>4, <1>7, <3>2, <4>1 DEF Holds
    <3>4. QED
      BY <1>10, <3>1, <3>2, <3>3 DEF Outside
  <2>2. QED
    BY <1>8, <2>1, FitsIsOK
<1>15. FramesInv'
  <2>1. /\ \A t \in DOMAIN mem : t \in used /\ t \notin Opened
        /\ \A g \in FreeFrames : g \notin Opened
        /\ ~ Late => \A g \in DOMAIN mem \cup FreeFrames : g \in LoaderFrames
    BY DEF SpacesInv, FramesInv
  <2>2. DOMAIN mem' = DOMAIN mem \cup {f}
    BY <1>4, <1>7
  <2>3. \A t \in DOMAIN mem' : t \in used' /\ t \notin Opened
    BY <1>2, <1>3, <2>1, <2>2
  <2>4. \A g \in FreeFrames' : g \notin Opened
    BY <1>10, <2>1
  <2>5. ~ (Late)' => \A g \in DOMAIN mem' \cup FreeFrames' : g \in LoaderFrames
    BY <1>3, <1>10, <2>1, <2>2
  <2>6. QED
    BY <2>3, <2>4, <2>5 DEF FramesInv
<1>16. AskedInv(J)'
  <2> SUFFICES ASSUME NEW s \in Spaces', NEW page \in DOMAIN asked'[s]
               PROVE  /\ page \in 1 .. Limit - 1 /\ asked'[s][page] # 0
                      /\ translate_addr(n, s, page) = asked'[s][page]
                      /\ asked'[s][page] = page \/ Outside(J, s, page)'
    BY <1>4 DEF AskedInv
  <2>1. s \in Spaces /\ asked'[s] = asked[s]
    BY <1>8
  <2>2. /\ page \in 1 .. Limit - 1 /\ asked[s][page] # 0
        /\ translate_addr(mem, s, page) = asked[s][page]
        /\ asked[s][page] = page \/ Outside(K, s, page)
    BY <1>12, <2>1 DEF SpacesInv, AskedInv
  <2>3. translate_addr(n, s, page) = asked[s][page]
    BY <1>9, <2>2 DEF WalksKept
  <2>4. QED
    BY <1>11, <2>1, <2>2, <2>3
<1>17. SelfInv(J)'
  <2> SUFFICES ASSUME NEW t \in DOMAIN n
               PROVE  translate_addr(n, J[t].space, t) = t \/ RootNext(t)'
    BY <1>4 DEF SelfInv
  <2>1. CASE t = f
    BY <1>8, <2>1 DEF RootNext, Begins
  <2>2. CASE t # f
    <3>1. t \in DOMAIN mem /\ J[t] = K[t] /\ t # 0
      BY <1>5, <1>7, <2>2 DEF Trees, TablesTyped
    <3>2. translate_addr(mem, K[t].space, t) = t
      BY <1>1, <1>12, <3>1 DEF SpacesInv, SelfInv, RootNext
    <3>3. QED
      BY <1>9, <3>1, <3>2 DEF WalksKept
  <2>3. QED
    BY <2>1, <2>2
<1>18. UserInv(J)'
  <2> SUFFICES ASSUME NEW t \in DOMAIN n, J[t].level = 1, NEW j \in DOMAIN n[t], n[t][j].user
               PROVE  (Late)' /\ n[t][j].frame \notin DOMAIN n /\ n[t][j].frame \notin FreeFrames'
    BY <1>4 DEF UserInv
  <2>1. t \in DOMAIN mem /\ n[t] = mem[t] /\ J[t] = K[t]
    BY <1>7
  <2>2. Late /\ n[t][j].frame \notin DOMAIN mem /\ n[t][j].frame \notin FreeFrames
    BY <2>1 DEF SpacesInv, UserInv
  <2>3. QED
    BY <1>3, <1>7, <1>10, <2>2
<1>19. (DOMAIN J = DOMAIN mem /\ Trees(mem, J, Spaces))'
  BY <1>4, <1>7, <1>8
<1>20. QED
  BY <1>13, <1>14, <1>15, <1>16, <1>17, <1>18, <1>19 DEF SpacesInv

\* init_pmm begins with the frames the firmware reports, among which are none of
\* the boot loader's tables and none that user code may see.
LEMMA InitPmmKeeps ==
    ASSUME NEW K, SpacesInv(K), init_pmm
    PROVE  SpacesInv(K)'
<1>1. /\ calls = <<>> /\ todo = <<>> /\ calls' = <<>> /\ todo' = <<>> /\ phase = "pmm"
      /\ phase' = "framebuffer" /\ UNCHANGED <<mem, asked, kernel, threads>>
      /\ free' \in FreeSets /\ used' = (1 .. MemPages - 1) \ free'
  BY DEF init_pmm, Start, Idle
<1>2. ~ Late /\ (Late)' /\ Spaces' = Spaces
  BY <1>1 DEF Late, Spaces
<1>3. FreeFrames' \subseteq free' /\ \A f \in free' : f \notin LoaderFrames /\ f \notin Opened
  BY <1>1, PagingAssumption DEF FreeFrames
<1>4. Trees(mem, K, Spaces) /\ DOMAIN K = DOMAIN mem
  BY DEF SpacesInv
<1>5. Members(calls) = {} /\ Members(todo) = {} /\ \A s, page : ~ Pending(s, page)
  BY <1>1, MembersEmpty DEF Pending
<1>6. (DOMAIN K = DOMAIN mem /\ Trees(mem, K, Spaces))'
  <2>1. Trees(mem', K, Spaces')
    BY <1>1, <1>2, <1>4
  <2>2. QED
    BY <1>1, <1>4, <2>1
<1>7. CallsInv(K)' /\ OpsInv(K)'
  BY <1>1, <1>5 DEF CallsInv, OpsInv
<1>8. FramesInv'
  <2>1. \A t \in DOMAIN mem : t \in 1 .. MemPages - 1 /\ t \in LoaderFrames /\ t \notin Opened
    BY <1>2, <1>4 DEF SpacesInv, FramesInv, Trees, TablesTyped
  <2>2. QED
    BY <1>1, <1>2, <1>3, <2>1 DEF FramesInv
<1>9. AskedInv(K)'
  <2>1. \A s, page : Outside(K, s, page) => Outside(K, s, page)'
    BY <1>2 DEF Outside
  <2>2. QED
    BY <1>1, <1>2, <1>5, <2>1 DEF SpacesInv, AskedInv
<1>10. SelfInv(K)'
  <2>1. \A t \in DOMAIN mem : translate_addr(mem, K[t].space, t) = t
    BY <1>1, <1>5 DEF SpacesInv, SelfInv, RootNext
  <2>2. QED
    BY <1>1, <2>1 DEF SelfInv
<1>11. UserInv(K)'
  BY <1>1, <1>2 DEF SpacesInv, UserInv
<1>12. BootInv' /\ LowInv'
  BY <1>1, <1>2 DEF SpacesInv, BootInv, LowInv
<1>13. QED
  BY <1>6, <1>7, <1>8, <1>9, <1>10, <1>11, <1>12 DEF SpacesInv

\* The kernel's P4, from the end of the boot loader on.
LEMMA KernelSpace ==
    ASSUME NEW K, SpacesInv(K), phase # "loader"
    PROVE  kernel \in Spaces /\ kernel \in Nat
<1>1. kernel \in Spaces
  BY DEF SpacesInv, BootInv
<1>2. kernel \in DOMAIN mem
  BY <1>1 DEF SpacesInv, Trees, RootsKnown
<1>3. QED
  BY <1>1, <1>2, Sizes DEF SpacesInv, Trees, TablesTyped

\* Work for the spaces there are begins, with nothing but frames taken.
Started ==
    /\ Idle /\ ListFits(todo', Spaces, {}) /\ UNCHANGED <<mem, calls, asked, kernel, cr3>>
    /\ \A g : g \in FreeFrames' => g \in FreeFrames

\* The calls of init_kernel that leave the frames alone and whose work q is for
\* the spaces there are.
LEMMA PhaseKeeps ==
    ASSUME NEW K, SpacesInv(K), NEW now, NEW next, NEW q, Start(now, next, q),
           UNCHANGED memory, now \notin {"loader", "pmm"}, next \notin {"loader", "pmm"},
           next = "stack" => threads # <<>>, ListFits(q, Spaces, {}), LowInv'
    PROVE  SpacesInv(K)' /\ Started
<1>1. /\ Idle /\ phase = now /\ phase' = next /\ todo' = q
      /\ UNCHANGED <<mem, used, calls, asked, kernel, threads, cr3>>
  BY DEF Start, memory
<1>2. Late /\ (Late)' /\ FreeFrames' = FreeFrames /\ Spaces' = Spaces
  BY <1>1 DEF Late, FreeFrames, Spaces
<1>3. BootInv'
  BY <1>1, <1>2 DEF SpacesInv, BootInv, Late
<1>4. SpacesInv(K)'
  BY <1>1, <1>2, <1>3, StartKeeps
<1>5. QED
  BY <1>1, <1>2, <1>4 DEF Started

\* init_framebuffer maps the framebuffer in the kernel's space.
LEMMA InitFramebufferKeeps ==
    ASSUME NEW K, SpacesInv(K), init_framebuffer
    PROVE  SpacesInv(K)' /\ Started
<1>1. PICK q : q = map_framebuffer(FALSE, kernel)
  OBVIOUS
<1>2. Start("framebuffer", "vmm", q) /\ UNCHANGED memory
  BY <1>1 DEF init_framebuffer
<1>3. phase = "framebuffer" /\ phase' = "vmm"
  BY <1>2 DEF Start
<1>4. kernel \in Spaces /\ kernel \in Nat
  BY <1>3, KernelSpace
<1>5. ListFits(q, Spaces, {})
  <2>1. PICK user \in BOOLEAN : user = FALSE
    OBVIOUS
  <2>2. q = map_framebuffer(user, kernel)
    BY <1>1, <2>1
  <2>3. QED
    BY <1>4, <2>1, <2>2, FitsFramebuffer
<1>6. LowInv'
  BY <1>3 DEF LowInv
<1>7. QED
  BY <1>2, <1>5, <1>6, PhaseKeeps

\* init_vmm for the kernel: a run of pages at the start of the upper half.
LEMMA InitKernelVmmKeeps ==
    ASSUME NEW K, SpacesInv(K), InitKernelVmm
    PROVE  SpacesInv(K)' /\ Started
<1>1. PICK q : q = valloc(VADDR(0), VmmPages, FALSE, kernel)
  OBVIOUS
<1>2. Start("vmm", "heap", q) /\ UNCHANGED memory
  BY <1>1 DEF InitKernelVmm
<1>3. phase = "vmm" /\ phase' = "heap" /\ todo' = q /\ used' = used
  BY <1>2 DEF Start, memory
<1>4. kernel \in Spaces /\ kernel \in Nat
  BY <1>3, KernelSpace
<1>5. PICK page \in Nat : page = VADDR(0) /\ page = Half
  BY Sizes DEF VADDR
<1>6. VmmPages \in Nat /\ VmmPages # 0 /\ page + VmmPages <= Limit /\ page >= MemPages
  BY <1>5, Sizes, PagingAssumption
<1>7. ListFits(q, Spaces, {}) /\ OneValloc(q, page, VmmPages)
  <2>1. PICK user \in BOOLEAN : user = FALSE
    OBVIOUS
  <2>2. q = valloc(page, VmmPages, user, kernel)
    BY <1>1, <1>5, <2>1
  <2>3. QED
    BY <1>4, <1>6, <2>1, <2>2, FitsValloc
<1>8. LowInv'
  <2>1. page - Half = 0 /\ Half <= page
    BY <1>5, Sizes
  <2>2. Taken(0)'
    BY Sizes DEF Taken, FreeFrames
  <2>3. QED
    BY <1>3, <1>5, <1>7, <2>1, <2>2 DEF LowInv, OneValloc
<1>9. QED
  BY <1>2, <1>7, <1>8, PhaseKeeps

\* heap_add: one more page.
LEMMA AddKernelHeapKeeps ==
    ASSUME NEW K, SpacesInv(K), AddKernelHeap
    PROVE  SpacesInv(K)' /\ Started
<1>1. PICK q : q = valloc(HeapPage, 1, FALSE, kernel)
  OBVIOUS
<1>2. Start("heap", "lapic", q) /\ UNCHANGED memory
  BY <1>1 DEF AddKernelHeap
<1>3. phase = "heap" /\ phase' = "lapic" /\ todo = <<>> /\ todo' = q /\ used' = used
  BY <1>2 DEF Start, Idle, memory
<1>4. kernel \in Spaces /\ kernel \in Nat
  BY <1>3, KernelSpace
<1>5. PICK page \in Nat : page = HeapPage /\ page >= MemPages /\ page + 1 <= Limit
  BY Sizes, PagingAssumption DEF HeapPage, VADDR
<1>6. PICK count \in Nat : count = 1
  OBVIOUS
<1>7. ListFits(q, Spaces, {}) /\ OneValloc(q, page, count)
  <2>1. PICK user \in BOOLEAN : user = FALSE
    OBVIOUS
  <2>2. q = valloc(page, count, user, kernel)
    BY <1>1, <1>5, <1>6, <2>1
  <2>3. QED
    BY <1>4, <1>5, <1>6, <2>1, <2>2, FitsValloc
<1>8. LowInv'
  <2>1. Taken(VmmPages)
    BY <1>3 DEF SpacesInv, LowInv
  <2>2. Taken(2)'
    BY <1>3, <2>1, PagingAssumption, Sizes DEF Taken, FreeFrames
  <2>3. QED
    BY <1>3, <1>6, <1>7, <2>2 DEF LowInv, OneValloc
<1>9. QED
  BY <1>2, <1>7, <1>8, PhaseKeeps

\* init_lapic maps the registers, or nothing in x2APIC mode.
LEMMA InitLapicKeeps ==
    ASSUME NEW K, SpacesInv(K), init_lapic
    PROVE  SpacesInv(K)' /\ Started
<1>1. PICK q : q = map_lapic(kernel)
  OBVIOUS
<1>2. Start("lapic", "ioapic", q) /\ UNCHANGED memory
  BY <1>1 DEF init_lapic
<1>3. phase = "lapic" /\ phase' = "ioapic" /\ todo = <<>> /\ used' = used
  BY <1>2 DEF Start, Idle, memory
<1>4. kernel \in Spaces /\ kernel \in Nat
  BY <1>3, KernelSpace
<1>5. ListFits(q, Spaces, {})
  BY <1>1, <1>4, FitsLapic
<1>6. LowInv'
  BY <1>3 DEF SpacesInv, LowInv, Taken, FreeFrames
<1>7. QED
  BY <1>2, <1>5, <1>6, PhaseKeeps

\* One page of the kernel's space, mapped at the address it has.
LEMMA FitsKernelPage ==
    ASSUME NEW K, SpacesInv(K), phase # "loader", NEW page \in 1 .. Limit - 1,
           NEW q, q = Map(page, page, FALSE, kernel)
    PROVE  ListFits(q, Spaces, {})
<1>1. page \in Nat /\ page < Limit
  BY Sizes
<1>2. kernel \in Spaces /\ kernel \in Nat
  BY KernelSpace
<1>3. QED
  BY <1>1, <1>2, FitsMap

\* init_ioapic maps the registers of the IO APIC.
LEMMA InitIoApicKeeps ==
    ASSUME NEW K, SpacesInv(K), init_ioapic
    PROVE  SpacesInv(K)' /\ Started
<1>1. PICK page \in 1 .. Limit - 1 : page = IoApic
  BY PagingAssumption
<1>2. PICK q : q = Map(page, page, FALSE, kernel)
  OBVIOUS
<1>3. Start("ioapic", "threads", q) /\ UNCHANGED memory
  BY <1>1, <1>2 DEF init_ioapic
<1>4. phase = "ioapic" /\ phase' = "threads" /\ used' = used
  BY <1>3 DEF Start, memory
<1>5. ListFits(q, Spaces, {})
  BY <1>2, <1>4, FitsKernelPage
<1>6. LowInv'
  BY <1>4 DEF SpacesInv, LowInv, Taken, FreeFrames
<1>7. QED
  BY <1>3, <1>5, <1>6, PhaseKeeps

\* start_aps maps the trampoline.
LEMMA StartApsKeeps ==
    ASSUME NEW K, SpacesInv(K), start_aps
    PROVE  SpacesInv(K)' /\ Started
<1>1. PICK page \in 1 .. Limit - 1 : page = Trampoline
  BY PagingAssumption
<1>2. PICK q : q = Map(page, page, FALSE, kernel)
  OBVIOUS
<1>3. Start("threads", "stack", q) /\ UNCHANGED memory /\ threads # <<>>
  BY <1>1, <1>2 DEF start_aps
<1>4. phase = "threads" /\ phase' = "stack" /\ used' = used
  BY <1>3 DEF Start, memory
<1>5. ListFits(q, Spaces, {})
  BY <1>2, <1>4, FitsKernelPage
<1>6. LowInv'
  BY <1>4 DEF SpacesInv, LowInv, Taken, FreeFrames
<1>7. QED
  BY <1>3, <1>5, <1>6, PhaseKeeps

\* start_aps takes a frame for the AP's stack.
LEMMA AddApStackKeeps ==
    ASSUME NEW K, SpacesInv(K), AddApStack
    PROVE  stray' \/ (SpacesInv(K)' /\ Started)
<1> SUFFICES ASSUME ~ stray' PROVE SpacesInv(K)' /\ Started
  OBVIOUS
<1>1. PICK f : f = Lowest
  OBVIOUS
<1>2. PICK idle : idle = threads[1]
  OBVIOUS
<1>3. PICK high : high = Map(f, VADDR(f), FALSE, idle)
  OBVIOUS
<1>4. PICK low : low = Map(f, f, FALSE, kernel)
  OBVIOUS
<1>5. PICK q : q = high \o low
  OBVIOUS
<1>6. f # 0 /\ Start("stack", "waiting", q) /\ alloc_frame
      /\ UNCHANGED <<mem, asked, kernel, threads, cr3>>
  BY <1>1, <1>2, <1>3, <1>4, <1>5 DEF AddApStack, Astray
<1>7. Idle /\ phase = "stack" /\ phase' = "waiting" /\ todo' = q /\ UNCHANGED calls
  BY <1>6 DEF Start
<1>8. Late /\ (Late)' /\ Spaces' = Spaces
  BY <1>6, <1>7 DEF Late, Spaces
<1>9. used' = used \cup {f} /\ \A g : g \in FreeFrames' => g \in FreeFrames
  BY <1>1, <1>6 DEF alloc_frame, FreeFrames
<1>10. f \in 1 .. MemPages - 1 /\ f \in 1 .. Limit - 1
  BY <1>1, <1>6, LowestFree, Sizes
<1>11. idle \in Spaces /\ idle \in Nat
  <2>1. threads \in Seq(Nat) /\ threads # <<>>
    BY <1>7 DEF SpacesInv, BootInv
  <2>2. 1 \in 1 .. Len(threads) /\ threads[1] \in Nat
    BY <2>1
  <2>3. QED
    BY <1>2, <2>2 DEF SpacesInv, BootInv
<1>12. ListFits(high, Spaces, {})
  BY <1>3, <1>10, <1>11, FitsStack
<1>13. ListFits(low, Spaces, {})
  BY <1>4, <1>7, <1>10, FitsKernelPage
<1>14. ListFits(q, Spaces, {})
  BY <1>5, <1>12, <1>13, FitsConcat
<1>15. LowInv' /\ BootInv'
  BY <1>6, <1>7, <1>8, <1>9 DEF SpacesInv, LowInv, BootInv, Taken
<1>16. SpacesInv(K)'
  BY <1>6, <1>7, <1>8, <1>9, <1>14, <1>15, StartKeeps
<1>17. QED
  BY <1>6, <1>7, <1>9, <1>14, <1>16 DEF Started

\* efi_main makes the first space.
LEMMA EfiMainKeeps ==
    ASSUME NEW K, SpacesInv(K), efi_main
    PROVE  \E J : SpacesInv(J)'
<1>1. PICK f : f = Lowest
  OBVIOUS
<1>2. PICK q : q = ConfigurePaging(f)
  OBVIOUS
<1>3. f # 0 /\ Start("loader", "pmm", q) /\ NewSpace /\ kernel' = f /\ UNCHANGED threads
  BY <1>1, <1>2 DEF efi_main
<1>4. Idle /\ phase = "loader" /\ phase' = "pmm" /\ todo' = q /\ UNCHANGED calls
  BY <1>3 DEF Start
<1>5. ~ Late /\ ~ (Late)'
  BY <1>4 DEF Late
<1>6. f \in 1 .. MemPages - 1
  BY <1>1, <1>3, LowestFree
<1>7. PICK S : S = Spaces \cup {f}
  OBVIOUS
<1>8. PICK U : U = {}
  OBVIOUS
<1>9. ListFits(q, S, U) /\ Begins(q, f)
  BY <1>2, <1>6, <1>7, <1>8, FitsLoader
<1>10. Spaces' = S
  BY <1>1, <1>3, <1>7 DEF NewSpace, Spaces, Put
<1>11. BootInv'
  BY <1>3, <1>4, <1>7, <1>10 DEF SpacesInv, BootInv
<1>12. LowInv'
  BY <1>4 DEF LowInv
<1>13. \A s \in U : FALSE
  BY <1>8
<1>14. QED
  BY <1>1, <1>3, <1>4, <1>5, <1>7, <1>9, <1>11, <1>12, <1>13, NewSpaceKeeps

\* create_thread makes the space of a thread, or finds its P4 where it is not
\* mapped.
LEMMA CreateThreadKeeps ==
    ASSUME NEW K, SpacesInv(K), create_thread
    PROVE  stray' \/ \E J : SpacesInv(J)'
<1> SUFFICES ASSUME ~ stray' PROVE \E J : SpacesInv(J)'
  OBVIOUS
<1>1. PICK f : f = Lowest
  OBVIOUS
<1>2. PICK q : q = init_thread_vmm(f)
  OBVIOUS
<1>3. /\ f # 0 /\ Start("threads", "threads", q) /\ NewSpace
      /\ threads' = Append(threads, f) /\ kernel' = kernel
  BY <1>1, <1>2 DEF create_thread, Astray, Accessible
<1>4. Idle /\ phase = "threads" /\ phase' = "threads" /\ todo' = q /\ UNCHANGED calls
  BY <1>3 DEF Start
<1>5. Late /\ (Late)' /\ Taken(3)
  BY <1>4 DEF Late, SpacesInv, LowInv
<1>6. f \in 1 .. MemPages - 1 /\ f \in Nat
  BY <1>1, <1>3, LowestFree, Sizes
<1>7. PICK S : S = Spaces \cup {f}
  OBVIOUS
<1>8. PICK U : U = {f}
  OBVIOUS
<1>9. kernel \in S /\ kernel \in Nat
  BY <1>4, <1>7, KernelSpace
<1>10. ListFits(q, S, U) /\ Begins(q, f)
  BY <1>2, <1>6, <1>7, <1>8, <1>9, FitsThread
<1>11. Spaces' = S
  BY <1>1, <1>3, <1>7 DEF NewSpace, Spaces, Put
<1>12. BootInv'
  <2>1. threads \in Seq(Nat) /\ \A n \in 1 .. Len(threads) : threads[n] \in Spaces
    BY DEF SpacesInv, BootInv
  <2>2. /\ threads' \in Seq(Nat) /\ Len(threads') = Len(threads) + 1
        /\ \A n \in 1 .. Len(threads) + 1 :
               threads'[n] = IF n <= Len(threads) THEN threads[n] ELSE f
    BY <1>3, <1>6, <2>1
  <2>3. \A n \in 1 .. Len(threads') : threads'[n] \in S
    BY <1>7, <2>1, <2>2
  <2>4. QED
    BY <1>3, <1>4, <1>9, <1>11, <2>2, <2>3 DEF BootInv
<1>13. LowInv'
  <2>1. \A g \in FreeFrames' : g \in FreeFrames
    BY <1>3 DEF NewSpace, alloc_frame, FreeFrames
  <2>2. QED
    BY <1>4, <1>5, <2>1 DEF LowInv, Taken
<1>14. \A s \in U : s = f /\ Late /\ Taken(3)
  BY <1>5, <1>8
<1>15. QED
  BY <1>1, <1>3, <1>4, <1>5, <1>7, <1>10, <1>12, <1>13, <1>14, NewSpaceKeeps

-----------------------------------------------------------------------------
(* The invariant holds *)

\* No table and no space at first.
LEMMA InitPagingInv == PagingInit => PagingInv
<1> SUFFICES ASSUME PagingInit PROVE PagingInv
  OBVIOUS
<1>1. PICK K : K = None
  OBVIOUS
<1>2. DOMAIN K = {} /\ DOMAIN mem = {} /\ Spaces = {} /\ calls = <<>> /\ todo = <<>>
  BY <1>1 DEF PagingInit, None, Spaces
<1>3. Trees(mem, K, Spaces)
  BY <1>2 DEF Trees, TablesTyped, TablesDiffer, RootsKnown, EntriesLead, TablesLinked
<1>4. CallsInv(K) /\ OpsInv(K)
  BY <1>2, MembersEmpty DEF CallsInv, OpsInv
<1>5. AskedInv(K) /\ SelfInv(K) /\ UserInv(K)
  BY <1>2 DEF AskedInv, SelfInv, UserInv
<1>6. phase = "loader" /\ threads = <<>>
  BY DEF PagingInit
<1>7. BootInv /\ LowInv
  BY <1>2, <1>6 DEF BootInv, LowInv
<1>8. FramesInv
  <2>1. \A f \in FreeFrames : f \in LoaderFrames
    BY DEF PagingInit, FreeFrames
  <2>2. \A f \in LoaderFrames : f \notin Opened
    BY PagingAssumption
  <2>3. QED
    BY <1>2, <2>1, <2>2 DEF FramesInv
<1>9. QED
  BY <1>2, <1>3, <1>4, <1>5, <1>7, <1>8 DEF PagingInv, SpacesInv

\* A step that changes nothing.
LEMMA StutterKeeps ==
    ASSUME NEW K, SpacesInv(K), UNCHANGED paging_vars
    PROVE  SpacesInv(K)'
<1>1. /\ mem' = mem /\ used' = used /\ calls' = calls /\ todo' = todo /\ asked' = asked
      /\ kernel' = kernel /\ threads' = threads /\ phase' = phase
  BY DEF paging_vars
<1>2. Late' = Late /\ FreeFrames' = FreeFrames /\ Spaces' = Spaces
  BY <1>1 DEF Late, FreeFrames, Spaces
<1>3. \A s, page : Outside(K, s, page) => Outside(K, s, page)'
  BY <1>1, <1>2, OutsideKept
<1>4. (DOMAIN K = DOMAIN mem /\ Trees(mem, K, Spaces) /\ FramesInv /\ UserInv(K))'
  BY <1>1, <1>2, TablesAlone
<1>5. CallsInv(K)'
  BY <1>1, <1>2, <1>3 DEF SpacesInv, CallsInv, CallOK
<1>6. OpsInv(K)'
  BY <1>1, <1>2, <1>3 DEF SpacesInv, OpsInv, OpOK
<1>7. AskedInv(K)'
  BY <1>1, <1>2, <1>3 DEF SpacesInv, AskedInv, Pending
<1>8. SelfInv(K)'
  BY <1>1, <1>2 DEF SpacesInv, SelfInv, Pending, RootNext
<1>9. BootInv' /\ LowInv'
  BY <1>1, <1>2 DEF SpacesInv, BootInv, LowInv, Taken
<1>10. QED
  BY <1>4, <1>5, <1>6, <1>7, <1>8, <1>9 DEF SpacesInv

\* Every step keeps the tables of all spaces in order, or goes astray.
LEMMA NextPagingInv == PagingInv /\ [PagingNext]_paging_vars => PagingInv'
<1> SUFFICES ASSUME PagingInv, [PagingNext]_paging_vars, ~ stray'
             PROVE  \E J : SpacesInv(J)'
  BY DEF PagingInv
<1>1. CASE UNCHANGED paging_vars
  <2>1. stray' = stray
    BY <1>1 DEF paging_vars
  <2>2. PICK K : SpacesInv(K)
    BY <2>1 DEF PagingInv
  <2>3. QED
    BY <1>1, <2>2, StutterKeeps
<1>2. CASE PagingNext /\ ~ Stop
  <2>1. ~ stray
    BY <1>2 DEF PagingNext, map_addr, MapPage, CopyPage, LoadCr3, VallocPage, Ready, efi_main,
                init_pmm, init_framebuffer, InitKernelVmm, AddKernelHeap, init_lapic, init_ioapic,
                create_thread, start_aps, AddApStack, Start, Idle
  <2>2. PICK K : SpacesInv(K)
    BY <2>1 DEF PagingInv
  <2>3. CASE map_addr
    <3>1. calls # <<>> /\ (Descend \/ AddTable \/ SetLeaf)
      BY <2>3 DEF map_addr, Astray
    <3>2. QED
      BY <2>1, <2>2, <3>1, DescendKeeps, AddTableKeeps, SetLeafKeeps
  <2>4. CASE MapPage \/ CopyPage \/ LoadCr3 \/ VallocPage
    BY <2>1, <2>2, <2>4, MapPageKeeps, CopyPageKeeps, LoadCr3Keeps, VallocPageKeeps
  <2>5. CASE efi_main \/ create_thread
    BY <2>2, <2>5, EfiMainKeeps, CreateThreadKeeps
  <2>6. CASE init_pmm \/ init_framebuffer \/ InitKernelVmm \/ AddKernelHeap
    BY <2>2, <2>6, InitPmmKeeps, InitFramebufferKeeps, InitKernelVmmKeeps, AddKernelHeapKeeps
  <2>7. CASE init_lapic \/ init_ioapic \/ start_aps \/ AddApStack
    BY <2>2, <2>7, InitLapicKeeps, InitIoApicKeeps, StartApsKeeps, AddApStackKeeps
  <2>8. QED
    BY <1>2, <2>3, <2>4, <2>5, <2>6, <2>7 DEF PagingNext
<1>3. QED
  BY <1>1, <1>2 DEF Stop

-----------------------------------------------------------------------------
(* The tables found from a P4 *)

\* The tables of ts are of a space and a level.
AtLevel(K, ts, s, level) ==
    \A t \in ts : t \in DOMAIN mem /\ K[t].space = s /\ K[t].level = level

\* One level down.
LEMMA BelowLevel ==
    ASSUME NEW K, Trees(mem, K, Spaces), NEW s, NEW level \in 2 .. 4, NEW ts,
           AtLevel(K, ts, s, level)
    PROVE  AtLevel(K, Below(ts), s, level - 1)
<1> SUFFICES ASSUME NEW u \in Below(ts)
             PROVE  u \in DOMAIN mem /\ K[u].space = s /\ K[u].level = level - 1
  BY DEF AtLevel
<1>1. PICK l \in Links(ts) : u = mem[l[1]][l[2]].frame
  BY DEF Below
<1>2. l[1] \in ts /\ l[2] \in DOMAIN mem[l[1]]
  BY <1>1 DEF Links
<1>3. l[1] \in DOMAIN mem /\ K[l[1]].space = s /\ K[l[1]].level = level /\ level > 1
  BY <1>2 DEF AtLevel
<1>4. QED
  BY <1>1, <1>2, <1>3 DEF Trees, EntriesLead

\* All that is found from a P4 is described as a table of its space, and what is
\* found above the lowest level as a table above it.
LEMMA TablesOf ==
    ASSUME NEW K, Trees(mem, K, Spaces), NEW s \in Spaces
    PROVE  /\ \A t \in Tables(s) : t \in DOMAIN mem /\ K[t].space = s
           /\ \A t \in Upper(s) : t \in DOMAIN mem /\ K[t].space = s /\ K[t].level > 1
<1>1. PICK four \in 2 .. 4 : four = 4
  OBVIOUS
<1>2. PICK three \in 2 .. 4 : three = 3
  OBVIOUS
<1>3. PICK two \in 2 .. 4 : two = 2
  OBVIOUS
<1>4. PICK a : a = {s}
  OBVIOUS
<1>5. AtLevel(K, a, s, four)
  BY <1>1, <1>4 DEF AtLevel, Trees, RootsKnown, Told
<1>6. PICK b : b = Below(a)
  OBVIOUS
<1>7. AtLevel(K, b, s, three)
  BY <1>1, <1>2, <1>5, <1>6, BelowLevel
<1>8. PICK c : c = Below(b)
  OBVIOUS
<1>9. AtLevel(K, c, s, two)
  BY <1>2, <1>3, <1>7, <1>8, BelowLevel
<1>10. PICK d : d = Below(c)
  OBVIOUS
<1>11. AtLevel(K, d, s, two - 1)
  BY <1>9, <1>10, BelowLevel
<1>12. Upper(s) = a \cup b \cup c /\ Tables(s) = a \cup b \cup c \cup d
  BY <1>4, <1>6, <1>8, <1>10 DEF Upper, Tables
<1>13. QED
  BY <1>1, <1>2, <1>3, <1>5, <1>7, <1>9, <1>11, <1>12 DEF AtLevel

\* What an entry above the lowest level leads to.
LEMMA EntryLeads ==
    ASSUME NEW K, Trees(mem, K, Spaces), NEW t \in DOMAIN mem, K[t].level > 1,
           NEW i \in DOMAIN mem[t], NEW u, u = mem[t][i].frame
    PROVE  K[u].level = K[t].level - 1 /\ K[u].base \div Fan = K[t].base /\ K[u].base % Fan = i
BY DEF Trees, EntriesLead

\* Two entries of one space that lead to one table are the same entry.
LEMMA LinksDiffer ==
    ASSUME NEW K, Trees(mem, K, Spaces), NEW s \in Spaces,
           NEW k \in Links(Upper(s)), NEW l \in Links(Upper(s)),
           mem[k[1]][k[2]].frame = mem[l[1]][l[2]].frame
    PROVE  k = l
<1>1. PICK t, i : k = <<t, i>> /\ t \in Upper(s) /\ i \in DOMAIN mem[t]
  BY DEF Links
<1>2. PICK r, j : l = <<r, j>> /\ r \in Upper(s) /\ j \in DOMAIN mem[r]
  BY DEF Links
<1>3. PICK u : u = mem[t][i].frame /\ u = mem[r][j].frame
  BY <1>1, <1>2
<1>4. /\ t \in DOMAIN mem /\ K[t].space = s /\ K[t].level > 1
      /\ r \in DOMAIN mem /\ K[r].space = s /\ K[r].level > 1
  BY <1>1, <1>2, TablesOf
<1>5. K[t].level \in Int /\ K[r].level \in Int
  BY <1>4 DEF Trees, TablesTyped
<1>6. K[u].level = K[t].level - 1 /\ K[u].base \div Fan = K[t].base /\ K[u].base % Fan = i
  <2>1. t \in DOMAIN mem /\ K[t].level > 1
    BY <1>4
  <2>2. i \in DOMAIN mem[t]
    BY <1>1
  <2>3. u = mem[t][i].frame
    BY <1>3
  <2>4. QED
    BY <2>1, <2>2, <2>3, EntryLeads
<1>7. K[u].level = K[r].level - 1 /\ K[u].base \div Fan = K[r].base /\ K[u].base % Fan = j
  <2>1. r \in DOMAIN mem /\ K[r].level > 1
    BY <1>4
  <2>2. j \in DOMAIN mem[r]
    BY <1>2
  <2>3. u = mem[r][j].frame
    BY <1>3
  <2>4. QED
    BY <2>1, <2>2, <2>3, EntryLeads
<1>8. K[t].level = K[r].level
  BY <1>5, <1>6, <1>7
<1>9. t = r
  BY <1>4, <1>6, <1>7, <1>8 DEF Trees, TablesDiffer, Told
<1>10. QED
  BY <1>1, <1>2, <1>6, <1>7, <1>9

-----------------------------------------------------------------------------
(* The theorems about address spaces *)

\* What every state of the paging code satisfies.
LEMMA PagingInvHolds == PagingSpec => []PagingInv
BY InitPagingInv, NextPagingInv, PTL DEF PagingSpec

\* Between two calls of efi_main and init_kernel every page that map_addr was
\* asked for leads to the frame it was last asked for.
LEMMA InvFaithful == PagingInv => SpacesFaithful
<1> SUFFICES ASSUME PagingInv, Idle, NEW s \in Spaces, NEW page \in DOMAIN asked[s]
             PROVE  translate_addr(mem, s, page) = asked[s][page]
  BY DEF SpacesFaithful
<1>1. PICK K : SpacesInv(K)
  BY DEF PagingInv, Idle
<1>2. ~ Pending(s, page)
  BY MembersEmpty DEF Pending, Idle
<1>3. QED
  BY <1>1, <1>2 DEF SpacesInv, AskedInv

\* ... and every table is mapped at its own address.
LEMMA InvReachable == PagingInv => TablesReachable
<1> SUFFICES ASSUME PagingInv, Idle, NEW s \in Spaces, NEW t \in Tables(s)
             PROVE  translate_addr(mem, s, t) = t
  BY DEF TablesReachable
<1>1. PICK K : SpacesInv(K)
  BY DEF PagingInv, Idle
<1>2. t \in DOMAIN mem /\ K[t].space = s
  BY <1>1, TablesOf DEF SpacesInv
<1>3. ~ Pending(s, t) /\ ~ RootNext(t)
  BY MembersEmpty DEF Pending, Idle, RootNext
<1>4. QED
  BY <1>1, <1>2, <1>3 DEF SpacesInv, SelfInv

\* ... no table is used twice, and the bits of all are set.
LEMMA InvOwned == PagingInv => TablesOwned
<1> SUFFICES ASSUME PagingInv, Idle, NEW s \in Spaces
             PROVE  /\ Tables(s) \subseteq used
                    /\ \A k, l \in Links(Upper(s)) :
                           mem[k[1]][k[2]].frame = mem[l[1]][l[2]].frame => k = l
                    /\ \A r \in Spaces \ {s} : Tables(s) \cap Tables(r) = {}
  BY DEF TablesOwned
<1>1. PICK K : SpacesInv(K)
  BY DEF PagingInv, Idle
<1>2. Trees(mem, K, Spaces) /\ \A t \in DOMAIN mem : t \in used
  BY <1>1 DEF SpacesInv, FramesInv
<1>3. \A r \in Spaces : \A t \in Tables(r) : t \in DOMAIN mem /\ K[t].space = r
  BY <1>2, TablesOf
<1>4. \A k, l \in Links(Upper(s)) : mem[k[1]][k[2]].frame = mem[l[1]][l[2]].frame => k = l
  BY <1>2, LinksDiffer
<1>5. QED
  BY <1>2, <1>3, <1>4

\* ... and what user code may access is no table.
LEMMA InvUserKept == PagingInv => UserKeptFromTables
<1> SUFFICES ASSUME PagingInv, Idle, NEW n \in 1 .. Len(threads), NEW s, s = threads[n],
                    NEW page \in DOMAIN asked[s], NEW t, t = TableFor(mem, s, page, 1),
                    NEW i, i = Entry(page, 1), mem[t][i].user, NEW r \in Spaces
             PROVE  mem[t][i].frame \notin Tables(r)
  BY DEF UserKeptFromTables
<1>1. PICK K : SpacesInv(K)
  BY DEF PagingInv, Idle
<1>2. s \in Spaces /\ Trees(mem, K, Spaces)
  BY <1>1 DEF SpacesInv, BootInv
<1>3. ~ Pending(s, page)
  BY MembersEmpty DEF Pending, Idle
<1>4. page \in Pages /\ translate_addr(mem, s, page) # 0
  <2>1. page \in 1 .. Limit - 1 /\ asked[s][page] # 0
    BY <1>1, <1>2 DEF SpacesInv, AskedInv
  <2>2. translate_addr(mem, s, page) = asked[s][page]
    BY <1>1, <1>2, <1>3 DEF SpacesInv, AskedInv
  <2>3. QED
    BY <2>1, <2>2 DEF Pages
<1>5. t \in DOMAIN mem /\ i \in DOMAIN mem[t]
  BY <1>4 DEF translate_addr, Child
<1>6. K[t].level = 1
  <2>1. PICK level \in 1 .. 4 : level = 1
    OBVIOUS
  <2>2. t = TableFor(mem, s, page, level) /\ t # 0
    BY <1>2, <1>5, <2>1 DEF Trees, TablesTyped
  <2>3. QED
    BY <1>2, <1>4, <2>1, <2>2, WalkArrives DEF Told
<1>7. mem[t][i].frame \notin DOMAIN mem
  BY <1>1, <1>5, <1>6 DEF SpacesInv, UserInv
<1>8. QED
  BY <1>2, <1>7, TablesOf

\* Every page that init_kernel, create_thread or the boot loader asked map_addr
\* to map leads to the frame it was last asked for, in whatever order the tables
\* on the way were added.
THEOREM SpacesStayFaithful == PagingSpec => []SpacesFaithful
BY PagingInvHolds, InvFaithful, PTL

\* Every table of a space can be reached at its own address once it is loaded.
THEOREM TablesStayReachable == PagingSpec => []TablesReachable
BY PagingInvHolds, InvReachable, PTL

\* No frame is a table of two spaces or two tables of one, and none is free.
THEOREM TablesStayOwned == PagingSpec => []TablesOwned
BY PagingInvHolds, InvOwned, PTL

\* No page open to the user code of a thread leads to a table of any space.
THEOREM UserStaysOut == PagingSpec => []UserKeptFromTables
BY PagingInvHolds, InvUserKept, PTL

-----------------------------------------------------------------------------
(* Reaching the tables *)

\* A free frame of the first Fan is left: its number is the address of a page in
\* the first table of the lowest level.
LowLeft == \E f \in FreeFrames : f < Fan

\* The kernel's space has all of memory at the address it has.
KernelMaps == \A page \in 1 .. MemPages - 1 : translate_addr(mem, kernel, page) = page

KernelCalls ==
    \A c \in Members(calls) : c.space = kernel /\ c.page < MemPages => c.phys = c.page

KernelOps == \A o \in Members(todo) : o.op = "valloc" /\ o.space = kernel => o.page >= MemPages

\* The P4 of a thread was the lowest free frame.
RootsLow == \A s \in Spaces : s # kernel => \A f \in FreeFrames : s < f

\* A region of a thread is to be mapped in s.
Regional(o, s) == o.op = "valloc" /\ o.space = s /\ o.page \in 1 .. 3 /\ o.count = 1

\* Behind its first n operations, the list maps the regions of s and goes back
\* to the kernel's space.
EndsIn(q, n, s) ==
    /\ n < Len(q) /\ q[Len(q)].op = "load" /\ q[Len(q)].space = kernel
    /\ \A k \in 1 .. Len(q) : n < k /\ k < Len(q) => Regional(q[k], s)

\* A load_cr3 is the last operation and goes to the kernel's space, or is
\* followed by the regions of the space it goes to.
LoadsInv(q) ==
    \A n \in 1 .. Len(q) : q[n].op = "load" =>
        q[n].count = 1 /\ ((n = Len(q) /\ q[n].space = kernel) \/ EndsIn(q, n, q[n].space))

\* In a thread's space nothing but its regions is mapped.
InThread ==
    cr3 # kernel =>
        /\ EndsIn(todo, 0, cr3)
        /\ \A c \in Members(calls) : c.space = cr3 /\ c.page \in 1 .. 3 /\ c.phys # c.page

ReachInv ==
    /\ KernelMaps /\ KernelCalls /\ KernelOps /\ RootsLow /\ LoadsInv(todo)
    /\ (\E o \in Members(todo) : o.op = "load") => Taken(3)
    /\ cr3 \in Spaces /\ InThread

\* The loader's mapping of all memory is done or to be done.
Listed(o, s, page) ==
    o.op = "map" /\ o.space = s /\ o.page <= page /\ page < o.page + o.count

LoaderInv ==
    /\ \A s \in Spaces : s = kernel
    /\ \A page \in 1 .. MemPages - 1 :
           page \in DOMAIN asked[kernel] \/ \E o \in Members(todo) : Listed(o, kernel, page)

LowMemInv ==
    /\ (~ Late => free = {}) /\ (Late => free \in FreeSets)
    /\ ~ stray /\ phase = "pmm" => LoaderInv
    /\ Late /\ LowLeft => ~ stray /\ ReachInv

\* What is left of a list when its first operation is done, or has more to do.
Dropped(q, p) == Len(p) = Len(q) - 1 /\ \A n \in 1 .. Len(p) : p[n] = q[n + 1]

Advanced(q, p) ==
    /\ Len(p) = Len(q) /\ p[1].op = q[1].op /\ p[1].space = q[1].space
    /\ p[1].page = q[1].page + 1 /\ p[1].count = q[1].count - 1
    /\ \A n \in 1 .. Len(p) : n # 1 => p[n] = q[n]

Shortened(q, p) ==
    (q[1].count = 1 /\ Dropped(q, p)) \/ (q[1].count # 1 /\ Advanced(q, p))

\* Rest does one or the other.
LEMMA RestIndexed ==
    ASSUME todo \in Seq(OpRecord), todo # <<>>, NEW p, p = Rest
    PROVE  p \in Seq(OpRecord) /\ todo[1] = Head(todo) /\ todo[1] \in OpRecord /\ Shortened(todo, p)
<1>1. PICK o \in OpRecord : o = Head(todo) /\ o = todo[1]
  OBVIOUS
<1>2. PICK q \in Seq(OpRecord) : q = Tail(todo)
  BY MembersSplit
<1>3. Len(todo) = Len(q) + 1 /\ \A n \in 1 .. Len(q) : q[n] = todo[n + 1]
  BY <1>2
<1>4. CASE o.count = 1
  <2>1. p = q
    BY <1>1, <1>2, <1>4 DEF Rest
  <2>2. QED
    BY <1>1, <1>3, <1>4, <2>1 DEF Shortened, Dropped
<1>5. CASE o.count # 1
  <2>1. PICK next : next = NextPage(o)
    OBVIOUS
  <2>2. /\ next \in OpRecord /\ next.op = o.op /\ next.space = o.space
        /\ next.page = o.page + 1 /\ next.count = o.count - 1
    BY <1>5, <2>1, NextRound DEF WentOn
  <2>3. p = <<next>> \o q
    BY <1>1, <1>2, <1>5, <2>1 DEF Rest, NextPage
  <2>4. /\ p \in Seq(OpRecord) /\ Len(p) = Len(q) + 1 /\ p[1] = next
        /\ \A n \in 1 .. Len(q) : p[n + 1] = q[n]
    BY <2>2, <2>3
  <2>5. ASSUME NEW n \in 1 .. Len(p), n # 1 PROVE p[n] = todo[n]
    <3>1. PICK k \in 1 .. Len(q) : n = k + 1
      BY <2>4, <2>5
    <3>2. QED
      BY <1>3, <2>4, <3>1
  <2>6. Advanced(todo, p)
    BY <1>1, <1>3, <2>2, <2>4, <2>5 DEF Advanced
  <2>7. QED
    BY <1>1, <1>5, <2>4, <2>6 DEF Shortened
<1>6. QED
  BY <1>4, <1>5

\* A list of regions that is left to be done stays one.
LEMMA EndsShortened ==
    ASSUME NEW q \in Seq(OpRecord), q # <<>>, NEW p \in Seq(OpRecord), Shortened(q, p), NEW s
    PROVE  /\ EndsIn(q, 0, s) /\ q[1].op # "load" => Regional(q[1], s) /\ EndsIn(p, 0, s)
           /\ EndsIn(q, 0, s) /\ q[1].op = "load" => q[1].space = kernel
           /\ q[1].count = 1 /\ EndsIn(q, 1, s) => EndsIn(p, 0, s)
           /\ \A n \in 1 .. Len(q) : n # 1 /\ EndsIn(q, n, s) =>
                  IF q[1].count = 1 THEN EndsIn(p, n - 1, s) ELSE EndsIn(p, n, s)
<1>0. Len(q) \in Nat /\ Len(p) \in Nat /\ Len(q) >= 1
  OBVIOUS
<1>1. ASSUME NEW n \in Nat, EndsIn(q, n, s), Dropped(q, p), NEW m \in Nat, m + 1 = n \/ (n = 0 /\ m = 0),
             n # 0 \/ Len(q) > 1
      PROVE  EndsIn(p, m, s)
  <2>1. n < Len(q) /\ q[Len(q)].op = "load" /\ q[Len(q)].space = kernel
        /\ \A k \in 1 .. Len(q) : n < k /\ k < Len(q) => Regional(q[k], s)
    BY <1>1 DEF EndsIn
  <2>2. Len(p) = Len(q) - 1 /\ \A k \in 1 .. Len(p) : p[k] = q[k + 1]
    BY <1>1 DEF Dropped
  <2>3. m < Len(p) /\ Len(p) \in 1 .. Len(p) /\ Len(p) + 1 = Len(q)
    BY <1>0, <1>1, <2>1, <2>2
  <2>4. p[Len(p)] = q[Len(q)]
    BY <2>2, <2>3
  <2>5. ASSUME NEW k \in 1 .. Len(p), m < k, k < Len(p) PROVE Regional(p[k], s)
    <3>1. PICK j \in 1 .. Len(q) : j = k + 1 /\ n < j /\ j < Len(q)
      BY <1>0, <1>1, <2>3, <2>5
    <3>2. QED
      BY <2>1, <2>2, <3>1
  <2>6. QED
    BY <2>1, <2>3, <2>4, <2>5 DEF EndsIn
<1>2. ASSUME EndsIn(q, 0, s), q[1].op # "load" PROVE Regional(q[1], s) /\ EndsIn(p, 0, s)
  <2>1. Len(q) > 1
    BY <1>0, <1>2 DEF EndsIn
  <2>2. Regional(q[1], s)
    BY <1>0, <1>2, <2>1 DEF EndsIn
  <2>3. Dropped(q, p)
    BY <2>2 DEF Regional, Shortened
  <2>4. PICK z \in Nat : z = 0
    OBVIOUS
  <2>5. QED
    BY <1>1, <1>2, <2>1, <2>2, <2>3, <2>4
<1>3. ASSUME EndsIn(q, 0, s), q[1].op = "load" PROVE q[1].space = kernel
  <2>1. CASE Len(q) > 1
    <3>1. Regional(q[1], s)
      BY <1>0, <1>3, <2>1 DEF EndsIn
    <3>2. QED
      BY <1>3, <3>1 DEF Regional
  <2>2. CASE Len(q) = 1
    BY <1>3, <2>2 DEF EndsIn
  <2>3. PICK n \in Nat : n = Len(q) /\ n >= 1
    BY <1>0
  <2>4. n > 1 \/ n = 1
    BY <2>3
  <2>5. QED
    BY <2>1, <2>2, <2>3, <2>4
<1>4. ASSUME q[1].count = 1, EndsIn(q, 1, s) PROVE EndsIn(p, 0, s)
  <2>1. Dropped(q, p)
    BY <1>4 DEF Shortened
  <2>2. PICK z \in Nat : z = 0
    OBVIOUS
  <2>3. PICK e \in Nat : e = 1
    OBVIOUS
  <2>4. EndsIn(q, e, s) /\ z + 1 = e /\ e # 0
    BY <1>4, <2>2, <2>3
  <2>5. EndsIn(p, z, s)
    BY <1>1, <2>1, <2>4
  <2>6. QED
    BY <2>2, <2>5
<1>5. ASSUME NEW n \in 1 .. Len(q), n # 1, EndsIn(q, n, s)
      PROVE  IF q[1].count = 1 THEN EndsIn(p, n - 1, s) ELSE EndsIn(p, n, s)
  <2>1. CASE q[1].count = 1
    <3>1. Dropped(q, p)
      BY <2>1 DEF Shortened
    <3>2. PICK m \in Nat : m = n - 1 /\ m + 1 = n /\ n \in Nat /\ n # 0
      BY <1>0
    <3>3. EndsIn(p, m, s)
      BY <1>1, <1>5, <3>1, <3>2
    <3>4. QED
      BY <2>1, <3>2, <3>3
  <2>2. CASE q[1].count # 1
    <3>1. Len(p) = Len(q) /\ \A k \in 1 .. Len(p) : k # 1 => p[k] = q[k]
      BY <2>2 DEF Shortened, Advanced
    <3>2. Len(q) # 1
      BY <1>0, <1>5 DEF EndsIn
    <3>3. EndsIn(p, n, s)
      BY <1>0, <1>5, <3>1, <3>2 DEF EndsIn
    <3>4. QED
      BY <2>2, <3>3
  <2>3. QED
    BY <2>1, <2>2
<1>6. QED
  BY <1>2, <1>3, <1>4, <1>5

\* What a round of a loop does to the lists of work.
LEMMA RoundReach ==
    ASSUME ReachInv, todo \in Seq(OpRecord), todo # <<>>, todo' = Rest, UNCHANGED kernel,
           \A g : g \in FreeFrames' => g \in FreeFrames, NEW o, o = Head(todo)
    PROVE  /\ o \in OpRecord /\ KernelOps' /\ LoadsInv(todo)'
           /\ (\E x \in Members(todo') : x.op = "load") => Taken(3)'
           /\ \A s : EndsIn(todo, 0, s) =>
                  IF o.op = "load" THEN o.space = kernel ELSE Regional(o, s) /\ EndsIn(todo, 0, s)'
           /\ o.op = "load" => o.space = kernel \/ EndsIn(todo, 0, o.space)'
<1>1. PICK q \in Seq(OpRecord) : q = todo /\ q # <<>>
  OBVIOUS
<1>2. PICK p \in Seq(OpRecord) : p = todo' /\ o = q[1] /\ o \in OpRecord /\ Shortened(q, p)
  BY <1>1, RestIndexed
<1>3. Len(q) \in Nat /\ Len(p) \in Nat /\ Len(q) >= 1 /\ 1 \in 1 .. Len(q)
  BY <1>1
<1>4. ASSUME NEW n \in 1 .. Len(p)
      PROVE  \/ p[n].op = q[n].op /\ p[n].space = q[n].space /\ n \in 1 .. Len(q)
                /\ (p[n].page = q[n].page \/ p[n].page = q[n].page + 1)
             \/ p[n] = q[n + 1] /\ n + 1 \in 1 .. Len(q)
  <2>1. CASE Dropped(q, p)
    BY <1>3, <2>1 DEF Dropped
  <2>2. CASE Advanced(q, p)
    <3>1. CASE n = 1
      BY <1>3, <2>2, <3>1 DEF Advanced
    <3>2. CASE n # 1
      <4>1. p[n] = q[n] /\ n \in 1 .. Len(q)
        BY <2>2, <3>2 DEF Advanced
      <4>2. QED
        BY <4>1
    <3>3. QED
      BY <3>1, <3>2
  <2>3. QED
    BY <1>2, <2>1, <2>2 DEF Shortened
<1>5. KernelOps'
  <2> SUFFICES ASSUME NEW n \in 1 .. Len(p), p[n].op = "valloc", p[n].space = kernel
               PROVE  p[n].page >= MemPages
    BY <1>2 DEF KernelOps, Members
  <2>1. \A k \in 1 .. Len(q) : q[k].op = "valloc" /\ q[k].space = kernel => q[k].page >= MemPages
    BY <1>1 DEF ReachInv, KernelOps, Members
  <2>2. ASSUME NEW k \in 1 .. Len(q) PROVE q[k].page \in Nat
    <3>1. PICK x \in OpRecord : x = q[k]
      OBVIOUS
    <3>2. QED
      BY <3>1 DEF OpRecord
  <2>3. CASE p[n] = q[n + 1] /\ n + 1 \in 1 .. Len(q)
    BY <2>1, <2>3
  <2>4. CASE /\ p[n].op = q[n].op /\ p[n].space = q[n].space /\ n \in 1 .. Len(q)
             /\ p[n].page = q[n].page \/ p[n].page = q[n].page + 1
    <3>1. PICK page \in Nat : page = q[n].page /\ page >= MemPages
      BY <2>1, <2>2, <2>4
    <3>2. page + 1 >= MemPages
      BY <3>1, Sizes
    <3>3. QED
      BY <2>4, <3>1, <3>2
  <2>5. QED
    BY <1>4, <2>3, <2>4
<1>6. ASSUME NEW x \in Members(todo'), x.op = "load" PROVE Taken(3)'
  <2>1. PICK n \in 1 .. Len(p) : p[n].op = "load"
    BY <1>2, <1>6 DEF Members
  <2>2. \E k \in 1 .. Len(q) : q[k].op = "load"
    BY <1>4, <2>1
  <2>3. Taken(3)
    BY <1>1, <2>2 DEF ReachInv, Members
  <2>4. QED
    BY <2>3 DEF Taken
<1>7. LoadsInv(q)
  BY <1>1 DEF ReachInv
<1>8. o.op = "load" => o.count = 1 /\ (o.space = kernel \/ EndsIn(q, 1, o.space))
  BY <1>2, <1>3, <1>7 DEF LoadsInv
<1>9. \A s : EndsIn(p, 0, s) => EndsIn(todo, 0, s)'
  BY <1>2 DEF EndsIn, Regional
<1>10. ASSUME NEW s, EndsIn(todo, 0, s)
       PROVE  IF o.op = "load" THEN o.space = kernel ELSE Regional(o, s) /\ EndsIn(todo, 0, s)'
  <2>1. EndsIn(q, 0, s)
    BY <1>1, <1>10
  <2>2. QED
    BY <1>1, <1>2, <1>9, <2>1, EndsShortened
<1>11. ASSUME o.op = "load" PROVE o.space = kernel \/ EndsIn(todo, 0, o.space)'
  <2>1. PICK s : s = o.space
    OBVIOUS
  <2>2. q[1].count = 1 /\ EndsIn(q, 1, s) => EndsIn(p, 0, s)
    BY <1>1, <1>2, EndsShortened
  <2>3. QED
    BY <1>2, <1>8, <1>9, <1>11, <2>1, <2>2
<1>12. LoadsInv(p)
  <2> SUFFICES ASSUME NEW n \in 1 .. Len(p), p[n].op = "load", NEW s, s = p[n].space
               PROVE  p[n].count = 1 /\ ((n = Len(p) /\ s = kernel) \/ EndsIn(p, n, s))
    BY DEF LoadsInv
  <2>1. CASE q[1].count = 1
    <3>1. Len(p) = Len(q) - 1 /\ p[n] = q[n + 1]
      BY <1>2, <2>1 DEF Shortened, Dropped
    <3>2. PICK k \in 1 .. Len(q) : k = n + 1 /\ k # 1 /\ k - 1 = n
      BY <1>3, <3>1
    <3>3. q[k].count = 1 /\ ((k = Len(q) /\ s = kernel) \/ EndsIn(q, k, s))
      BY <1>7, <3>1, <3>2 DEF LoadsInv
    <3>4. EndsIn(q, k, s) => EndsIn(p, n, s)
      BY <1>1, <1>2, <2>1, <3>2, EndsShortened
    <3>5. k = Len(q) => n = Len(p)
      BY <1>3, <3>1, <3>2
    <3>6. QED
      BY <3>1, <3>2, <3>3, <3>4, <3>5
  <2>2. CASE q[1].count # 1
    <3>1. /\ Len(p) = Len(q) /\ p[1].op = q[1].op
          /\ \A k \in 1 .. Len(p) : k # 1 => p[k] = q[k]
      BY <1>2, <2>2 DEF Shortened, Advanced
    <3>2. n # 1
      BY <1>2, <1>8, <2>2, <3>1
    <3>3. p[n] = q[n] /\ n \in 1 .. Len(q)
      BY <3>1, <3>2
    <3>4. q[n].count = 1 /\ ((n = Len(q) /\ s = kernel) \/ EndsIn(q, n, s))
      BY <1>7, <3>3 DEF LoadsInv
    <3>5. EndsIn(q, n, s) => EndsIn(p, n, s)
      BY <1>1, <1>2, <2>2, <3>2, <3>3, EndsShortened
    <3>6. QED
      BY <3>1, <3>3, <3>4, <3>5
  <2>3. QED
    BY <2>1, <2>2
<1>13. LoadsInv(todo)'
  BY <1>2, <1>12 DEF LoadsInv, EndsIn, Regional
<1>14. QED
  BY <1>2, <1>5, <1>6, <1>10, <1>11, <1>13

\* A call of map_addr for the first operation.
LEMMA AskReach ==
    ASSUME NEW K, SpacesInv(K), ReachInv, Ready, NEW o, o = Head(todo), NEW x, Ask(x, o),
           todo' = Rest, UNCHANGED <<mem, kernel, cr3>>,
           \A g : g \in FreeFrames' => g \in FreeFrames, o.op # "load",
           x # 0 /\ o.space = kernel /\ o.page < MemPages => x = o.page,
           Regional(o, cr3) => x # o.page
    PROVE  ReachInv'
<1>1. calls = <<>> /\ todo # <<>> /\ todo \in Seq(OpRecord)
  BY DEF Ready, SpacesInv, OpsInv
<1>2. /\ o \in OpRecord /\ KernelOps' /\ LoadsInv(todo)'
      /\ (\E y \in Members(todo') : y.op = "load") => Taken(3)'
      /\ \A s : EndsIn(todo, 0, s) => Regional(o, s) /\ EndsIn(todo, 0, s)'
  BY <1>1, RoundReach
<1>3. Spaces' = Spaces
  BY DEF Ask, Spaces
<1>4. KernelMaps' /\ RootsLow'
  BY <1>3 DEF ReachInv, KernelMaps, RootsLow
<1>5. ASSUME NEW c \in Members(calls')
      PROVE  x # 0 /\ c.space = o.space /\ c.page = o.page /\ c.phys = x
  <2>1. calls' # <<>>
    BY MembersEmpty
  <2>2. x # 0 /\ calls' = <<Call(x, o.page, o.user, o.space)>>
    BY <1>1, <2>1 DEF Ask
  <2>3. c = Call(x, o.page, o.user, o.space)
    BY <2>2 DEF Members
  <2>4. QED
    BY <2>2, <2>3 DEF Call
<1>6. KernelCalls'
  BY <1>5 DEF KernelCalls
<1>7. InThread'
  <2> SUFFICES ASSUME cr3 # kernel
               PROVE  /\ EndsIn(todo, 0, cr3)'
                      /\ \A c \in Members(calls') : c.space = cr3 /\ c.page \in 1 .. 3 /\ c.phys # c.page
    BY DEF InThread
  <2>1. EndsIn(todo, 0, cr3)
    BY DEF ReachInv, InThread
  <2>2. PICK s : s = cr3
    OBVIOUS
  <2>3. Regional(o, s) /\ EndsIn(todo, 0, s)'
    BY <1>2, <2>1, <2>2
  <2>4. EndsIn(todo, 0, cr3)'
    BY <2>2, <2>3
  <2>5. QED
    BY <1>5, <2>2, <2>3, <2>4 DEF Regional
<1>8. QED
  BY <1>2, <1>3, <1>4, <1>6, <1>7 DEF ReachInv

\* The first Fan pages have the same tables.
LEMMA SameTables ==
    ASSUME NEW a \in Nat, NEW b \in Nat, a < Fan, b < Fan, NEW m, NEW s, NEW level
    PROVE  TableFor(m, s, a, level) = TableFor(m, s, b, level)
<1>1. Fan \in Nat /\ Fan > 1 /\ Fan * 1 = Fan
  BY Sizes
<1>2. a \div Fan = 0 /\ b \div Fan = 0
  <2>1. PICK one \in Nat : one = 1 /\ Fan * one = Fan
    BY <1>1
  <2>2. a \div Fan < one /\ b \div Fan < one /\ a \div Fan \in Nat /\ b \div Fan \in Nat
    BY <2>1, SplitBound, Split
  <2>3. QED
    BY <2>1, <2>2
<1>3. Entry(a, 4) = Entry(b, 4) /\ Entry(a, 3) = Entry(b, 3) /\ Entry(a, 2) = Entry(b, 2)
  BY <1>2 DEF Entry, Above
<1>4. QED
  BY <1>3 DEF TableFor, Child

\* While a thread's space is loaded, its tables are mapped where they are.
LEMMA ThreadTables ==
    ASSUME NEW K, SpacesInv(K), ReachInv, cr3 # kernel, NEW t \in DOMAIN mem, K[t].space = cr3
    PROVE  translate_addr(mem, cr3, t) = t
<1>1. t \in 1 .. MemPages - 1
  BY DEF SpacesInv, Trees, TablesTyped
<1>2. ~ Pending(cr3, t)
  <2> SUFFICES ASSUME NEW c \in Members(calls), c.space = cr3, c.page = t PROVE FALSE
    BY DEF Pending
  <2>1. CallOK(K, c) /\ c.phys # c.page
    BY DEF SpacesInv, CallsInv, ReachInv, InThread
  <2>2. Outside(K, cr3, t)
    BY <2>1 DEF CallOK
  <2>3. QED
    BY <1>1, <2>2, Sizes DEF Outside, Holds
<1>3. ~ RootNext(t)
  <2>1. EndsIn(todo, 0, cr3) /\ todo \in Seq(OpRecord)
    BY DEF ReachInv, InThread, SpacesInv, OpsInv
  <2>2. Head(todo).op # "map"
    <3>1. Head(todo) = todo[1] /\ Len(todo) \in Nat /\ 0 < Len(todo)
      BY <2>1 DEF EndsIn
    <3>2. PICK n \in Nat : n = Len(todo) /\ n >= 1
      BY <3>1
    <3>3. CASE n = 1
      BY <2>1, <3>1, <3>2, <3>3 DEF EndsIn
    <3>4. CASE n # 1
      <4>1. 1 \in 1 .. Len(todo) /\ 0 < 1 /\ 1 < Len(todo)
        BY <3>2, <3>4
      <4>2. Regional(todo[1], cr3)
        BY <2>1, <4>1 DEF EndsIn
      <4>3. QED
        BY <3>1, <4>2 DEF Regional
    <3>5. QED
      BY <3>3, <3>4
  <2>3. QED
    BY <2>2 DEF RootNext
<1>4. QED
  BY <1>2, <1>3 DEF SpacesInv, SelfInv

\* map_addr reaches the table it looks into.
LEMMA TableReached ==
    ASSUME NEW K, SpacesInv(K), ReachInv, calls # <<>>, NEW t, t = Head(calls).table
    PROVE  Accessible(mem, t)
<1>1. PICK c : c = Head(calls)
  OBVIOUS
<1>2. c \in Members(calls) /\ t \in DOMAIN mem /\ K[t].space = c.space
  BY <1>1, HeadCall DEF Told
<1>3. t \in 1 .. MemPages - 1 /\ t # 0
  BY <1>2 DEF SpacesInv, Trees, TablesTyped
<1>4. CASE cr3 = kernel
  BY <1>3, <1>4 DEF Accessible, ReachInv, KernelMaps
<1>5. CASE cr3 # kernel
  <2>1. c.space = cr3
    BY <1>2, <1>5 DEF ReachInv, InThread
  <2>2. translate_addr(mem, cr3, t) = t
    BY <1>2, <1>5, <2>1, ThreadTables
  <2>3. QED
    BY <1>3, <2>2 DEF Accessible
<1>6. QED
  BY <1>4, <1>5

\* In a thread's space no table is missing on the way to its regions: its P4 is
\* in one of the first Fan frames and is mapped, by the same tables.
LEMMA NoneMissing ==
    ASSUME NEW K, SpacesInv(K), ReachInv, LowLeft, cr3 # kernel, calls # <<>>,
           NEW c, c = Head(calls), c.level > 1
    PROVE  Entry(c.page, c.level) \in DOMAIN mem[c.table]
<1>1. PICK s : s = cr3
  OBVIOUS
<1>2. c \in Members(calls) /\ c \in CallRecord /\ CallOK(K, c)
  BY HeadCall
<1>3. c.space = s /\ c.page \in 1 .. 3 /\ s \in Spaces
  BY <1>1, <1>2 DEF ReachInv, InThread
<1>4. PICK f \in FreeFrames : f < Fan
  BY DEF LowLeft
<1>5. f \in Nat /\ s < f
  BY <1>1, <1>3, <1>4, Sizes DEF ReachInv, RootsLow, FreeFrames
<1>6. s \in DOMAIN mem /\ K[s].space = s /\ s \in 1 .. MemPages - 1
  BY <1>3 DEF SpacesInv, Trees, RootsKnown, TablesTyped, Told
<1>7. translate_addr(mem, s, s) = s
  BY <1>1, <1>6, ThreadTables
<1>8. 0 \notin DOMAIN mem
  BY DEF SpacesInv, Trees, TablesTyped
<1>9. TableFor(mem, s, s, 1) # 0
  BY <1>6, <1>7, <1>8 DEF translate_addr, Child
<1>10. f > 3
  <2>1. todo \in Seq(OpRecord) /\ 0 < Len(todo) /\ todo[Len(todo)].op = "load"
    BY DEF ReachInv, InThread, EndsIn, SpacesInv, OpsInv
  <2>2. Len(todo) \in 1 .. Len(todo)
    BY <2>1
  <2>3. \E o \in Members(todo) : o.op = "load"
    BY <2>1, <2>2 DEF Members
  <2>4. QED
    BY <2>3 DEF ReachInv, Taken
<1>11. PICK page \in Nat : page = c.page /\ page < Fan
  BY <1>3, <1>4, <1>5, <1>10, Sizes
<1>12. s \in Nat /\ s < Fan
  BY <1>4, <1>5, <1>6, Sizes
<1>13. PICK T : T = [level \in 1 .. 4 |-> TableFor(mem, s, page, level)]
  OBVIOUS
<1>14. T[1] # 0
  <2>1. TableFor(mem, s, page, 1) = TableFor(mem, s, s, 1)
    BY <1>11, <1>12, SameTables
  <2>2. QED
    BY <1>9, <1>13, <2>1
<1>15. /\ T[3] = Child(mem, T[4], page, 4) /\ T[2] = Child(mem, T[3], page, 3)
       /\ T[1] = Child(mem, T[2], page, 2)
  BY <1>13, WalkSteps
<1>16. T[2] # 0 /\ T[3] # 0
  BY <1>8, <1>14, <1>15 DEF Child
<1>17. c.level \in 1 .. 4 /\ T[c.level] = c.table
  BY <1>2, <1>3, <1>11, <1>13 DEF CallRecord, CallOK
<1>18. c.level = 4 \/ c.level = 3 \/ c.level = 2
  BY <1>17
<1>19. Child(mem, c.table, page, c.level) # 0
  BY <1>14, <1>15, <1>16, <1>17, <1>18
<1>20. QED
  BY <1>11, <1>19 DEF Child

\* An entry that is there.
LEMMA DescendReach ==
    ASSUME NEW K, SpacesInv(K), ReachInv, calls # <<>>, Descend
    PROVE  ReachInv'
<1>1. PICK c : c = Head(calls)
  OBVIOUS
<1>2. PICK t : t = mem[c.table][Entry(c.page, c.level)].frame
  OBVIOUS
<1>3. PICK d : d = [c EXCEPT !.table = t, !.level = @ - 1]
  OBVIOUS
<1>4. /\ calls' = <<d>> \o Tail(calls)
      /\ UNCHANGED <<mem, used, cr3, todo, asked, kernel>>
  BY <1>1, <1>2, <1>3 DEF Descend, callers
<1>5. /\ c \in CallRecord /\ Tail(calls) \in Seq(CallRecord)
      /\ Members(calls) = {c} \cup Members(Tail(calls))
  BY <1>1, HeadCall
<1>6. d.space = c.space /\ d.page = c.page /\ d.phys = c.phys
  BY <1>3, <1>5 DEF CallRecord
<1>7. Members(calls') = {d} \cup Members(Tail(calls))
  <2>1. PICK R : R = CallRecord \cup {d} /\ CallRecord \subseteq R
    OBVIOUS
  <2>2. PICK q \in Seq(R) : q = Tail(calls)
    BY <1>5, <2>1, SeqMonotonic
  <2>3. d \in R
    BY <2>1
  <2>4. QED
    BY <1>4, <2>2, <2>3, MembersPush
<1>8. Spaces' = Spaces /\ FreeFrames' = FreeFrames
  BY <1>4 DEF Spaces, FreeFrames
<1>9. KernelCalls' /\ InThread'
  <2>1. KernelCalls'
    BY <1>4, <1>5, <1>6, <1>7 DEF ReachInv, KernelCalls
  <2>2. InThread'
    BY <1>4, <1>5, <1>6, <1>7 DEF ReachInv, InThread, EndsIn, Regional
  <2>3. QED
    BY <2>1, <2>2
<1>10. KernelMaps' /\ KernelOps' /\ RootsLow' /\ LoadsInv(todo)'
       /\ ((\E o \in Members(todo) : o.op = "load") => Taken(3))' /\ (cr3 \in Spaces)'
  BY <1>4, <1>8 DEF ReachInv, KernelMaps, KernelOps, RootsLow, LoadsInv, EndsIn, Regional, Taken
<1>11. QED
  BY <1>9, <1>10 DEF ReachInv

\* A table is added while the kernel's space is loaded, and its frame is there.
LEMMA AddTableReach ==
    ASSUME NEW K, SpacesInv(K), ReachInv, LowLeft, ~ stray, calls # <<>>, AddTable
    PROVE  ~ stray' /\ ReachInv'
<1>1. PICK c : c = Head(calls)
  OBVIOUS
<1>2. PICK i : i = Entry(c.page, c.level)
  OBVIOUS
<1>3. PICK f : f = Lowest
  OBVIOUS
<1>4. PICK t : t = c.table
  OBVIOUS
<1>5. PICK e : e = [frame |-> f, user |-> TRUE]
  OBVIOUS
<1>6. PICK linked : linked = WithEntry(mem, t, i, e)
  OBVIOUS
<1>7. /\ c.level > 1 /\ i \notin DOMAIN mem[t]
      /\ IF Accessible(linked, f)
         THEN /\ alloc_frame /\ mem' = Put(linked, f, None)
              /\ calls' = <<Call(f, f, FALSE, c.space)>> \o calls
              /\ UNCHANGED <<stray, callers>>
         ELSE Astray
  BY <1>1, <1>2, <1>3, <1>4, <1>5, <1>6 DEF AddTable, SetEntry, WithEntry
<1>8. cr3 = kernel
  BY <1>1, <1>2, <1>4, <1>7, NoneMissing
<1>9. t \in DOMAIN mem /\ 0 \notin DOMAIN mem
  BY <1>1, <1>4, HeadCall DEF SpacesInv, Trees, TablesTyped
<1>10. f # 0 /\ f \in FreeFrames /\ f \in 1 .. MemPages - 1 /\ f \notin DOMAIN mem
  <2>1. FreeFrames # {}
    BY DEF LowLeft
  <2>2. Lowest # 0
    <3>1. 0 \notin FreeFrames
      BY Sizes DEF FreeFrames
    <3>2. Lowest \in FreeFrames
      BY <2>1, LowestMember
    <3>3. QED
      BY <3>1, <3>2
  <2>3. QED
    BY <1>3, <2>2, LowestFree DEF SpacesInv, FramesInv, FreeFrames
<1>11. /\ DOMAIN linked = DOMAIN mem /\ \A u \in DOMAIN mem : u # t => linked[u] = mem[u]
       /\ DOMAIN linked[t] = DOMAIN mem[t] \cup {i}
       /\ \A j \in DOMAIN mem[t] : j # i => linked[t][j] = mem[t][j]
  BY <1>6, <1>9, EntryFacts
<1>12. Extends(mem, linked)
  BY <1>7, <1>11 DEF Extends
<1>13. WalksKept(mem, linked)
  BY <1>9, <1>12, ExtendsKeepsWalks
<1>14. Accessible(linked, f)
  <2>1. translate_addr(mem, kernel, f) = f
    BY <1>10 DEF ReachInv, KernelMaps
  <2>2. translate_addr(linked, kernel, f) = f
    BY <1>10, <1>13, <2>1 DEF WalksKept
  <2>3. QED
    BY <1>8, <1>10, <2>2 DEF Accessible
<1>15. PICK d : d = Call(f, f, FALSE, c.space)
  OBVIOUS
<1>16. PICK n : n = Put(linked, f, None)
  OBVIOUS
<1>17. /\ used' = used \cup {f} /\ mem' = n /\ calls' = <<d>> \o calls
       /\ UNCHANGED <<stray, cr3, todo, asked, kernel>>
  BY <1>3, <1>7, <1>10, <1>14, <1>15, <1>16 DEF alloc_frame, callers
<1>18. Members(calls') = {d} \cup Members(calls)
  <2>1. PICK R : R = CallRecord \cup {d} /\ CallRecord \subseteq R
    OBVIOUS
  <2>2. PICK q \in Seq(R) : q = calls
    BY <2>1, SeqMonotonic DEF SpacesInv, CallsInv
  <2>3. d \in R
    BY <2>1
  <2>4. QED
    BY <1>17, <2>2, <2>3, MembersPush
<1>19. d.phys = f /\ d.page = f
  BY <1>15 DEF Call
<1>20. KernelCalls'
  BY <1>17, <1>18, <1>19 DEF ReachInv, KernelCalls
<1>21. KernelMaps'
  <2>1. Extends(linked, n)
    BY <1>10, <1>11, <1>16 DEF Extends, Put
  <2>2. WalksKept(linked, n)
    BY <1>9, <1>11, <2>1, ExtendsKeepsWalks
  <2>3. ASSUME NEW page \in 1 .. MemPages - 1 PROVE translate_addr(n, kernel, page) = page
    <3>1. translate_addr(mem, kernel, page) = page /\ page # 0
      BY DEF ReachInv, KernelMaps
    <3>2. QED
      BY <1>13, <2>2, <3>1 DEF WalksKept
  <2>4. QED
    BY <1>17, <2>3 DEF KernelMaps
<1>22. Spaces' = Spaces /\ \A g : g \in FreeFrames' => g \in FreeFrames
  BY <1>17 DEF Spaces, FreeFrames
<1>23. KernelOps' /\ RootsLow' /\ LoadsInv(todo)' /\ InThread'
       /\ ((\E o \in Members(todo) : o.op = "load") => Taken(3))' /\ (cr3 \in Spaces)'
  BY <1>8, <1>17, <1>22
     DEF ReachInv, KernelOps, RootsLow, LoadsInv, EndsIn, Regional, Taken, InThread
<1>24. QED
  BY <1>17, <1>20, <1>21, <1>23 DEF ReachInv

\* The last level sets what the call is for.
LEMMA SetLeafReach ==
    ASSUME NEW K, SpacesInv(K), ReachInv, Late, calls # <<>>, SetLeaf
    PROVE  ReachInv'
<1>1. PICK c : c = Head(calls)
  OBVIOUS
<1>2. PICK t : t = c.table
  OBVIOUS
<1>3. PICK i : i = Entry(c.page, 1)
  OBVIOUS
<1>4. PICK e : e = [frame |-> c.phys, user |-> c.user]
  OBVIOUS
<1>5. /\ c.level = 1 /\ mem' = WithEntry(mem, t, i, e) /\ calls' = Tail(calls)
      /\ UNCHANGED <<used, cr3, todo, asked, kernel>>
  BY <1>1, <1>2, <1>3, <1>4 DEF SetLeaf, SetEntry, WithEntry, callers
<1>6. /\ c \in CallRecord /\ CallOK(K, c) /\ c.page \in Pages
      /\ Members(calls) = {c} \cup Members(Tail(calls))
  BY <1>1, HeadCall
<1>7. PICK n : n = mem'
  OBVIOUS
<1>8. Trees(mem, K, Spaces)
  BY DEF SpacesInv
<1>9. n = WithEntry(mem, t, i, e) /\ e.frame = c.phys
  BY <1>4, <1>5, <1>7
<1>10. PICK s \in Spaces : s = c.space
  BY <1>6 DEF CallOK
<1>11. PICK page \in Pages : page = c.page
  BY <1>6
<1>12. t = TableFor(mem, s, page, 1) /\ t # 0 /\ i = Entry(page, 1)
  BY <1>2, <1>3, <1>5, <1>6, <1>10, <1>11 DEF CallOK
<1>13. \A r \in Spaces, q \in Pages :
           /\ r = s /\ q = page => translate_addr(n, r, q) = c.phys
           /\ r # s \/ q # page => translate_addr(n, r, q) = translate_addr(mem, r, q)
  BY <1>8, <1>9, <1>12, LeafChangesPage
<1>14. KernelMaps'
  <2> SUFFICES ASSUME NEW q \in 1 .. MemPages - 1 PROVE translate_addr(n, kernel, q) = q
    BY <1>5, <1>7 DEF KernelMaps
  <2>1. q \in Pages /\ q < MemPages
    BY Sizes DEF Pages
  <2>2. kernel \in Spaces
    BY DEF SpacesInv, BootInv, Late
  <2>3. translate_addr(mem, kernel, q) = q
    BY DEF ReachInv, KernelMaps
  <2>4. kernel = s /\ q = page => c.phys = q
    BY <1>6, <1>10, <1>11, <2>1 DEF ReachInv, KernelCalls
  <2>5. QED
    BY <1>13, <2>1, <2>2, <2>3, <2>4
<1>15. Spaces' = Spaces /\ FreeFrames' = FreeFrames /\ \A d \in Members(calls') : d \in Members(calls)
  BY <1>5, <1>6 DEF Spaces, FreeFrames
<1>16. KernelCalls' /\ KernelOps' /\ RootsLow' /\ LoadsInv(todo)'
       /\ ((\E o \in Members(todo) : o.op = "load") => Taken(3))' /\ (cr3 \in Spaces)'
  BY <1>5, <1>15 DEF ReachInv, KernelCalls, KernelOps, RootsLow, LoadsInv, EndsIn, Regional, Taken
<1>17. InThread'
  BY <1>5, <1>15 DEF ReachInv, InThread, EndsIn, Regional
<1>18. QED
  BY <1>14, <1>16, <1>17 DEF ReachInv

\* A page of map_range: in the kernel's space a frame's number is asked to lead to
\* that frame, and a thread's space is not the one in CR3.
LEMMA MapPageReach ==
    ASSUME NEW K, SpacesInv(K), ReachInv, MapPage
    PROVE  ReachInv'
<1>1. PICK o : o = Head(todo)
  OBVIOUS
<1>2. PICK x : x = o.phys
  OBVIOUS
<1>3. /\ Ready /\ o.op = "map" /\ Ask(x, o) /\ todo' = Rest
      /\ UNCHANGED <<mem, used, kernel, cr3>>
  BY <1>1, <1>2 DEF MapPage, others
<1>4. o \in OpRecord /\ OpOK(K, o)
  BY <1>1, <1>3, MembersSplit DEF SpacesInv, OpsInv, Ready
<1>5. FreeFrames' = FreeFrames
  BY <1>3 DEF FreeFrames
<1>6. o.page < MemPages => x = o.page
  <2>1. o.page \in Nat /\ MemPages \in Nat
    BY <1>4, Sizes DEF OpRecord
  <2>2. QED
    BY <1>2, <1>3, <1>4, <2>1 DEF OpOK
<1>7. ~ Regional(o, cr3)
  BY <1>3 DEF Regional
<1>8. o.op # "load"
  BY <1>3
<1>9. QED
  BY <1>1, <1>3, <1>5, <1>6, <1>7, <1>8, AskReach

\* A page of map_heap.
LEMMA CopyPageReach ==
    ASSUME NEW K, SpacesInv(K), ReachInv, CopyPage
    PROVE  ReachInv'
<1>1. PICK o : o = Head(todo)
  OBVIOUS
<1>2. PICK x : x = translate_addr(mem, kernel, HeapPage)
  OBVIOUS
<1>3. /\ Ready /\ o.op = "heap" /\ Ask(x, o) /\ todo' = Rest
      /\ UNCHANGED <<mem, used, kernel, cr3>>
  BY <1>1, <1>2 DEF CopyPage, others
<1>4. o \in OpRecord /\ OpOK(K, o)
  BY <1>1, <1>3, MembersSplit DEF SpacesInv, OpsInv, Ready
<1>5. FreeFrames' = FreeFrames
  BY <1>3 DEF FreeFrames
<1>6. ~ (o.page < MemPages)
  <2>1. o.page \in Nat /\ MemPages \in Nat
    BY <1>4, Sizes DEF OpRecord
  <2>2. QED
    BY <1>3, <1>4, <2>1 DEF OpOK
<1>7. ~ Regional(o, cr3) /\ o.op # "load"
  BY <1>3 DEF Regional
<1>8. QED
  BY <1>1, <1>3, <1>5, <1>6, <1>7, AskReach

\* The frames of valloc, of which there is one, are none of the pages they are for.
LEMMA VallocPageReach ==
    ASSUME NEW K, SpacesInv(K), ReachInv, LowLeft, VallocPage
    PROVE  ~ stray' /\ ReachInv'
<1>1. PICK o : o = Head(todo)
  OBVIOUS
<1>2. PICK x : x = Lowest
  OBVIOUS
<1>3. x \in FreeFrames /\ x # 0
  <2>1. FreeFrames # {}
    BY DEF LowLeft
  <2>2. x \in FreeFrames
    BY <1>2, <2>1, LowestMember
  <2>3. QED
    BY <2>2, Sizes DEF FreeFrames
<1>4. /\ Ready /\ o.op = "valloc" /\ Ask(x, o) /\ todo' = Rest
      /\ UNCHANGED <<mem, kernel, cr3, stray>> /\ used' = used \cup {x}
  BY <1>1, <1>2, <1>3 DEF VallocPage, others, alloc_frame
<1>5. \A g : g \in FreeFrames' => g \in FreeFrames
  BY <1>4 DEF FreeFrames
<1>6. o \in OpRecord /\ OpOK(K, o) /\ o \in Members(todo)
  BY <1>1, <1>4, MembersSplit DEF SpacesInv, OpsInv, Ready
<1>7. ~ (o.space = kernel /\ o.page < MemPages)
  <2>1. o.page \in Nat /\ MemPages \in Nat
    BY <1>6, Sizes DEF OpRecord
  <2>2. o.space = kernel => o.page >= MemPages
    BY <1>4, <1>6 DEF ReachInv, KernelOps
  <2>3. QED
    BY <2>1, <2>2
<1>8. x # o.page
  <2>1. 0 < o.count /\ o.page + 0 = o.page /\ 0 \in Nat
    BY <1>6 DEF OpRecord
  <2>2. \A n \in Nat : n < o.count => Outside(K, o.space, o.page + n)
    BY <1>4, <1>6 DEF OpOK
  <2>3. Outside(K, o.space, o.page + 0)
    BY <2>1, <2>2
  <2>4. Outside(K, o.space, o.page)
    BY <2>1, <2>3
  <2>5. x \in Nat /\ x < MemPages
    BY <1>3, Sizes DEF FreeFrames
  <2>6. QED
    BY <1>3, <2>4, <2>5, Sizes DEF Outside
<1>9. o.op # "load"
  BY <1>4
<1>10. ReachInv'
  BY <1>1, <1>4, <1>5, <1>7, <1>8, <1>9, AskReach
<1>11. QED
  BY <1>4, <1>10 DEF Ready

\* load_cr3 goes to the kernel's space, or to one whose regions are all that is
\* left before the way back.
LEMMA LoadCr3Reach ==
    ASSUME NEW K, SpacesInv(K), ReachInv, LoadCr3
    PROVE  ReachInv'
<1>1. PICK o : o = Head(todo)
  OBVIOUS
<1>2. /\ calls = <<>> /\ todo # <<>> /\ o.op = "load" /\ cr3' = o.space /\ todo' = Rest
      /\ UNCHANGED <<mem, used, calls, asked, kernel>>
  BY <1>1 DEF LoadCr3, others, Ready
<1>3. FreeFrames' = FreeFrames /\ Spaces' = Spaces /\ todo \in Seq(OpRecord)
  BY <1>2 DEF FreeFrames, Spaces, SpacesInv, OpsInv
<1>4. /\ o \in OpRecord /\ KernelOps' /\ LoadsInv(todo)'
      /\ (\E y \in Members(todo') : y.op = "load") => Taken(3)'
      /\ o.space = kernel \/ EndsIn(todo, 0, o.space)'
  BY <1>1, <1>2, <1>3, RoundReach
<1>5. OpOK(K, o)
  BY <1>1, <1>2, MembersSplit DEF SpacesInv, OpsInv
<1>6. (cr3 \in Spaces)'
  BY <1>2, <1>3, <1>5 DEF OpOK
<1>7. KernelMaps' /\ RootsLow' /\ KernelCalls'
  BY <1>2, <1>3 DEF ReachInv, KernelMaps, RootsLow, KernelCalls
<1>8. InThread'
  <2> SUFFICES ASSUME cr3' # kernel'
               PROVE  EndsIn(todo, 0, cr3)' /\ \A c \in Members(calls') : FALSE
    BY DEF InThread
  <2>1. PICK s : s = o.space
    OBVIOUS
  <2>2. EndsIn(todo, 0, s)'
    BY <1>2, <1>4, <2>1
  <2>3. EndsIn(todo, 0, cr3)'
    BY <1>2, <2>1, <2>2 DEF EndsIn
  <2>4. QED
    BY <1>2, <2>3, MembersEmpty
<1>9. QED
  BY <1>4, <1>6, <1>7, <1>8 DEF ReachInv

-----------------------------------------------------------------------------
(* The calls of init_kernel *)

\* Lists for the spaces there are map nothing that lies among the frames but the
\* frames themselves.
LEMMA StartReach ==
    ASSUME ReachInv, Started
    PROVE  ReachInv'
<1>1. /\ calls = <<>> /\ todo = <<>> /\ Spaces' = Spaces /\ ListFits(todo', Spaces, {})
      /\ UNCHANGED <<mem, calls, kernel, cr3>> /\ \A g : g \in FreeFrames' => g \in FreeFrames
  BY DEF Started, Idle, Spaces
<1>2. cr3 = kernel
  BY <1>1 DEF ReachInv, InThread, EndsIn
<1>3. KernelMaps' /\ RootsLow' /\ (cr3 \in Spaces)' /\ InThread'
  BY <1>1, <1>2 DEF ReachInv, KernelMaps, RootsLow, InThread
<1>4. KernelCalls'
  BY <1>1, MembersEmpty DEF KernelCalls
<1>5. PICK q : q = todo'
  OBVIOUS
<1>6. \A o \in Members(q) : o.op # "load" /\ (o.op = "valloc" => o.page >= MemPages)
  BY <1>1, <1>5 DEF ListFits, OpFits
<1>7. KernelOps'
  BY <1>5, <1>6 DEF KernelOps
<1>8. LoadsInv(todo)' /\ ~ \E o \in Members(todo') : o.op = "load"
  BY <1>5, <1>6 DEF LoadsInv, Members
<1>9. QED
  BY <1>3, <1>4, <1>7, <1>8 DEF ReachInv

\* A list that loads no space.
NoLoads(q) == q \in Seq(OpRecord) /\ \A o \in Members(q) : o.op # "load"

\* Such lists can be joined.
LEMMA NoLoadsConcat ==
    ASSUME NEW p, NEW q, NoLoads(p), NoLoads(q), NEW r, r = p \o q
    PROVE  NoLoads(r)
<1>1. p \in Seq(OpRecord) /\ q \in Seq(OpRecord)
  BY DEF NoLoads
<1>2. r \in Seq(OpRecord) /\ \A x \in Members(r) : x \in Members(p) \/ x \in Members(q)
  BY <1>1, MembersConcat
<1>3. QED
  BY <1>2 DEF NoLoads

\* The loops that map pages load no space.
LEMMA NoLoadsMap ==
    ASSUME NEW x, NEW page, NEW count, NEW user, NEW s, NEW q,
           q = map_range(x, page, count, user, s), q \in Seq(OpRecord)
    PROVE  NoLoads(q)
<1>1. CASE count = 0
  BY <1>1, MembersEmpty DEF map_range, Loop, NoLoads
<1>2. CASE count # 0
  <2>1. PICK o : o = Op("map", x, page, count, user, s)
    OBVIOUS
  <2>2. q = <<o>> /\ o.op = "map"
    BY <1>2, <2>1 DEF map_range, Loop, Op
  <2>3. \A d \in Members(q) : d = o
    BY <2>2 DEF Members
  <2>4. QED
    BY <2>2, <2>3 DEF NoLoads
<1>3. QED
  BY <1>1, <1>2

\* The list loads the space of f with its n-th operation, and then maps regions
\* of f only.
AfterLoad(q, n, f) ==
    /\ q \in Seq(OpRecord) /\ n \in 1 .. Len(q)
    /\ q[n].op = "load" /\ q[n].space = f /\ q[n].count = 1
    /\ \A k \in 1 .. Len(q) : (k < n => q[k].op # "load") /\ (n < k => Regional(q[k], f))

\* The elements of two lists joined.
LEMMA ConcatIndexed ==
    ASSUME NEW p \in Seq(OpRecord), NEW q \in Seq(OpRecord), NEW r, r = p \o q
    PROVE  /\ r \in Seq(OpRecord) /\ Len(r) = Len(p) + Len(q) /\ Len(p) \in Nat /\ Len(q) \in Nat
           /\ \A k \in 1 .. Len(r) :
                  \/ k \in 1 .. Len(p) /\ r[k] = p[k]
                  \/ Len(p) < k /\ k - Len(p) \in 1 .. Len(q) /\ r[k] = q[k - Len(p)]
<1>1. /\ r \in Seq(OpRecord) /\ Len(r) = Len(p) + Len(q)
      /\ \A n \in 1 .. Len(p) + Len(q) : r[n] = IF n <= Len(p) THEN p[n] ELSE q[n - Len(p)]
  BY ConcatProperties
<1>2. Len(p) \in Nat /\ Len(q) \in Nat
  OBVIOUS
<1>3. ASSUME NEW k \in 1 .. Len(r)
      PROVE  \/ k \in 1 .. Len(p) /\ r[k] = p[k]
             \/ Len(p) < k /\ k - Len(p) \in 1 .. Len(q) /\ r[k] = q[k - Len(p)]
  <2>1. CASE k <= Len(p)
    BY <1>1, <1>2, <2>1
  <2>2. CASE ~ (k <= Len(p))
    BY <1>1, <1>2, <2>2
  <2>3. QED
    BY <2>1, <2>2
<1>4. QED
  BY <1>1, <1>2, <1>3

\* The first load behind a list without one.
LEMMA LoadAppended ==
    ASSUME NEW p, NoLoads(p), NEW o \in OpRecord, o.op = "load", o.count = 1, NEW f, f = o.space,
           NEW q, q = <<o>>, NEW r, r = p \o q, NEW n, n = Len(p) + 1
    PROVE  AfterLoad(r, n, f)
<1>1. q \in Seq(OpRecord) /\ Len(q) = 1 /\ q[1] = o /\ p \in Seq(OpRecord)
  BY DEF NoLoads
<1>2. /\ r \in Seq(OpRecord) /\ Len(r) = n /\ Len(p) \in Nat
      /\ \A k \in 1 .. Len(r) :
             \/ k \in 1 .. Len(p) /\ r[k] = p[k]
             \/ Len(p) < k /\ k - Len(p) \in 1 .. Len(q) /\ r[k] = q[k - Len(p)]
  BY <1>1, ConcatIndexed
<1>3. n \in 1 .. Len(r) /\ n \in Nat
  BY <1>2
<1>4. n - Len(p) = 1 /\ ~ (n \in 1 .. Len(p))
  BY <1>2
<1>5. r[n] = o
  BY <1>1, <1>2, <1>3, <1>4
<1>6. ASSUME NEW k \in 1 .. Len(r), k < n PROVE r[k].op # "load"
  <2>1. ~ (Len(p) < k)
    BY <1>2, <1>6
  <2>2. k \in 1 .. Len(p) /\ r[k] = p[k]
    BY <1>2, <2>1
  <2>3. QED
    BY <2>2 DEF NoLoads, Members
<1>7. \A k \in 1 .. Len(r) : ~ (n < k)
  BY <1>2
<1>8. QED
  BY <1>2, <1>3, <1>5, <1>6, <1>7 DEF AfterLoad

\* Regions behind it.
LEMMA RegionsAppended ==
    ASSUME NEW p, NEW n, NEW f, AfterLoad(p, n, f), NEW q \in Seq(OpRecord),
           \A o \in Members(q) : Regional(o, f), NEW r, r = p \o q
    PROVE  AfterLoad(r, n, f)
<1>1. /\ p \in Seq(OpRecord) /\ n \in 1 .. Len(p)
      /\ p[n].op = "load" /\ p[n].space = f /\ p[n].count = 1
      /\ \A k \in 1 .. Len(p) : (k < n => p[k].op # "load") /\ (n < k => Regional(p[k], f))
  BY DEF AfterLoad
<1>2. /\ r \in Seq(OpRecord) /\ Len(r) = Len(p) + Len(q) /\ Len(p) \in Nat /\ Len(q) \in Nat
      /\ \A k \in 1 .. Len(r) :
             \/ k \in 1 .. Len(p) /\ r[k] = p[k]
             \/ Len(p) < k /\ k - Len(p) \in 1 .. Len(q) /\ r[k] = q[k - Len(p)]
  BY <1>1, ConcatIndexed
<1>3. n \in 1 .. Len(r) /\ ~ (Len(p) < n)
  BY <1>1, <1>2
<1>4. r[n] = p[n]
  BY <1>2, <1>3
<1>5. ASSUME NEW k \in 1 .. Len(r)
      PROVE  (k < n => r[k].op # "load") /\ (n < k => Regional(r[k], f))
  <2>1. CASE k \in 1 .. Len(p) /\ r[k] = p[k]
    BY <1>1, <2>1
  <2>2. CASE Len(p) < k /\ k - Len(p) \in 1 .. Len(q) /\ r[k] = q[k - Len(p)]
    <3>1. ~ (k < n)
      BY <1>1, <1>2, <2>2
    <3>2. PICK j \in 1 .. Len(q) : r[k] = q[j]
      BY <2>2
    <3>3. QED
      BY <3>1, <3>2 DEF Members
  <2>3. QED
    BY <1>2, <2>1, <2>2
<1>6. QED
  BY <1>1, <1>2, <1>3, <1>4, <1>5 DEF AfterLoad

\* The way back to the kernel's space.
LEMMA ReturnAppended ==
    ASSUME NEW p, NEW n, NEW f, AfterLoad(p, n, f), NEW o \in OpRecord, o.op = "load",
           o.count = 1, o.space = kernel, NEW q, q = <<o>>, NEW r, r = p \o q
    PROVE  LoadsInv(r)
<1>1. /\ p \in Seq(OpRecord) /\ n \in 1 .. Len(p)
      /\ p[n].op = "load" /\ p[n].space = f /\ p[n].count = 1
      /\ \A k \in 1 .. Len(p) : (k < n => p[k].op # "load") /\ (n < k => Regional(p[k], f))
  BY DEF AfterLoad
<1>2. q \in Seq(OpRecord) /\ Len(q) = 1 /\ q[1] = o
  OBVIOUS
<1>3. /\ r \in Seq(OpRecord) /\ Len(r) = Len(p) + 1 /\ Len(p) \in Nat
      /\ \A k \in 1 .. Len(r) :
             \/ k \in 1 .. Len(p) /\ r[k] = p[k]
             \/ Len(p) < k /\ k - Len(p) \in 1 .. Len(q) /\ r[k] = q[k - Len(p)]
  BY <1>1, <1>2, ConcatIndexed
<1>4. PICK l \in 1 .. Len(r) : l = Len(r) /\ l = Len(p) + 1 /\ l - Len(p) = 1
  BY <1>3
<1>5. r[l] = o
  BY <1>2, <1>3, <1>4
<1>6. \A k \in 1 .. Len(r) : k # l => k \in 1 .. Len(p) /\ r[k] = p[k] /\ k < l
  BY <1>3, <1>4
<1>7. EndsIn(r, n, f)
  <2>1. n < Len(r)
    BY <1>1, <1>3
  <2>2. \A k \in 1 .. Len(r) : n < k /\ k < Len(r) => Regional(r[k], f)
    BY <1>1, <1>4, <1>6
  <2>3. QED
    BY <1>4, <1>5, <2>1, <2>2 DEF EndsIn
<1>8. ASSUME NEW k \in 1 .. Len(r), r[k].op = "load"
      PROVE  r[k].count = 1 /\ ((k = Len(r) /\ r[k].space = kernel) \/ EndsIn(r, k, r[k].space))
  <2>1. CASE k = l
    BY <1>4, <1>5, <2>1
  <2>2. CASE k # l
    <3>1. k \in 1 .. Len(p) /\ r[k] = p[k]
      BY <1>6, <2>2
    <3>2. ~ (k < n) /\ ~ (n < k)
      BY <1>1, <1>8, <3>1 DEF Regional
    <3>3. k = n
      BY <1>1, <3>1, <3>2
    <3>4. QED
      BY <1>1, <1>7, <3>1, <3>3
  <2>3. QED
    BY <2>1, <2>2
<1>9. QED
  BY <1>8 DEF LoadsInv

\* A region of a thread.
LEMMA OneRegion ==
    ASSUME NEW page \in 1 .. 3, NEW s \in Nat, NEW q, q = valloc(page, 1, TRUE, s)
    PROVE  q \in Seq(OpRecord) /\ \A o \in Members(q) : Regional(o, s)
<1>1. PICK kind \in {"map", "valloc", "heap", "load"} : kind = "valloc"
  OBVIOUS
<1>2. PICK o : o = Op(kind, 0, page, 1, TRUE, s)
  OBVIOUS
<1>3. o \in OpRecord /\ o.op = kind /\ o.page = page /\ o.count = 1 /\ o.space = s
  BY <1>2 DEF Op, OpRecord
<1>4. q = <<o>>
  BY <1>1, <1>2 DEF valloc, Loop
<1>5. q \in Seq(OpRecord) /\ Len(q) = 1 /\ q[1] = o
  BY ONLY <1>3, <1>4
<1>6. \A d \in Members(q) : d = o
  BY ONLY <1>5 DEF Members
<1>7. Regional(o, s)
  BY <1>1, <1>3 DEF Regional
<1>8. QED
  BY <1>5, <1>6, <1>7

\* The regions of a thread.
LEMMA AllRegions ==
    ASSUME NEW s \in Nat, NEW q, q = Regions(s)
    PROVE  q \in Seq(OpRecord) /\ \A o \in Members(q) : Regional(o, s)
<1>1. PICK a1 : a1 = valloc(1, 1, TRUE, s)
  OBVIOUS
<1>2. PICK a2 : a2 = valloc(2, 1, TRUE, s)
  OBVIOUS
<1>3. PICK a3 : a3 = valloc(3, 1, TRUE, s)
  OBVIOUS
<1>4. PICK p1 \in 1 .. 3, p2 \in 1 .. 3, p3 \in 1 .. 3 : p1 = 1 /\ p2 = 2 /\ p3 = 3
  OBVIOUS
<1>5. a1 = valloc(p1, 1, TRUE, s) /\ a2 = valloc(p2, 1, TRUE, s) /\ a3 = valloc(p3, 1, TRUE, s)
  BY <1>1, <1>2, <1>3, <1>4
<1>6. /\ a1 \in Seq(OpRecord) /\ \A o \in Members(a1) : Regional(o, s)
      /\ a2 \in Seq(OpRecord) /\ \A o \in Members(a2) : Regional(o, s)
      /\ a3 \in Seq(OpRecord) /\ \A o \in Members(a3) : Regional(o, s)
  BY <1>5, OneRegion
<1>7. PICK b : b = a1 \o a2
  OBVIOUS
<1>8. b \in Seq(OpRecord) /\ \A o \in Members(b) : Regional(o, s)
  BY <1>6, <1>7, MembersConcat
<1>9. q = b \o a3
  BY <1>1, <1>2, <1>3, <1>7 DEF Regions
<1>10. QED
  BY <1>6, <1>8, <1>9, MembersConcat

\* load_cr3 is a list of one operation.
LEMMA OneLoad ==
    ASSUME NEW s \in Nat, NEW q, q = load_cr3(s)
    PROVE  \E o \in OpRecord : q = <<o>> /\ o.op = "load" /\ o.count = 1 /\ o.space = s
<1>1. PICK kind \in {"map", "valloc", "heap", "load"} : kind = "load"
  OBVIOUS
<1>2. PICK o : o = Op(kind, 0, 0, 1, FALSE, s)
  OBVIOUS
<1>3. o \in OpRecord /\ o.op = kind /\ o.count = 1 /\ o.space = s
  BY <1>2 DEF Op, OpRecord
<1>4. q = <<o>>
  BY <1>1, <1>2 DEF load_cr3
<1>5. QED
  BY <1>1, <1>3, <1>4

\* init_thread_vmm loads the new space, maps its regions and goes back.
LEMMA ThreadLoads ==
    ASSUME NEW f \in 1 .. MemPages - 1, kernel \in Nat, NEW q, q = init_thread_vmm(f)
    PROVE  LoadsInv(q)
<1>1. f \in Nat /\ f < Limit
  BY Sizes
<1>2. PICK S : S = {f} /\ f \in S
  OBVIOUS
<1>3. PICK user \in BOOLEAN : user = TRUE
  OBVIOUS
<1>4. PICK a1 : a1 = Map(f, f, FALSE, f)
  OBVIOUS
<1>5. NoLoads(a1)
  <2>1. a1 \in Seq(OpRecord)
    BY <1>1, <1>2, <1>4, FitsMap DEF ListFits
  <2>2. QED
    BY <1>4, <2>1, NoLoadsMap DEF Map
<1>6. PICK a2 : a2 = Map(Stack, VADDR(Stack), FALSE, f)
  OBVIOUS
<1>7. NoLoads(a2)
  <2>1. a2 \in Seq(OpRecord)
    BY <1>1, <1>2, <1>6, FitsStack, PagingAssumption DEF ListFits
  <2>2. QED
    BY <1>6, <2>1, NoLoadsMap DEF Map
<1>8. PICK a3 : a3 = MapImage(user, f)
  OBVIOUS
<1>9. NoLoads(a3)
  <2>1. a3 \in Seq(OpRecord)
    BY <1>1, <1>2, <1>8, FitsImage DEF ListFits
  <2>2. QED
    BY <1>8, <2>1, NoLoadsMap DEF MapImage
<1>10. PICK a4 : a4 = map_framebuffer(user, f)
  OBVIOUS
<1>11. NoLoads(a4)
  <2>1. a4 \in Seq(OpRecord)
    BY <1>1, <1>2, <1>10, FitsFramebuffer DEF ListFits
  <2>2. QED
    BY <1>10, <2>1, NoLoadsMap DEF map_framebuffer
<1>12. PICK a5 : a5 = map_lapic(f)
  OBVIOUS
<1>13. NoLoads(a5)
  <2>1. a5 \in Seq(OpRecord)
    BY <1>1, <1>2, <1>12, FitsLapic DEF ListFits
  <2>2. CASE x2mode
    BY <1>12, <2>1, <2>2, MembersEmpty DEF map_lapic, NoLoads
  <2>3. CASE ~ x2mode
    <3>1. a5 = map_range(Lapic, Lapic, 1, FALSE, f)
      BY <1>12, <2>3 DEF map_lapic, Map
    <3>2. QED
      BY <2>1, <3>1, NoLoadsMap
  <2>4. QED
    BY <2>2, <2>3
<1>14. PICK a6 : a6 = map_heap(f)
  OBVIOUS
<1>15. NoLoads(a6)
  <2>1. a6 \in Seq(OpRecord)
    BY <1>1, <1>2, <1>14, FitsHeap DEF ListFits
  <2>2. PICK o : o = Op("heap", 0, HeapPage, 1, FALSE, f)
    OBVIOUS
  <2>3. a6 = <<o>> /\ o.op = "heap"
    BY <1>14, <2>2 DEF map_heap, Op
  <2>4. \A d \in Members(a6) : d = o
    BY <2>3 DEF Members
  <2>5. QED
    BY <2>1, <2>3, <2>4 DEF NoLoads
<1>16. PICK a7 : a7 = Map(PmmBitmap, PmmBitmap, FALSE, f)
  OBVIOUS
<1>17. NoLoads(a7)
  <2>1. PICK page \in Nat : page = PmmBitmap /\ page < Limit
    BY PagingAssumption, Sizes
  <2>2. a7 = Map(page, page, FALSE, f)
    BY <1>16, <2>1
  <2>3. a7 \in Seq(OpRecord)
    BY <1>1, <1>2, <2>1, <2>2, FitsMap DEF ListFits
  <2>4. QED
    BY <2>2, <2>3, NoLoadsMap DEF Map
<1>18. PICK a8 : a8 = load_cr3(f)
  OBVIOUS
<1>19. PICK o \in OpRecord : a8 = <<o>> /\ o.op = "load" /\ o.count = 1 /\ o.space = f
  BY <1>1, <1>18, OneLoad
<1>20. PICK a9 : a9 = Regions(f)
  OBVIOUS
<1>21. a9 \in Seq(OpRecord) /\ \A d \in Members(a9) : Regional(d, f)
  BY <1>1, <1>20, AllRegions
<1>22. PICK a10 : a10 = load_cr3(kernel)
  OBVIOUS
<1>23. PICK back \in OpRecord :
           a10 = <<back>> /\ back.op = "load" /\ back.count = 1 /\ back.space = kernel
  <2>1. PICK k \in Nat : k = kernel
    OBVIOUS
  <2>2. a10 = load_cr3(k)
    BY <1>22, <2>1
  <2>3. QED
    BY <2>1, <2>2, OneLoad
<1>24. PICK b2 : b2 = a1 \o a2 /\ NoLoads(b2)
  BY <1>5, <1>7, NoLoadsConcat
<1>25. PICK b3 : b3 = b2 \o a3 /\ NoLoads(b3)
  BY <1>9, <1>24, NoLoadsConcat
<1>26. PICK b4 : b4 = b3 \o a4 /\ NoLoads(b4)
  BY <1>11, <1>25, NoLoadsConcat
<1>27. PICK b5 : b5 = b4 \o a5 /\ NoLoads(b5)
  BY <1>13, <1>26, NoLoadsConcat
<1>28. PICK b6 : b6 = b5 \o a6 /\ NoLoads(b6)
  BY <1>15, <1>27, NoLoadsConcat
<1>29. PICK b7 : b7 = b6 \o a7 /\ NoLoads(b7)
  BY <1>17, <1>28, NoLoadsConcat
<1>30. PICK n : n = Len(b7) + 1
  OBVIOUS
<1>31. PICK b8 : b8 = b7 \o a8
  OBVIOUS
<1>32. AfterLoad(b8, n, f)
  BY <1>19, <1>29, <1>30, <1>31, LoadAppended
<1>33. PICK b9 : b9 = b8 \o a9
  OBVIOUS
<1>34. AfterLoad(b9, n, f)
  BY <1>21, <1>32, <1>33, RegionsAppended
<1>35. PICK b10 : b10 = b9 \o a10
  OBVIOUS
<1>36. LoadsInv(b10)
  BY <1>23, <1>34, <1>35, ReturnAppended
<1>37. q = b10
  BY <1>3, <1>4, <1>6, <1>8, <1>10, <1>12, <1>14, <1>16, <1>18, <1>20, <1>22, <1>24, <1>25,
     <1>26, <1>27, <1>28, <1>29, <1>31, <1>33, <1>35 DEF init_thread_vmm
<1>38. QED
  BY <1>36, <1>37

\* The loader's list has all of memory.
LEMMA LoaderLists ==
    ASSUME NEW f \in 1 .. MemPages - 1, NEW q, q = ConfigurePaging(f),
           NEW page \in 1 .. MemPages - 1
    PROVE  \E o \in Members(q) : Listed(o, f, page)
<1>1. PICK count \in Nat : count = MemPages - 1 /\ count # 0
  BY Sizes
<1>2. PICK S : S = {f} /\ f \in S
  OBVIOUS
<1>3. PICK U : U = {}
  OBVIOUS
<1>4. PICK user \in BOOLEAN : user = FALSE
  OBVIOUS
<1>5. f \in Nat /\ f < Limit
  BY Sizes
<1>6. PICK a1 : a1 = Map(f, f, FALSE, f)
  OBVIOUS
<1>7. PICK a2 : a2 = MapImage(user, f)
  OBVIOUS
<1>8. PICK a3 : a3 = Map(Stack, VADDR(Stack), FALSE, f)
  OBVIOUS
<1>9. a1 \in Seq(OpRecord)
  BY <1>2, <1>5, <1>6, FitsMap DEF ListFits
<1>10. a2 \in Seq(OpRecord)
  BY <1>2, <1>4, <1>5, <1>7, FitsImage DEF ListFits
<1>11. a3 \in Seq(OpRecord)
  BY <1>2, <1>5, <1>8, FitsStack, PagingAssumption DEF ListFits
<1>12. PICK p : p = (a1 \o a2) \o a3
  OBVIOUS
<1>13. p \in Seq(OpRecord)
  <2>1. a1 \o a2 \in Seq(OpRecord)
    BY <1>9, <1>10
  <2>2. QED
    BY <1>11, <1>12, <2>1
<1>14. PICK kind \in {"map", "valloc", "heap", "load"} : kind = "map"
  OBVIOUS
<1>15. PICK o : o = Op(kind, 1, 1, count, FALSE, f)
  OBVIOUS
<1>16. o \in OpRecord /\ o.op = kind /\ o.page = 1 /\ o.count = count /\ o.space = f
  BY <1>1, <1>5, <1>15 DEF Op, OpRecord
<1>17. PICK a4 : a4 = <<o>>
  OBVIOUS
<1>18. a4 \in Seq(OpRecord) /\ o \in Members(a4)
  <2>1. a4 \in Seq(OpRecord) /\ Len(a4) = 1 /\ a4[1] = o /\ 1 \in 1 .. 1
    BY <1>16, <1>17
  <2>2. QED
    BY <2>1 DEF Members
<1>19. q = p \o a4
  BY <1>1, <1>4, <1>6, <1>7, <1>8, <1>12, <1>14, <1>15, <1>17
     DEF ConfigurePaging, map_range, Loop
<1>20. o \in Members(q)
  BY <1>13, <1>18, <1>19, MembersConcat
<1>21. 1 <= page /\ page < 1 + count
  BY <1>1, Sizes
<1>22. Listed(o, f, page)
  BY <1>14, <1>16, <1>21 DEF Listed
<1>23. QED
  BY <1>20, <1>22

\* create_thread finds the frame of the new P4 in the kernel's space, and the
\* work it leaves ends in the kernel's space.
LEMMA CreateThreadReach ==
    ASSUME NEW K, SpacesInv(K), ReachInv, LowLeft, create_thread
    PROVE  ~ stray' /\ ReachInv'
<1>1. PICK f : f = Lowest
  OBVIOUS
<1>2. PICK q : q = init_thread_vmm(f)
  OBVIOUS
<1>3. Idle /\ phase = "threads" /\ calls = <<>> /\ todo = <<>> /\ ~ stray
  BY DEF create_thread, Idle
<1>4. cr3 = kernel
  BY <1>3 DEF ReachInv, InThread, EndsIn
<1>5. f # 0 /\ f \in FreeFrames /\ f \in 1 .. MemPages - 1 /\ \A g \in FreeFrames : f <= g
  <2>1. FreeFrames # {}
    BY DEF LowLeft
  <2>2. f \in FreeFrames /\ \A g \in FreeFrames : f <= g
    BY <1>1, <2>1, LowestMember
  <2>3. QED
    BY <2>2, Sizes DEF FreeFrames
<1>6. Accessible(mem, f)
  <2>1. translate_addr(mem, kernel, f) = f
    BY <1>5 DEF ReachInv, KernelMaps
  <2>2. QED
    BY <1>4, <1>5, <2>1 DEF Accessible
<1>7. Start("threads", "threads", q) /\ NewSpace /\ UNCHANGED <<cr3, kernel>>
  BY <1>1, <1>2, <1>6 DEF create_thread
<1>8. /\ todo' = q /\ calls' = <<>> /\ stray' = stray /\ used' = used \cup {f}
      /\ mem' = Put(mem, f, None) /\ asked' = Put(asked, f, None)
  BY <1>1, <1>3, <1>5, <1>7 DEF Start, NewSpace, alloc_frame
<1>9. Spaces' = Spaces \cup {f} /\ \A g : g \in FreeFrames' => g \in FreeFrames /\ g # f
  BY <1>8 DEF Spaces, Put, FreeFrames
<1>10. f \notin DOMAIN mem /\ 0 \notin DOMAIN mem
  BY <1>5 DEF SpacesInv, FramesInv, FreeFrames, Trees, TablesTyped
<1>11. kernel \in Spaces /\ kernel \in Nat /\ kernel # f
  <2>1. kernel \in Spaces /\ kernel \in Nat
    BY <1>3, KernelSpace
  <2>2. kernel \in DOMAIN mem
    BY <2>1 DEF SpacesInv, Trees, RootsKnown
  <2>3. QED
    BY <1>10, <2>1, <2>2
<1>12. KernelMaps'
  <2>1. PICK n : n = mem'
    OBVIOUS
  <2>2. Extends(mem, n)
    BY <1>8, <1>10, <2>1 DEF Extends, Put
  <2>3. WalksKept(mem, n)
    BY <1>10, <2>2, ExtendsKeepsWalks
  <2>4. ASSUME NEW page \in 1 .. MemPages - 1 PROVE translate_addr(n, kernel, page) = page
    <3>1. translate_addr(mem, kernel, page) = page /\ page # 0
      BY DEF ReachInv, KernelMaps
    <3>2. QED
      BY <2>3, <3>1 DEF WalksKept
  <2>5. QED
    BY <1>7, <2>1, <2>4 DEF KernelMaps
<1>13. RootsLow'
  <2> SUFFICES ASSUME NEW s \in Spaces', s # kernel, NEW g \in FreeFrames' PROVE s < g
    BY <1>7 DEF RootsLow
  <2>1. g \in FreeFrames /\ g # f
    BY <1>9
  <2>2. CASE s = f
    BY <1>5, <2>1, <2>2, Sizes DEF FreeFrames
  <2>3. CASE s \in Spaces
    BY <2>1, <2>3 DEF ReachInv, RootsLow
  <2>4. QED
    BY <1>9, <2>2, <2>3
<1>14. LoadsInv(todo)'
  <2>1. LoadsInv(q)
    BY <1>2, <1>5, <1>11, ThreadLoads
  <2>2. QED
    BY <1>7, <1>8, <2>1 DEF LoadsInv, EndsIn
<1>15. KernelOps'
  <2>1. PICK S : S = Spaces \cup {f}
    OBVIOUS
  <2>2. ListFits(q, S, {f})
    BY <1>2, <1>5, <1>11, <2>1, FitsThread
  <2>3. ASSUME NEW o \in Members(q), o.op = "valloc", o.space = kernel PROVE o.page >= MemPages
    BY <1>11, <2>2, <2>3 DEF ListFits, OpFits
  <2>4. QED
    BY <1>7, <1>8, <2>3 DEF KernelOps
<1>16. Taken(3)'
  BY <1>3, <1>9 DEF SpacesInv, LowInv, Taken
<1>17. KernelCalls' /\ InThread' /\ (cr3 \in Spaces)'
  BY <1>4, <1>7, <1>8, <1>9, <1>11, MembersEmpty DEF KernelCalls, InThread
<1>18. QED
  BY <1>3, <1>8, <1>12, <1>13, <1>14, <1>15, <1>16, <1>17 DEF ReachInv

\* The boot loader has mapped all of memory in the kernel's space, at the
\* addresses it has, when init_pmm loads that space.
LEMMA InitPmmReach ==
    ASSUME NEW K, SpacesInv(K), LoaderInv, init_pmm
    PROVE  ReachInv'
<1>1. /\ calls = <<>> /\ todo = <<>> /\ calls' = <<>> /\ todo' = <<>> /\ phase = "pmm"
      /\ UNCHANGED <<mem, asked, kernel>> /\ cr3' = kernel
  BY DEF init_pmm, Start, Idle
<1>2. Members(calls) = {} /\ Members(todo) = {} /\ \A s, page : ~ Pending(s, page)
  BY <1>1, MembersEmpty DEF Pending
<1>3. kernel \in Spaces /\ Spaces' = Spaces
  BY <1>1, KernelSpace DEF Spaces
<1>4. ASSUME NEW page \in 1 .. MemPages - 1 PROVE translate_addr(mem, kernel, page) = page
  <2>1. page \in DOMAIN asked[kernel]
    BY <1>2 DEF LoaderInv
  <2>2. /\ translate_addr(mem, kernel, page) = asked[kernel][page]
        /\ asked[kernel][page] = page \/ Outside(K, kernel, page)
    BY <1>2, <1>3, <2>1 DEF SpacesInv, AskedInv
  <2>3. ~ Outside(K, kernel, page)
    BY <1>1, Sizes DEF Outside, Late
  <2>4. QED
    BY <2>2, <2>3
<1>5. KernelMaps'
  BY <1>1, <1>4 DEF KernelMaps
<1>6. KernelCalls' /\ KernelOps'
  BY <1>1, <1>2 DEF KernelCalls, KernelOps
<1>7. RootsLow'
  BY <1>1, <1>3 DEF LoaderInv, RootsLow
<1>8. LoadsInv(todo)' /\ ~ \E o \in Members(todo') : o.op = "load"
  BY <1>1, <1>2 DEF LoadsInv
<1>9. InThread' /\ (cr3 \in Spaces)'
  BY <1>1, <1>3 DEF InThread
<1>10. QED
  BY <1>5, <1>6, <1>7, <1>8, <1>9 DEF ReachInv

-----------------------------------------------------------------------------
(* The loader's map of memory *)

\* A round takes the page it is about off the list and no other.
LEMMA RestListed ==
    ASSUME todo \in Seq(OpRecord), todo # <<>>, NEW p, p = Rest, NEW o, o = Head(todo),
           NEW s, NEW page \in Nat, NEW x \in Members(todo), Listed(x, s, page)
    PROVE  \/ o.op = "map" /\ o.page = page
           \/ \E y \in Members(p) : Listed(y, s, page)
<1>1. p \in Seq(OpRecord) /\ o = todo[1] /\ o \in OpRecord /\ Shortened(todo, p)
  BY RestIndexed
<1>2. PICK l \in Nat : l = Len(todo)
  OBVIOUS
<1>3. PICK n \in 1 .. l : x = todo[n]
  BY <1>2 DEF Members
<1>4. o.page \in Nat /\ o.count \in Nat
  BY <1>1 DEF OpRecord
<1>5. x.op = "map" /\ x.space = s /\ x.page <= page /\ page < x.page + x.count
  BY DEF Listed
<1>6. CASE n = 1
  <2>1. x = o
    BY <1>1, <1>3, <1>6
  <2>2. CASE o.count = 1
    BY <1>4, <1>5, <2>1, <2>2
  <2>3. CASE o.count # 1 /\ o.page # page
    <3>1. Advanced(todo, p)
      BY <1>1, <2>3 DEF Shortened
    <3>2. PICK y : y = p[1]
      OBVIOUS
    <3>3. /\ y.op = o.op /\ y.space = o.space /\ y.page = o.page + 1 /\ y.count = o.count - 1
          /\ Len(p) = l
      BY <1>1, <1>2, <3>1, <3>2 DEF Advanced
    <3>4. y.page <= page /\ page < y.page + y.count
      BY <1>4, <1>5, <2>1, <2>3, <3>3
    <3>5. Listed(y, s, page)
      BY <1>5, <2>1, <3>3, <3>4 DEF Listed
    <3>6. y \in Members(p)
      BY <1>3, <1>6, <3>2, <3>3 DEF Members
    <3>7. QED
      BY <3>5, <3>6
  <2>4. QED
    BY <1>5, <2>1, <2>2, <2>3
<1>7. CASE n # 1
  <2>1. CASE o.count = 1
    <3>1. Dropped(todo, p)
      BY <1>1, <2>1 DEF Shortened
    <3>2. PICK k \in Nat : k + 1 = n /\ k \in 1 .. l - 1
      BY <1>2, <1>3, <1>7
    <3>3. Len(p) = l - 1 /\ p[k] = x
      BY <1>2, <1>3, <3>1, <3>2 DEF Dropped
    <3>4. x \in Members(p)
      BY <3>2, <3>3 DEF Members
    <3>5. QED
      BY <3>4
  <2>2. CASE o.count # 1
    <3>1. Advanced(todo, p)
      BY <1>1, <2>2 DEF Shortened
    <3>2. Len(p) = l /\ p[n] = x
      BY <1>2, <1>3, <1>7, <3>1 DEF Advanced
    <3>3. x \in Members(p)
      BY <3>2 DEF Members
    <3>4. QED
      BY <3>3
  <2>3. QED
    BY <2>1, <2>2
<1>8. QED
  BY <1>6, <1>7

\* In a round of the loader, the page that leaves the list is asked for.
LEMMA RoundListed ==
    ASSUME NEW K, SpacesInv(K), LoaderInv, phase = "pmm", Ready, NEW o, o = Head(todo),
           NEW x, Ask(x, o) \/ (o.op # "map" /\ UNCHANGED asked),
           o.op = "map" => x = o.phys, todo' = Rest, UNCHANGED kernel
    PROVE  LoaderInv'
<1>1. kernel \in Spaces /\ todo \in Seq(OpRecord) /\ todo # <<>>
  BY KernelSpace DEF SpacesInv, OpsInv, Ready
<1>2. o \in OpRecord /\ OpOK(K, o)
  BY <1>1, MembersSplit DEF SpacesInv, OpsInv
<1>3. o.space = kernel
  BY <1>2 DEF LoaderInv, OpOK
<1>4. Spaces' = Spaces /\ DOMAIN asked[kernel] \subseteq DOMAIN asked'[kernel]
  <2>1. CASE UNCHANGED asked
    BY <2>1 DEF Spaces
  <2>2. CASE asked' = [asked EXCEPT ![kernel] = Put(@, o.page, x)]
    <3>1. asked'[kernel] = Put(asked[kernel], o.page, x) /\ DOMAIN asked' = DOMAIN asked
      BY <1>1, <2>2 DEF Spaces
    <3>2. QED
      BY <3>1 DEF Spaces, Put
  <2>3. QED
    BY <1>3, <2>1, <2>2 DEF Ask
<1>5. ASSUME NEW page \in 1 .. MemPages - 1, o.op = "map", o.page = page
      PROVE  page \in DOMAIN asked'[kernel]
  <2>1. o.phys = page /\ page # 0
    BY <1>2, <1>5, Sizes DEF OpOK
  <2>2. asked' = [asked EXCEPT ![kernel] = Put(@, page, x)]
    BY <1>3, <1>5, <2>1 DEF Ask
  <2>3. asked'[kernel] = Put(asked[kernel], page, x)
    BY <1>1, <2>2 DEF Spaces
  <2>4. QED
    BY <2>3 DEF Put
<1>6. ASSUME NEW page \in 1 .. MemPages - 1
      PROVE  page \in DOMAIN asked'[kernel] \/ \E y \in Members(todo') : Listed(y, kernel, page)
  <2>1. CASE page \in DOMAIN asked[kernel]
    BY <1>4, <2>1
  <2>2. CASE \E d \in Members(todo) : Listed(d, kernel, page)
    <3>1. page \in Nat
      BY Sizes
    <3>2. PICK d \in Members(todo) : Listed(d, kernel, page)
      BY <2>2
    <3>3. PICK p : p = todo'
      OBVIOUS
    <3>4. (o.op = "map" /\ o.page = page) \/ \E y \in Members(p) : Listed(y, kernel, page)
      BY <1>1, <3>1, <3>2, <3>3, RestListed
    <3>5. QED
      BY <1>5, <3>3, <3>4
  <2>3. QED
    BY <2>1, <2>2 DEF LoaderInv
<1>7. QED
  BY <1>4, <1>6 DEF LoaderInv

\* efi_main sets out to map all of memory.
LEMMA EfiMainListed ==
    ASSUME NEW K, SpacesInv(K), efi_main
    PROVE  LoaderInv'
<1>1. PICK f : f = Lowest
  OBVIOUS
<1>2. PICK q : q = ConfigurePaging(f)
  OBVIOUS
<1>3. /\ f # 0 /\ phase = "loader" /\ todo' = q /\ kernel' = f
      /\ asked' = Put(asked, f, None)
  BY <1>1, <1>2 DEF efi_main, Start, NewSpace
<1>4. f \in 1 .. MemPages - 1
  BY <1>1, <1>3, LowestFree
<1>5. Spaces' = {f}
  BY <1>3 DEF SpacesInv, BootInv, Spaces, Put
<1>6. \A page \in 1 .. MemPages - 1 : \E o \in Members(q) : Listed(o, f, page)
  BY <1>2, <1>4, LoaderLists
<1>7. QED
  BY <1>3, <1>5, <1>6 DEF LoaderInv

-----------------------------------------------------------------------------
(* As long as low memory is left *)

\* What a step has to keep: frames are only taken, so that low memory that is
\* left was left before.
LEMMA LowStep ==
    ASSUME LowMemInv, UNCHANGED free, (Late)' <=> Late,
           \A g : g \in FreeFrames' => g \in FreeFrames,
           ~ stray' /\ phase' = "pmm" => LoaderInv',
           Late /\ LowLeft => ~ stray' /\ ReachInv'
    PROVE  LowMemInv'
<1>1. LowLeft' => LowLeft
  BY DEF LowLeft
<1>2. QED
  BY <1>1 DEF LowMemInv

\* A level of map_addr: the table is where it is looked for, and so is the one
\* it adds.
LEMMA MapAddrLow ==
    ASSUME NEW K, SpacesInv(K), LowMemInv, map_addr
    PROVE  LowMemInv'
<1>1. ~ stray /\ calls # <<>>
  BY DEF map_addr
<1>2. /\ UNCHANGED <<asked, todo, kernel, free, phase>>
      /\ \A g : g \in FreeFrames' => g \in FreeFrames
  BY DEF map_addr, Descend, AddTable, SetLeaf, Astray, callers, alloc_frame, FreeFrames
<1>3. (Late)' <=> Late
  BY <1>2 DEF Late
<1>4. ASSUME ~ stray', phase' = "pmm" PROVE LoaderInv'
  <2>1. LoaderInv
    BY <1>1, <1>2, <1>4 DEF LowMemInv
  <2>2. QED
    BY <1>2, <2>1 DEF LoaderInv, Spaces
<1>5. ASSUME Late, LowLeft PROVE ~ stray' /\ ReachInv'
  <2>1. ReachInv
    BY <1>5 DEF LowMemInv
  <2>2. PICK t : t = Head(calls).table
    OBVIOUS
  <2>3. Accessible(mem, t)
    BY <1>1, <2>1, <2>2, TableReached
  <2>4. Descend \/ AddTable \/ SetLeaf
    BY <2>2, <2>3 DEF map_addr
  <2>5. CASE Descend
    <3>1. ReachInv'
      BY <1>1, <2>1, <2>5, DescendReach
    <3>2. QED
      BY <1>1, <2>5, <3>1 DEF Descend
  <2>6. CASE AddTable
    BY <1>1, <1>5, <2>1, <2>6, AddTableReach
  <2>7. CASE SetLeaf
    <3>1. ReachInv'
      BY <1>1, <1>5, <2>1, <2>7, SetLeafReach
    <3>2. QED
      BY <1>1, <2>7, <3>1 DEF SetLeaf
  <2>8. QED
    BY <2>4, <2>5, <2>6, <2>7
<1>6. QED
  BY <1>2, <1>3, <1>4, <1>5, LowStep

\* A round of a loop.
LEMMA RoundLow ==
    ASSUME NEW K, SpacesInv(K), LowMemInv, MapPage \/ CopyPage \/ LoadCr3 \/ VallocPage
    PROVE  LowMemInv'
<1>1. Ready /\ ~ stray /\ todo # <<>>
  BY DEF MapPage, CopyPage, LoadCr3, VallocPage, Ready
<1>2. UNCHANGED <<kernel, free, phase>> /\ \A g : g \in FreeFrames' => g \in FreeFrames
  BY DEF MapPage, CopyPage, LoadCr3, VallocPage, Astray, others, alloc_frame, FreeFrames
<1>3. (Late)' <=> Late
  BY <1>2 DEF Late
<1>4. ASSUME ~ stray', phase' = "pmm" PROVE LoaderInv'
  <2>1. LoaderInv /\ phase = "pmm"
    BY <1>1, <1>2, <1>4 DEF LowMemInv
  <2>2. PICK o : o = Head(todo)
    OBVIOUS
  <2>3. todo' = Rest
    BY <1>4 DEF MapPage, CopyPage, LoadCr3, VallocPage, Astray
  <2>4. CASE MapPage
    <3>1. PICK x : x = o.phys
      OBVIOUS
    <3>2. Ask(x, o)
      BY <2>2, <2>4, <3>1 DEF MapPage
    <3>3. QED
      BY <1>1, <1>2, <2>1, <2>2, <2>3, <3>1, <3>2, RoundListed
  <2>5. CASE CopyPage
    <3>1. PICK x : x = translate_addr(mem, kernel, HeapPage)
      OBVIOUS
    <3>2. Ask(x, o) /\ o.op # "map"
      BY <2>2, <2>5, <3>1 DEF CopyPage
    <3>3. QED
      BY <1>1, <1>2, <2>1, <2>2, <2>3, <3>2, RoundListed
  <2>6. CASE LoadCr3
    <3>1. o.op # "map" /\ UNCHANGED asked
      BY <2>2, <2>6 DEF LoadCr3
    <3>2. QED
      BY <1>1, <1>2, <2>1, <2>2, <2>3, <3>1, RoundListed
  <2>7. CASE VallocPage
    <3>1. PICK x : x = Lowest
      OBVIOUS
    <3>2. Ask(x, o) /\ o.op # "map"
      BY <1>4, <2>2, <2>7, <3>1 DEF VallocPage, Astray
    <3>3. QED
      BY <1>1, <1>2, <2>1, <2>2, <2>3, <3>2, RoundListed
  <2>8. QED
    BY <2>4, <2>5, <2>6, <2>7
<1>5. ASSUME Late, LowLeft PROVE ~ stray' /\ ReachInv'
  <2>1. ReachInv
    BY <1>5 DEF LowMemInv
  <2>2. CASE MapPage \/ CopyPage \/ LoadCr3
    <3>1. ReachInv'
      BY <2>1, <2>2, MapPageReach, CopyPageReach, LoadCr3Reach
    <3>2. QED
      BY <1>1, <2>2, <3>1 DEF MapPage, CopyPage, LoadCr3, others
  <2>3. CASE VallocPage
    BY <1>5, <2>1, <2>3, VallocPageReach
  <2>4. QED
    BY <2>2, <2>3
<1>6. QED
  BY <1>2, <1>3, <1>4, <1>5, LowStep

\* A call of init_kernel that makes no space.
LEMMA StartedLow ==
    ASSUME LowMemInv, Started, Late, (Late)', UNCHANGED <<free, stray>>
    PROVE  LowMemInv'
<1>1. ~ stray /\ \A g : g \in FreeFrames' => g \in FreeFrames
  BY DEF Started, Idle
<1>2. phase' # "pmm"
  BY DEF Late
<1>3. Late /\ LowLeft => ~ stray' /\ ReachInv'
  BY <1>1, StartReach DEF LowMemInv
<1>4. QED
  BY <1>1, <1>2, <1>3, LowStep

\* The calls of init_kernel that make no space.
LEMMA KernelLow ==
    ASSUME NEW K, SpacesInv(K), LowMemInv,
           \/ init_framebuffer \/ InitKernelVmm \/ AddKernelHeap \/ init_lapic \/ init_ioapic
           \/ start_aps
    PROVE  LowMemInv'
<1>1. Started
  BY InitFramebufferKeeps, InitKernelVmmKeeps, AddKernelHeapKeeps, InitLapicKeeps,
     InitIoApicKeeps, StartApsKeeps
<1>2. Late /\ (Late)' /\ UNCHANGED <<free, stray>>
  BY DEF init_framebuffer, InitKernelVmm, AddKernelHeap, init_lapic, init_ioapic, start_aps,
         Start, memory, Late
<1>3. QED
  BY <1>1, <1>2, StartedLow

\* start_aps has a frame for the AP's stack.
LEMMA ApStackLow ==
    ASSUME NEW K, SpacesInv(K), LowMemInv, AddApStack
    PROVE  LowMemInv'
<1>1. Late /\ (Late)' /\ UNCHANGED free /\ ~ stray
  BY DEF AddApStack, Start, Astray, Late, Idle
<1>2. CASE Lowest = 0
  <2>1. Astray
    BY <1>2 DEF AddApStack
  <2>2. FreeFrames' = FreeFrames /\ phase' # "pmm"
    BY <1>1, <2>1 DEF Astray, FreeFrames, Late
  <2>3. ~ LowLeft
    <3>1. ASSUME LowLeft PROVE FALSE
      <4>1. FreeFrames # {}
        BY <3>1 DEF LowLeft
      <4>2. Lowest \in FreeFrames
        BY <4>1, LowestMember
      <4>3. QED
        BY <1>2, <4>2, Sizes DEF FreeFrames
    <3>2. QED
      BY <3>1
  <2>4. QED
    BY <1>1, <2>2, <2>3, LowStep
<1>3. CASE Lowest # 0
  <2>1. UNCHANGED stray
    BY <1>3 DEF AddApStack, Start
  <2>2. Started
    BY <1>1, <2>1, AddApStackKeeps
  <2>3. QED
    BY <1>1, <2>1, <2>2, StartedLow
<1>4. QED
  BY <1>2, <1>3

\* The calls that make a space or load the kernel's.
LEMMA SpaceLow ==
    ASSUME NEW K, SpacesInv(K), LowMemInv, efi_main \/ init_pmm \/ create_thread
    PROVE  LowMemInv'
<1>1. CASE efi_main
  <2>1. phase = "loader" /\ phase' = "pmm" /\ UNCHANGED free
    BY <1>1 DEF efi_main, Start
  <2>2. ~ Late /\ ~ (Late)' /\ LoaderInv'
    BY <1>1, <2>1, EfiMainListed DEF Late
  <2>3. QED
    BY <2>1, <2>2 DEF LowMemInv
<1>2. CASE init_pmm
  <2>1. /\ phase = "pmm" /\ phase' = "framebuffer" /\ free' \in FreeSets /\ ~ stray
        /\ UNCHANGED stray
    BY <1>2 DEF init_pmm, Start, Idle
  <2>2. (Late)' /\ LoaderInv
    BY <2>1 DEF Late, LowMemInv
  <2>3. ReachInv'
    BY <1>2, <2>2, InitPmmReach
  <2>4. QED
    BY <2>1, <2>2, <2>3 DEF LowMemInv
<1>3. CASE create_thread
  <2>1. phase = "threads" /\ phase' = "threads" /\ UNCHANGED free
    BY <1>3 DEF create_thread, Start, Astray
  <2>2. Late /\ (Late)'
    BY <2>1 DEF Late
  <2>3. \A g : g \in FreeFrames' => g \in FreeFrames
    BY <1>3 DEF create_thread, NewSpace, alloc_frame, Astray, FreeFrames
  <2>4. Late /\ LowLeft => ~ stray' /\ ReachInv'
    BY <1>3, CreateThreadReach DEF LowMemInv
  <2>5. QED
    BY <2>1, <2>2, <2>3, <2>4, LowStep
<1>4. QED
  BY <1>1, <1>2, <1>3

\* A step that changes nothing.
LEMMA StutterLow ==
    ASSUME LowMemInv, UNCHANGED paging_vars
    PROVE  LowMemInv'
<1>1. /\ mem' = mem /\ used' = used /\ calls' = calls /\ todo' = todo /\ asked' = asked
      /\ kernel' = kernel /\ phase' = phase /\ free' = free /\ stray' = stray /\ cr3' = cr3
  BY DEF paging_vars
<1>2. Late' = Late /\ FreeFrames' = FreeFrames /\ Spaces' = Spaces
  BY <1>1 DEF Late, FreeFrames, Spaces
<1>3. LoaderInv => LoaderInv'
  BY <1>1, <1>2 DEF LoaderInv
<1>4. KernelMaps' = KernelMaps /\ KernelCalls' = KernelCalls /\ KernelOps' = KernelOps
  BY <1>1 DEF KernelMaps, KernelCalls, KernelOps
<1>5. RootsLow' = RootsLow /\ LoadsInv(todo)' = LoadsInv(todo) /\ Taken(3)' = Taken(3)
  BY <1>1, <1>2 DEF RootsLow, LoadsInv, EndsIn, Taken
<1>6. InThread' = InThread
  BY <1>1 DEF InThread, EndsIn
<1>7. ReachInv => ReachInv'
  BY <1>1, <1>2, <1>4, <1>5, <1>6 DEF ReachInv
<1>8. QED
  BY <1>1, <1>2, <1>3, <1>7, LowStep DEF LowMemInv

\* Every step keeps the tables within reach as long as low memory is left.
LEMMA NextLowMemInv == PagingInv /\ LowMemInv /\ [PagingNext]_paging_vars => LowMemInv'
<1> SUFFICES ASSUME PagingInv, LowMemInv, [PagingNext]_paging_vars
             PROVE  LowMemInv'
  OBVIOUS
<1>1. CASE UNCHANGED paging_vars
  BY <1>1, StutterLow
<1>2. CASE PagingNext /\ ~ Stop
  <2>1. ~ stray
    BY <1>2 DEF PagingNext, map_addr, MapPage, CopyPage, LoadCr3, VallocPage, Ready, efi_main,
                init_pmm, init_framebuffer, InitKernelVmm, AddKernelHeap, init_lapic, init_ioapic,
                create_thread, start_aps, AddApStack, Start, Idle
  <2>2. PICK K : SpacesInv(K)
    BY <2>1 DEF PagingInv
  <2>3. CASE map_addr
    BY <2>2, <2>3, MapAddrLow
  <2>4. CASE MapPage \/ CopyPage \/ LoadCr3 \/ VallocPage
    BY <2>2, <2>4, RoundLow
  <2>5. CASE efi_main \/ init_pmm \/ create_thread
    BY <2>2, <2>5, SpaceLow
  <2>6. CASE \/ init_framebuffer \/ InitKernelVmm \/ AddKernelHeap \/ init_lapic \/ init_ioapic
             \/ start_aps
    BY <2>2, <2>6, KernelLow
  <2>7. CASE AddApStack
    BY <2>2, <2>7, ApStackLow
  <2>8. QED
    BY <1>2, <2>3, <2>4, <2>5, <2>6, <2>7 DEF PagingNext
<1>3. QED
  BY <1>1, <1>2 DEF Stop

\* No frame of the firmware's is free to the kernel at first.
LEMMA InitLowMemInv == PagingInit => LowMemInv
BY DEF PagingInit, LowMemInv, Late

\* The machine only goes astray when no low memory is left.
LEMMA InvLowMemory == LowMemInv => LowMemorySuffices
<1> SUFFICES ASSUME LowMemInv, stray, NEW f \in free, f \in 1 .. Fan - 1, f \notin used
             PROVE  FALSE
  BY DEF LowMemorySuffices
<1>1. Late /\ free \in FreeSets
  BY DEF LowMemInv
<1>2. f \in 1 .. MemPages - 1
  BY <1>1, PagingAssumption
<1>3. f \in FreeFrames /\ f < Fan
  BY <1>2, Sizes DEF FreeFrames
<1>4. QED
  BY <1>1, <1>3 DEF LowMemInv, LowLeft

\* map_addr finds every table at the address it expects it at, and alloc_frame
\* has a frame for it, while one of the first Fan frames is free: although
\* init_thread_vmm leaves the kernel's space, which has all of memory, for one
\* that has its own tables and little else.
THEOREM LowMemoryIsEnough == PagingSpec => []LowMemorySuffices
<1>1. PagingInv /\ LowMemInv /\ [PagingNext]_paging_vars => LowMemInv'
  BY NextLowMemInv
<1>2. PagingSpec => []LowMemInv
  BY <1>1, PagingInvHolds, InitLowMemInv, PTL DEF PagingSpec
<1>3. QED
  BY <1>2, InvLowMemory, PTL
=============================================================================
