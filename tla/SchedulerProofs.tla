--------------------------- MODULE SchedulerProofs ---------------------------
(***************************************************************************)
(* Proofs about Scheduler, for any number of threads, any quantum and any  *)
(* bound on the ticks.                                                     *)
(***************************************************************************)
EXTENDS Scheduler, FiniteSetTheorems, WellFoundedInduction, TLAPS

-----------------------------------------------------------------------------
(* Lists as functions *)

\* The i-th thread of the list q of n threads, NULL past its end.
Elem(q, n, i) == IF i \in 1 .. n THEN q[i] ELSE NULL

\* Following next from head gives the n threads of q, each once, and ends.
Chain(next, q, n, head) ==
    /\ n \in Nat /\ q \in [1 .. n -> Threads]
    /\ \A i, j \in 1 .. n : q[i] = q[j] => i = j
    /\ \A i \in 1 .. n : next[q[i]] = Elem(q, n, i + 1)
    /\ head = Elem(q, n, 1)

\* A set of numbers that is not empty has a least element.
LEMMA LeastNumber ==
    ASSUME NEW S, S \subseteq Nat, S # {} PROVE \E i \in S : \A j \in S : i <= j
<1>1. \E i \in S : \A j \in S : ~ (<<j, i>> \in OpToRel(<, Nat))
  BY WFMin, NatLessThanWellFounded, Zenon
<1>2. \A i, j \in Nat : j < i => <<j, i>> \in OpToRel(<, Nat)
  BY Zenon DEF OpToRel
<1>3. \E i \in S : \A j \in S : ~ (j < i)
  BY <1>1, <1>2, Zenon
<1> QED
  BY <1>3

\* A list is no longer than there are threads.
LEMMA ChainLength ==
    ASSUME NEW next, NEW q, NEW n, NEW head, Chain(next, q, n, head)
    PROVE  Cardinality(Threads) \in Nat /\ n <= Cardinality(Threads)
<1>1. n \in Nat /\ q \in Injection(1 .. n, Threads)
  BY DEF Chain, Injection, IsInjective
<1>2. IsFiniteSet(Threads)
  BY SchedulerAssumption
<1>3. Cardinality(1 .. n) <= Cardinality(Threads)
  BY <1>1, <1>2, FS_Injection
<1>4. Cardinality(1 .. n) = n
  BY <1>1, FS_Interval
<1> QED
  BY <1>2, <1>3, <1>4, FS_CardinalityType

\* What the recursive definition in Nth computes on such a list.
LEMMA Walk ==
    ASSUME NEW s, NEW q, NEW n, NEW head, Chain(s.next, q, n, head)
    PROVE  \A j \in 0 .. Cardinality(Threads) : Nth(s, head)[j] = Elem(q, n, j + 1)
<1> DEFINE N == Cardinality(Threads)
           Def(g) == [j \in 0 .. N |-> IF j = 0 THEN head
                                       ELSE IF g[j - 1] = NULL THEN NULL ELSE s.next[g[j - 1]]]
<1>1. N \in Nat /\ n \in Nat /\ n <= N /\ NULL \notin Threads /\ q \in [1 .. n -> Threads]
  <2>1. N \in Nat /\ n <= N
    BY ChainLength
  <2>2. NULL \notin Threads
    BY SchedulerAssumption
  <2> QED
    BY <2>1, <2>2 DEF Chain
<1>2. PICK f : f = [j \in 0 .. N |-> Elem(q, n, j + 1)]
  OBVIOUS
<1>3. f = Def(f)
  <2>1. ASSUME NEW j \in 0 .. N
        PROVE  f[j] = IF j = 0 THEN head ELSE IF f[j - 1] = NULL THEN NULL ELSE s.next[f[j - 1]]
    <3>1. CASE j = 0
      <4>1. head = Elem(q, n, 0 + 1)
        BY DEF Chain
      <4> QED
        BY <1>1, <1>2, <3>1, <4>1
    <3>2. CASE j # 0
      <4> HIDE DEF N
      <4>1. j - 1 \in 0 .. N /\ f[j - 1] = Elem(q, n, j) /\ f[j] = Elem(q, n, j + 1)
        BY <1>1, <1>2, <3>2
      <4>2. CASE j \in 1 .. n
        <5>1. s.next[q[j]] = Elem(q, n, j + 1)
          BY <4>2 DEF Chain
        <5>2. f[j - 1] = q[j] /\ f[j - 1] # NULL
          BY <1>1, <4>1, <4>2 DEF Elem
        <5> QED
          BY <3>2, <4>1, <5>1, <5>2
      <4>3. CASE j \notin 1 .. n
        <5>1. j + 1 \notin 1 .. n
          BY <1>1, <3>2, <4>3
        <5> QED
          BY <3>2, <4>1, <4>3, <5>1 DEF Elem
      <4> QED
        BY <4>2, <4>3
    <3> QED
      BY <3>1, <3>2
  <2> QED
    BY <1>2, <2>1
<1>4. Nth(s, head) = CHOOSE g : g = Def(g)
  BY DEF Nth
<1>5. PICK w : w = Nth(s, head) /\ w = Def(w)
  <2> HIDE DEF Def
  <2>1. \E g : g = Def(g)
    BY <1>3
  <2> QED
    BY <1>4, <2>1, Zenon
<1>6. PICK bad : bad = {j \in 0 .. N : w[j] # f[j]}
  OBVIOUS
<1>7. bad = {}
  <2> SUFFICES ASSUME bad # {} PROVE FALSE
    OBVIOUS
  <2>1. bad \subseteq Nat
    BY <1>6
  <2>2. PICK j \in bad : \A l \in bad : j <= l
    BY <2>1, LeastNumber
  <2>3. j \in 0 .. N /\ w[j] # f[j] /\ (j # 0 => j - 1 \in 0 .. N /\ w[j - 1] = f[j - 1])
    BY <1>1, <1>6, <2>2
  <2>4. w[j] = IF j = 0 THEN head ELSE IF w[j - 1] = NULL THEN NULL ELSE s.next[w[j - 1]]
    BY <1>5, <2>3
  <2>5. f[j] = IF j = 0 THEN head ELSE IF f[j - 1] = NULL THEN NULL ELSE s.next[f[j - 1]]
    BY <1>3, <2>3
  <2> QED
    BY <2>3, <2>4, <2>5
<1> QED
  BY <1>2, <1>5, <1>6, <1>7

\* The threads of the list q.
Members(q, n) == {q[i] : i \in 1 .. n}

\* The list that starts at head holds the threads of A.
HasList(next, head, A) ==
    \E n \in 0 .. Cardinality(Threads) : \E q \in [1 .. n -> Threads] :
        Chain(next, q, n, head) /\ A = Members(q, n)

\* A list made of such a function.
LEMMA HasListIntro ==
    ASSUME NEW next, NEW q, NEW n, NEW head, Chain(next, q, n, head), NEW A, A = Members(q, n)
    PROVE  HasList(next, head, A)
<1>1. n \in 0 .. Cardinality(Threads) /\ q \in [1 .. n -> Threads]
  <2>1. n \in Nat /\ q \in [1 .. n -> Threads]
    BY DEF Chain
  <2>2. Cardinality(Threads) \in Nat /\ n <= Cardinality(Threads)
    BY ChainLength
  <2> QED
    BY <2>1, <2>2
<1> QED
  BY <1>1, Zenon DEF HasList

\* The definitions of Scheduler find the threads of a list.
LEMMA ListIs ==
    ASSUME NEW s, NEW head, NEW A, HasList(s.next, head, A)
    PROVE  /\ A \subseteq Threads /\ Listed(s, head) = A
           /\ \A t \in Threads : InList(s, head, t) <=> t \in A
           /\ Nth(s, head)[Cardinality(Threads)] = NULL
           /\ head \in A \cup {NULL} /\ (head = NULL <=> A = {})
           /\ \A t \in A : s.next[t] \in A \cup {NULL}
<1>1. PICK n \in 0 .. Cardinality(Threads) : \E q \in [1 .. n -> Threads] :
          Chain(s.next, q, n, head) /\ A = Members(q, n)
  BY Zenon DEF HasList
<1>2. PICK q \in [1 .. n -> Threads] : Chain(s.next, q, n, head) /\ A = Members(q, n)
  BY <1>1, Zenon
<1>3. PICK N : N = Cardinality(Threads) /\ N \in Nat /\ n \in Nat /\ n <= N
  <2>1. Cardinality(Threads) \in Nat /\ n <= Cardinality(Threads)
    BY <1>2, ChainLength
  <2>2. n \in Nat
    BY <1>2 DEF Chain
  <2> QED
    BY <2>1, <2>2
<1>4. NULL \notin Threads
  BY SchedulerAssumption
<1>5. \A j \in 0 .. N : Nth(s, head)[j] = Elem(q, n, j + 1)
  BY <1>2, <1>3, Walk
<1>6. ASSUME NEW t \in Threads PROVE InList(s, head, t) <=> t \in A
  <2>1. InList(s, head, t) <=> \E j \in 0 .. N : Elem(q, n, j + 1) = t
    BY <1>3, <1>5 DEF InList
  <2>2. ASSUME NEW j \in 0 .. N, Elem(q, n, j + 1) = t PROVE t \in A
    BY <1>2, <1>4, <2>2 DEF Elem, Members
  <2>3. ASSUME t \in A PROVE \E j \in 0 .. N : Elem(q, n, j + 1) = t
    <3>1. PICK i \in 1 .. n : q[i] = t
      BY <1>2, <2>3 DEF Members
    <3>2. i - 1 \in 0 .. N /\ (i - 1) + 1 = i
      BY <1>3
    <3> QED
      BY <3>1, <3>2 DEF Elem
  <2> QED
    BY <2>1, <2>2, <2>3
<1>7. A \subseteq Threads
  BY <1>2 DEF Members
<1>8. Listed(s, head) = A
  BY <1>6, <1>7 DEF Listed
<1>9. Nth(s, head)[Cardinality(Threads)] = NULL
  <2>1. N \in 0 .. N /\ N + 1 \notin 1 .. n
    BY <1>3
  <2> QED
    BY <1>3, <1>5, <2>1 DEF Elem
<1>10. head \in A \cup {NULL} /\ (head = NULL <=> A = {})
  <2>1. head = Elem(q, n, 1)
    BY <1>2 DEF Chain
  <2>2. CASE n = 0
    BY <1>2, <2>1, <2>2 DEF Elem, Members
  <2>3. CASE n # 0
    <3>1. 1 \in 1 .. n
      BY <1>3, <2>3
    <3> QED
      BY <1>2, <1>4, <2>1, <3>1 DEF Elem, Members
  <2> QED
    BY <2>2, <2>3
<1>11. ASSUME NEW t \in A PROVE s.next[t] \in A \cup {NULL}
  <2>1. PICK i \in 1 .. n : q[i] = t
    BY <1>2 DEF Members
  <2>2. s.next[t] = Elem(q, n, i + 1)
    BY <1>2, <2>1 DEF Chain
  <2> QED
    BY <1>2, <2>2 DEF Elem, Members
<1> QED
  BY <1>6, <1>7, <1>8, <1>9, <1>10, <1>11

-----------------------------------------------------------------------------
(* Linking and unlinking *)

\* A list, as a function.
LEMMA ListFunction ==
    ASSUME NEW next, NEW head, NEW A, HasList(next, head, A)
    PROVE  \E n, q : /\ Chain(next, q, n, head) /\ n \in Nat /\ q \in [1 .. n -> Threads]
                     /\ A = Members(q, n)
<1>1. PICK n \in 0 .. Cardinality(Threads) : \E q \in [1 .. n -> Threads] :
          Chain(next, q, n, head) /\ A = Members(q, n)
  BY Zenon DEF HasList
<1>2. PICK q \in [1 .. n -> Threads] : Chain(next, q, n, head) /\ A = Members(q, n)
  BY <1>1, Zenon
<1> QED
  BY <1>2 DEF Chain

\* A list is left alone by a change of next outside it.
LEMMA KeepList ==
    ASSUME NEW next, NEW head, NEW A, HasList(next, head, A),
           NEW next2, \A t \in A : next2[t] = next[t]
    PROVE  HasList(next2, head, A)
<1>1. PICK n, q : /\ Chain(next, q, n, head) /\ n \in Nat /\ q \in [1 .. n -> Threads]
                  /\ A = Members(q, n)
  BY ListFunction
<1>2. \A i \in 1 .. n : next2[q[i]] = next[q[i]]
  BY <1>1 DEF Members
<1>3. Chain(next2, q, n, head)
  BY <1>1, <1>2 DEF Chain
<1> QED
  BY <1>1, <1>3, HasListIntro

\* A thread is put in front of a list.
LEMMA PushFront ==
    ASSUME NEW next, NEW head, NEW A, HasList(next, head, A), NEW t \in Threads, t \notin A,
           NEW next2, \A u \in A : next2[u] = next[u], next2[t] = head
    PROVE  HasList(next2, t, A \cup {t})
<1>1. PICK n, q : /\ Chain(next, q, n, head) /\ n \in Nat /\ q \in [1 .. n -> Threads]
                  /\ A = Members(q, n)
  BY ListFunction
<1>2. PICK p : p = [i \in 1 .. n + 1 |-> IF i = 1 THEN t ELSE q[i - 1]]
  OBVIOUS
<1>3. /\ n + 1 \in Nat /\ p \in [1 .. n + 1 -> Threads] /\ p[1] = t
      /\ \A i \in 1 .. n : p[i + 1] = q[i] /\ q[i] \in A
      /\ \A i \in 1 .. n + 1 : i = 1 \/ i - 1 \in 1 .. n
  BY <1>1, <1>2 DEF Members
<1>4. ASSUME NEW i \in 1 .. n + 1, NEW j \in 1 .. n + 1, p[i] = p[j] PROVE i = j
  <2>1. \A l, m \in 1 .. n : q[l] = q[m] => l = m
    BY <1>1 DEF Chain
  <2>2. \A l \in 1 .. n + 1 : l # 1 => p[l] = q[l - 1] /\ q[l - 1] \in A
    BY <1>1, <1>2, <1>3
  <2> QED
    BY <1>1, <1>3, <1>4, <2>1, <2>2
<1>5. ASSUME NEW i \in 1 .. n + 1 PROVE next2[p[i]] = Elem(p, n + 1, i + 1)
  <2>1. CASE i = 1
    <3>1. head = Elem(q, n, 1)
      BY <1>1 DEF Chain
    <3>2. CASE n = 0
      BY <1>3, <2>1, <3>1, <3>2 DEF Elem
    <3>3. CASE n # 0
      <4>1. 1 \in 1 .. n /\ 2 \in 1 .. n + 1 /\ p[1 + 1] = q[1]
        BY <1>1, <1>3, <3>3
      <4> QED
        BY <1>3, <2>1, <3>1, <4>1 DEF Elem
    <3> QED
      BY <3>2, <3>3
  <2>2. CASE i # 1
    <3>1. PICK j \in 1 .. n : i = j + 1
      BY <1>1, <1>3, <2>2
    <3>2. next2[p[i]] = Elem(q, n, j + 1)
      <4>1. p[i] = q[j] /\ q[j] \in A
        BY <1>3, <3>1
      <4>2. next[q[j]] = Elem(q, n, j + 1)
        BY <1>1 DEF Chain
      <4> QED
        BY <4>1, <4>2
    <3>3. CASE j = n
      BY <1>1, <3>1, <3>2, <3>3 DEF Elem
    <3>4. CASE j # n
      <4>1. j + 1 \in 1 .. n /\ i + 1 \in 1 .. n + 1 /\ p[(j + 1) + 1] = q[j + 1]
        BY <1>1, <1>3, <3>1, <3>4
      <4> QED
        BY <3>1, <3>2, <4>1 DEF Elem
    <3> QED
      BY <3>3, <3>4
  <2> QED
    BY <2>1, <2>2
<1>6. t = Elem(p, n + 1, 1)
  BY <1>1, <1>3 DEF Elem
<1>7. Chain(next2, p, n + 1, t)
  BY <1>3, <1>4, <1>5, <1>6 DEF Chain
<1>8. A \cup {t} = Members(p, n + 1)
  <2>1. \A i \in 1 .. n + 1 : p[i] \in A \cup {t}
    BY <1>1, <1>2, <1>3
  <2>2. ASSUME NEW u \in A PROVE \E i \in 1 .. n + 1 : p[i] = u
    <3>1. PICK i \in 1 .. n : q[i] = u
      BY <1>1 DEF Members
    <3>2. i + 1 \in 1 .. n + 1 /\ p[i + 1] = u
      BY <1>1, <1>3, <3>1
    <3> QED
      BY <3>2
  <2>3. 1 \in 1 .. n + 1 /\ p[1] = t
    BY <1>1, <1>3
  <2> QED
    BY <2>1, <2>2, <2>3 DEF Members
<1> QED
  BY <1>7, <1>8, HasListIntro

\* A thread is put behind prev.
LEMMA InsertAfter ==
    ASSUME NEW next, NEW head, NEW A, HasList(next, head, A), NEW t \in Threads, t \notin A,
           NEW prev \in A, NEW next2, next2[t] = next[prev], next2[prev] = t,
           \A u \in A : u # prev => next2[u] = next[u]
    PROVE  HasList(next2, head, A \cup {t})
<1>1. PICK n, q : /\ Chain(next, q, n, head) /\ n \in Nat /\ q \in [1 .. n -> Threads]
                  /\ A = Members(q, n)
  BY ListFunction
<1>2. PICK l \in 1 .. n : q[l] = prev
  BY <1>1 DEF Members
<1>3. PICK p : p = [i \in 1 .. n + 1 |-> IF i <= l THEN q[i] ELSE IF i = l + 1 THEN t ELSE q[i - 1]]
  OBVIOUS
<1>4. /\ n + 1 \in Nat /\ p \in [1 .. n + 1 -> Threads] /\ l + 1 \in 1 .. n + 1 /\ p[l + 1] = t
      /\ \A i \in 1 .. l : i \in 1 .. n + 1 /\ p[i] = q[i]
      /\ \A i \in l + 1 .. n : i + 1 \in 1 .. n + 1 /\ p[i + 1] = q[i]
      /\ \A i \in 1 .. n : q[i] \in A
  BY <1>1, <1>2, <1>3 DEF Members
<1>5. /\ \A i, j \in 1 .. n : q[i] = q[j] => i = j
      /\ \A i \in 1 .. n : next[q[i]] = Elem(q, n, i + 1)
      /\ head = Elem(q, n, 1)
  BY <1>1 DEF Chain
<1>6. \A i \in 1 .. n + 1 : \/ i \in 1 .. l \/ i = l + 1
                            \/ i - 1 \in l + 1 .. n /\ p[i] = q[i - 1]
  BY <1>1, <1>2, <1>3
<1>7. \A i, j \in 1 .. n + 1 : p[i] = p[j] => i = j
  <2>1. ASSUME NEW i \in 1 .. n + 1, i # l + 1
        PROVE  \E a \in 1 .. n : p[i] = q[a] /\ i = IF a <= l THEN a ELSE a + 1
    <3>1. CASE i \in 1 .. l
      <4>1. i \in 1 .. n /\ i <= l
        BY <1>1, <1>2, <3>1
      <4> QED
        BY <1>4, <3>1, <4>1
    <3>2. CASE i - 1 \in l + 1 .. n /\ p[i] = q[i - 1]
      <4>1. i - 1 \in 1 .. n /\ ~ (i - 1 <= l) /\ i = (i - 1) + 1
        BY <1>1, <1>2, <3>2
      <4> QED
        BY <3>2, <4>1
    <3> QED
      BY <1>6, <2>1, <3>1, <3>2
  <2>2. ASSUME NEW i \in 1 .. n + 1, NEW j \in 1 .. n + 1, p[i] = p[j] PROVE i = j
    <3>1. CASE i = l + 1 \/ j = l + 1
      BY <1>4, <2>1, <2>2, <3>1
    <3>2. CASE i # l + 1 /\ j # l + 1
      <4>1. PICK a \in 1 .. n : p[i] = q[a] /\ i = IF a <= l THEN a ELSE a + 1
        BY <2>1, <3>2
      <4>2. PICK b \in 1 .. n : p[j] = q[b] /\ j = IF b <= l THEN b ELSE b + 1
        BY <2>1, <3>2
      <4>3. q[a] = q[b]
        BY <2>2, <4>1, <4>2, Zenon
      <4>4. a = b
        BY <1>5, <4>3, Zenon
      <4> QED
        BY <4>1, <4>2, <4>4
    <3> QED
      BY <3>1, <3>2
  <2> QED
    BY <2>2
<1>8. ASSUME NEW i \in 1 .. n + 1 PROVE next2[p[i]] = Elem(p, n + 1, i + 1)
  <2>1. CASE i \in 1 .. l /\ i # l
    <3>1. i \in 1 .. n /\ i + 1 \in 1 .. l /\ i + 1 \in 1 .. n /\ i + 1 \in 1 .. n + 1 /\ i # l
      BY <1>1, <1>2, <2>1
    <3>2. next2[q[i]] = next[q[i]]
      BY <1>2, <1>4, <1>5, <3>1
    <3> QED
      BY <1>4, <1>5, <2>1, <3>1, <3>2 DEF Elem
  <2>2. CASE i = l
    <3>1. p[i] = prev /\ i + 1 \in 1 .. n + 1 /\ p[i + 1] = t
      BY <1>2, <1>4, <2>2
    <3> QED
      BY <3>1 DEF Elem
  <2>3. CASE i = l + 1
    <3>1. next2[p[i]] = Elem(q, n, l + 1)
      BY <1>2, <1>4, <1>5, <2>3
    <3>2. CASE l = n
      BY <1>1, <2>3, <3>1, <3>2 DEF Elem
    <3>3. CASE l # n
      <4>1. l + 1 \in l + 1 .. n /\ l + 1 \in 1 .. n /\ i + 1 \in 1 .. n + 1
        BY <1>1, <1>2, <2>3, <3>3
      <4> QED
        BY <1>4, <2>3, <3>1, <4>1 DEF Elem
    <3> QED
      BY <3>2, <3>3
  <2>4. CASE i - 1 \in l + 1 .. n
    <3>1. PICK j \in l + 1 .. n : i = j + 1 /\ j \in 1 .. n /\ j # l
      BY <1>1, <1>2, <2>4
    <3>2. next2[p[i]] = Elem(q, n, j + 1)
      BY <1>2, <1>4, <1>5, <3>1
    <3>3. CASE j = n
      BY <1>1, <3>1, <3>2, <3>3 DEF Elem
    <3>4. CASE j # n
      <4>1. j + 1 \in l + 1 .. n /\ j + 1 \in 1 .. n /\ i + 1 \in 1 .. n + 1 /\ i + 1 = (j + 1) + 1
        BY <1>1, <1>2, <3>1, <3>4
      <4>2. PICK a \in l + 1 .. n : a = j + 1
        BY <4>1
      <4>3. p[a + 1] = q[a]
        BY <1>4, Zenon
      <4>4. p[i + 1] = q[j + 1]
        BY <4>1, <4>2, <4>3
      <4> QED
        BY <3>2, <4>1, <4>4 DEF Elem
    <3> QED
      BY <3>3, <3>4
  <2> QED
    BY <1>6, <2>1, <2>2, <2>3, <2>4
<1>9. head = Elem(p, n + 1, 1)
  <2>1. 1 \in 1 .. l /\ 1 \in 1 .. n /\ 1 \in 1 .. n + 1
    BY <1>1, <1>2
  <2> QED
    BY <1>4, <1>5, <2>1 DEF Elem
<1>10. Chain(next2, p, n + 1, head)
  BY <1>4, <1>7, <1>8, <1>9 DEF Chain
<1>11. A \cup {t} = Members(p, n + 1)
  <2>1. 1 .. l \subseteq 1 .. n /\ l + 1 .. n \subseteq 1 .. n
    BY <1>1, <1>2
  <2>2. \A i \in 1 .. n + 1 : p[i] \in A \cup {t}
    BY <1>4, <1>6, <2>1
  <2>3. ASSUME NEW u \in A PROVE \E i \in 1 .. n + 1 : p[i] = u
    <3>1. PICK i \in 1 .. n : q[i] = u
      BY <1>1 DEF Members
    <3>2. i \in 1 .. l \/ i \in l + 1 .. n
      BY <1>1, <1>2
    <3> QED
      BY <1>4, <3>1, <3>2
  <2> QED
    BY <1>4, <2>2, <2>3 DEF Members
<1> QED
  BY <1>10, <1>11, HasListIntro

\* A thread is taken out of a list.
LEMMA Unlink ==
    ASSUME NEW next, NEW head, NEW A, HasList(next, head, A), NEW t \in A,
           NEW next2, \A u \in A : u # t => next2[u] = IF next[u] = t THEN next[t] ELSE next[u],
           NEW head2, head2 = IF head = t THEN next[t] ELSE head
    PROVE  HasList(next2, head2, A \ {t})
<1>1. PICK n, q : /\ Chain(next, q, n, head) /\ n \in Nat /\ q \in [1 .. n -> Threads]
                  /\ A = Members(q, n)
  BY ListFunction
<1>2. PICK d \in 1 .. n : q[d] = t
  BY <1>1 DEF Members
<1>3. PICK p : p = [i \in 1 .. n - 1 |-> IF i < d THEN q[i] ELSE q[i + 1]]
  OBVIOUS
<1>4. /\ n - 1 \in Nat /\ p \in [1 .. n - 1 -> Threads]
      /\ \A i \in 1 .. d - 1 : i \in 1 .. n - 1 /\ i \in 1 .. n /\ p[i] = q[i]
      /\ \A i \in d .. n - 1 : i \in 1 .. n - 1 /\ i + 1 \in 1 .. n /\ p[i] = q[i + 1]
      /\ \A i \in 1 .. n - 1 : i \in 1 .. d - 1 \/ i \in d .. n - 1
      /\ \A i \in 1 .. n : q[i] \in A
  BY <1>1, <1>2, <1>3 DEF Members
<1>5. /\ \A i, j \in 1 .. n : q[i] = q[j] => i = j
      /\ \A i \in 1 .. n : next[q[i]] = Elem(q, n, i + 1)
      /\ head = Elem(q, n, 1)
  BY <1>1 DEF Chain
<1>6. \A i, j \in 1 .. n - 1 : p[i] = p[j] => i = j
  <2>1. ASSUME NEW i \in 1 .. n - 1
        PROVE  \E a \in 1 .. n : p[i] = q[a] /\ i = IF a < d THEN a ELSE a - 1
    <3>1. CASE i \in 1 .. d - 1
      <4>1. i < d
        BY <1>1, <3>1
      <4> QED
        BY <1>4, <3>1, <4>1
    <3>2. CASE i \in d .. n - 1
      <4>1. ~ (i + 1 < d) /\ i = (i + 1) - 1
        BY <1>1, <3>2
      <4> QED
        BY <1>4, <3>2, <4>1
    <3> QED
      BY <1>4, <3>1, <3>2
  <2>2. ASSUME NEW i \in 1 .. n - 1, NEW j \in 1 .. n - 1, p[i] = p[j] PROVE i = j
    <3>1. PICK a \in 1 .. n : p[i] = q[a] /\ i = IF a < d THEN a ELSE a - 1
      BY <2>1
    <3>2. PICK b \in 1 .. n : p[j] = q[b] /\ j = IF b < d THEN b ELSE b - 1
      BY <2>1
    <3>3. q[a] = q[b]
      BY <2>2, <3>1, <3>2, Zenon
    <3>4. a = b
      BY <1>5, <3>3, Zenon
    <3> QED
      BY <3>1, <3>2, <3>4
  <2> QED
    BY <2>2
<1>7. NULL \notin Threads /\ t \in Threads
  BY <1>1, <1>2, SchedulerAssumption
<1>8. \A i \in 1 .. n : (next[q[i]] = t <=> i + 1 = d)
  <2>1. ASSUME NEW i \in 1 .. n, next[q[i]] = t PROVE i + 1 = d
    <3>1. i + 1 \in 1 .. n /\ q[i + 1] = q[d]
      BY <1>2, <1>5, <1>7, <2>1 DEF Elem
    <3> QED
      BY <1>5, <3>1
  <2>2. ASSUME NEW i \in 1 .. n, i + 1 = d PROVE next[q[i]] = t
    BY <1>2, <1>5, <2>2 DEF Elem
  <2> QED
    BY <2>1, <2>2
<1>9. \A i \in 1 .. n : i # d => q[i] # t
  BY <1>2, <1>5
<1>10. ASSUME NEW i \in 1 .. n - 1 PROVE next2[p[i]] = Elem(p, n - 1, i + 1)
  <2>1. CASE i \in 1 .. d - 1 /\ i + 1 # d
    <3>1. i \in 1 .. n /\ i # d /\ i + 1 \in 1 .. d - 1 /\ i + 1 \in 1 .. n /\ i + 1 \in 1 .. n - 1
      BY <1>1, <1>2, <2>1
    <3>2. next2[q[i]] = next[q[i]]
      BY <1>4, <1>8, <1>9, <2>1, <3>1
    <3> QED
      BY <1>4, <1>5, <2>1, <3>1, <3>2 DEF Elem
  <2>2. CASE i \in 1 .. d - 1 /\ i + 1 = d
    <3>1. i \in 1 .. n /\ i # d /\ p[i] = q[i]
      BY <1>1, <1>2, <1>4, <2>2
    <3>2. next2[q[i]] = next[t]
      BY <1>4, <1>8, <1>9, <2>2, <3>1
    <3>3. next2[p[i]] = Elem(q, n, d + 1)
      BY <1>2, <1>5, <3>1, <3>2
    <3>4. CASE d = n
      BY <1>1, <2>2, <3>3, <3>4 DEF Elem
    <3>5. CASE d # n
      <4>1. d \in d .. n - 1 /\ d \in 1 .. n - 1 /\ d + 1 \in 1 .. n
        BY <1>1, <1>2, <3>5
      <4> QED
        BY <1>4, <2>2, <3>3, <4>1 DEF Elem
    <3> QED
      BY <3>4, <3>5
  <2>3. CASE i \in d .. n - 1
    <3>1. i + 1 \in 1 .. n /\ i + 1 # d /\ (i + 1) + 1 # d /\ p[i] = q[i + 1]
      BY <1>1, <1>2, <1>4, <2>3
    <3>2. next2[p[i]] = Elem(q, n, (i + 1) + 1)
      <4>1. next[q[i + 1]] # t /\ q[i + 1] # t /\ q[i + 1] \in A
        BY <1>4, <1>8, <1>9, <3>1
      <4> QED
        BY <1>5, <3>1, <4>1
    <3>3. CASE i + 1 = n
      BY <1>1, <3>2, <3>3 DEF Elem
    <3>4. CASE i + 1 # n
      <4>1. i + 1 \in d .. n - 1 /\ i + 1 \in 1 .. n - 1 /\ (i + 1) + 1 \in 1 .. n
        BY <1>1, <1>2, <2>3, <3>4
      <4>2. p[i + 1] = q[(i + 1) + 1]
        BY <1>4, <4>1
      <4> QED
        BY <3>2, <4>1, <4>2 DEF Elem
    <3> QED
      BY <3>3, <3>4
  <2> QED
    BY <1>4, <2>1, <2>2, <2>3
<1>11. head2 = Elem(p, n - 1, 1)
  <2>0. 1 \in 1 .. n /\ head = q[1] /\ (head = t <=> d = 1)
    <3>1. 1 \in 1 .. n
      BY <1>1, <1>2
    <3> QED
      BY <1>2, <1>5, <3>1 DEF Elem
  <2>1. CASE d = 1
    <3>1. head2 = Elem(q, n, 1 + 1)
      BY <1>2, <1>5, <2>0, <2>1
    <3>2. CASE n = 1
      BY <3>1, <3>2 DEF Elem
    <3>3. CASE n # 1
      <4>1. 1 \in d .. n - 1 /\ 1 \in 1 .. n - 1 /\ 1 + 1 \in 1 .. n
        BY <1>1, <2>1, <3>3
      <4>2. p[1] = q[1 + 1]
        BY <1>4, <4>1
      <4> QED
        BY <3>1, <4>1, <4>2 DEF Elem
    <3> QED
      BY <3>2, <3>3
  <2>2. CASE d # 1
    <3>1. 1 \in 1 .. d - 1 /\ 1 \in 1 .. n - 1
      BY <1>1, <1>2, <2>2
    <3> QED
      BY <1>4, <2>0, <2>2, <3>1 DEF Elem
  <2> QED
    BY <2>1, <2>2
<1>12. Chain(next2, p, n - 1, head2)
  BY <1>4, <1>6, <1>10, <1>11 DEF Chain
<1>13. A \ {t} = Members(p, n - 1)
  <2>1. ASSUME NEW i \in 1 .. n - 1 PROVE p[i] \in A \ {t}
    <3>1. CASE i \in 1 .. d - 1
      <4>1. i # d
        BY <1>1, <3>1
      <4> QED
        BY <1>4, <1>9, <3>1, <4>1
    <3>2. CASE i \in d .. n - 1
      <4>1. i + 1 # d
        BY <1>1, <3>2
      <4> QED
        BY <1>4, <1>9, <3>2, <4>1
    <3> QED
      BY <1>4, <3>1, <3>2
  <2>2. ASSUME NEW u \in A \ {t} PROVE \E i \in 1 .. n - 1 : p[i] = u
    <3>1. PICK i \in 1 .. n : q[i] = u
      BY <1>1 DEF Members
    <3>2. i \in 1 .. d - 1 \/ i - 1 \in d .. n - 1
      BY <1>1, <1>2, <3>1
    <3>3. CASE i \in 1 .. d - 1
      BY <1>4, <3>1, <3>3
    <3>4. CASE i - 1 \in d .. n - 1
      <4>1. (i - 1) + 1 = i
        BY <1>1
      <4> QED
        BY <1>4, <3>1, <3>4, <4>1
    <3> QED
      BY <3>2, <3>3, <3>4
  <2> QED
    BY <2>1, <2>2 DEF Members
<1> QED
  BY <1>12, <1>13, HasListIntro

\* The thread before t, and the last of some threads of a list.
LEMMA Predecessors ==
    ASSUME NEW next, NEW head, NEW A, HasList(next, head, A)
    PROVE  /\ \A u \in A : next[u] # NULL => next[u] # head
           /\ \A u, v \in A : next[u] # NULL /\ next[u] = next[v] => u = v
           /\ \A t \in A : t # head => \E u \in A : next[u] = t
           /\ \A E \in SUBSET A : E # {} => \E u \in E : next[u] \notin E
<1>1. PICK n, q : /\ Chain(next, q, n, head) /\ n \in Nat /\ q \in [1 .. n -> Threads]
                  /\ A = Members(q, n)
  BY ListFunction
<1>2. /\ \A i, j \in 1 .. n : q[i] = q[j] => i = j
      /\ \A i \in 1 .. n : next[q[i]] = Elem(q, n, i + 1)
      /\ head = Elem(q, n, 1)
  BY <1>1 DEF Chain
<1>3. NULL \notin Threads
  BY SchedulerAssumption
<1>4. \A i \in 1 .. n : next[q[i]] # NULL => i + 1 \in 1 .. n /\ next[q[i]] = q[i + 1]
  BY <1>2 DEF Elem
<1>5. \A u \in A : \E i \in 1 .. n : u = q[i]
  BY <1>1 DEF Members
<1>6. ASSUME NEW u \in A, next[u] # NULL PROVE next[u] # head
  <2>1. PICK i \in 1 .. n : u = q[i] /\ i + 1 \in 1 .. n /\ next[u] = q[i + 1]
    BY <1>4, <1>5, <1>6
  <2>2. 1 \in 1 .. n /\ i + 1 # 1 /\ head = q[1]
    BY <1>1, <1>2, <2>1 DEF Elem
  <2> QED
    BY <1>2, <2>1, <2>2
<1>7. ASSUME NEW u \in A, NEW v \in A, next[u] # NULL, next[u] = next[v] PROVE u = v
  <2>1. PICK i \in 1 .. n : u = q[i] /\ i + 1 \in 1 .. n /\ next[u] = q[i + 1]
    BY <1>4, <1>5, <1>7
  <2>2. PICK j \in 1 .. n : v = q[j] /\ j + 1 \in 1 .. n /\ next[v] = q[j + 1]
    BY <1>4, <1>5, <1>7
  <2>3. i + 1 = j + 1
    BY <1>2, <1>7, <2>1, <2>2
  <2> QED
    BY <2>1, <2>2, <2>3
<1>8. ASSUME NEW t \in A, t # head PROVE \E u \in A : next[u] = t
  <2>1. PICK i \in 1 .. n : t = q[i]
    BY <1>5
  <2>2. i # 1
    BY <1>2, <1>8, <2>1 DEF Elem
  <2>3. i - 1 \in 1 .. n /\ (i - 1) + 1 = i
    BY <1>1, <2>2
  <2>4. next[q[i - 1]] = t /\ q[i - 1] \in A
    BY <1>1, <1>2, <2>1, <2>3 DEF Elem, Members
  <2> QED
    BY <2>4
<1>9. ASSUME NEW E \in SUBSET A, E # {} PROVE \E u \in E : next[u] \notin E
  <2>1. PICK I : I = {i \in 0 .. n : n - i \in 1 .. n /\ q[n - i] \in E}
    OBVIOUS
  <2>2. I \subseteq Nat /\ I # {}
    <3>1. PICK u \in E : TRUE
      BY <1>9
    <3>2. PICK i \in 1 .. n : u = q[i]
      BY <1>5, <1>9
    <3>3. n - i \in 0 .. n /\ n - (n - i) = i
      BY <1>1
    <3>4. n - i \in I
      BY <2>1, <3>1, <3>2, <3>3
    <3>5. I \subseteq Nat
      BY <2>1
    <3> QED
      BY <3>4, <3>5
  <2>3. PICK i \in I : \A j \in I : i <= j
    BY <2>2, LeastNumber
  <2>4. i \in 0 .. n /\ n - i \in 1 .. n /\ q[n - i] \in E
    BY <2>1, <2>3
  <2>5. ASSUME next[q[n - i]] \in E PROVE FALSE
    <3>1. next[q[n - i]] # NULL
      BY <1>1, <1>3, <1>5, <1>9, <2>5
    <3>2. (n - i) + 1 \in 1 .. n /\ next[q[n - i]] = q[(n - i) + 1]
      BY <1>4, <2>4, <3>1
    <3>3. i - 1 \in 0 .. n /\ n - (i - 1) = (n - i) + 1
      BY <1>1, <2>4, <3>2
    <3>4. i - 1 \in I
      BY <2>1, <2>5, <3>2, <3>3
    <3> QED
      BY <1>1, <2>3, <2>4, <3>4
  <2> QED
    BY <2>4, <2>5
<1> QED
  BY <1>6, <1>7, <1>8, <1>9

-----------------------------------------------------------------------------
(* The two lists of the only CPU *)

\* The ready list holds the threads of A, the wakeups those of B.
Linked(s, A, B) ==
    /\ HasList(s.next, s.threads[0], A)
    /\ HasList(s.next, s.wakeups[0], B)
    /\ A \cap B = {}

Pointers == Threads \cup {NULL}

Data ==
    [threads : [CPUs -> Pointers], wakeups : [CPUs -> Pointers], cur : [CPUs -> Pointers],
     num_threads : [CPUs -> Nat], ticks : [CPUs -> Nat], next : [Threads -> Pointers],
     status : [Threads -> {"NEW", "READY", "SLEEP", "DEAD"}],
     slice : [Threads -> Nat], wakeup_time : [Threads -> Nat]]

\* What the lists are is all that relinking changes.
Relinked(r, s) ==
    /\ r \in Data /\ r.cur = s.cur /\ r.status = s.status
    /\ r.ticks = s.ticks /\ r.wakeup_time = s.wakeup_time

\* A CPU of which there is only one.
LEMMA OnlyCpu == ASSUME NumCpus = 1 PROVE CPUs = {0}
BY DEF CPUs

\* scheduler_remove_thread takes a thread out of the ready list.
LEMMA RemoveThread ==
    ASSUME NumCpus = 1, NEW s \in Data, NEW A, NEW B, Linked(s, A, B), NEW t \in A,
           NEW r, r = scheduler_remove_thread(s, 0, t)
    PROVE  Relinked(r, s) /\ Linked(r, A \ {t}, B)
<1>1. PICK next, head : next = s.next /\ head = s.threads[0]
  OBVIOUS
<1>2. HasList(next, head, A) /\ HasList(next, s.wakeups[0], B) /\ A \cap B = {}
  BY <1>1 DEF Linked
<1>3. HasList(s.next, head, A)
  BY <1>1, <1>2
<1>4. /\ A \subseteq Threads /\ Listed(s, head) = A /\ InList(s, head, t)
      /\ next[t] \in A \cup {NULL}
  BY <1>1, <1>3, ListIs
<1>5. NULL \notin Threads /\ CPUs = {0}
  BY OnlyCpu, SchedulerAssumption
<1>6. s.threads \in [CPUs -> Pointers] /\ s.next \in [Threads -> Pointers]
  BY DEF Data
<1>7. CASE head = t
  <2>1. r = [s EXCEPT !.threads[0] = s.next[t]]
    BY <1>1, <1>4, <1>7 DEF scheduler_remove_thread, PrevOf
  <2>2. s.next[t] \in Pointers
    BY <1>1, <1>4 DEF Pointers
  <2>3. Relinked(r, s) /\ r.next = next /\ r.wakeups = s.wakeups /\ r.threads[0] = next[t]
    BY <1>1, <1>5, <1>6, <2>1, <2>2 DEF Relinked, Data
  <2>4. \A u \in A : u # t => next[u] # t
    BY <1>2, <1>4, <1>5, <1>7, Predecessors
  <2>5. PICK head2 : head2 = next[t]
    OBVIOUS
  <2>6. HasList(next, head2, A \ {t})
    BY <1>2, <1>7, <2>4, <2>5, Unlink
  <2> QED
    BY <1>2, <2>3, <2>5, <2>6 DEF Linked
<1>8. CASE head # t
  <2>1. PICK prev : prev = CHOOSE p \in A : next[p] = t
    OBVIOUS
  <2>2. prev \in A /\ next[prev] = t
    BY <1>2, <1>8, <2>1, Predecessors
  <2>3. r = [s EXCEPT !.next[prev] = s.next[t]]
    <3>1. PrevOf(s, s.threads[0], t) = prev /\ prev # NULL
      BY <1>1, <1>4, <1>5, <1>8, <2>1, <2>2 DEF PrevOf
    <3> QED
      BY <1>1, <1>4, <3>1 DEF scheduler_remove_thread
  <2>4. s.next[t] \in Pointers /\ prev \in Threads
    BY <1>1, <1>4, <2>2 DEF Pointers
  <2>5. PICK next2 : next2 = [next EXCEPT ![prev] = next[t]]
    OBVIOUS
  <2>6. Relinked(r, s) /\ r.next = next2 /\ r.wakeups = s.wakeups /\ r.threads = s.threads
    BY <1>1, <1>6, <2>3, <2>4, <2>5 DEF Relinked, Data
  <2>7. \A u \in A : u # t => next2[u] = IF next[u] = t THEN next[t] ELSE next[u]
    <3>1. \A u \in A : next[u] = t => u = prev
      BY <1>2, <1>4, <1>5, <2>2, Predecessors
    <3> QED
      BY <1>1, <1>4, <1>6, <2>2, <2>5, <3>1
  <2>8. HasList(next2, head, A \ {t})
    BY <1>2, <1>8, <2>7, Unlink
  <2>9. HasList(next2, s.wakeups[0], B)
    <3>1. \A u \in B : next2[u] = next[u]
      <4>1. B \subseteq Threads
        <5>1. PICK h : h = s.wakeups[0]
          OBVIOUS
        <5>2. HasList(s.next, h, B)
          BY <1>1, <1>2, <5>1
        <5> QED
          BY <5>2, ListIs
      <4> QED
        BY <1>1, <1>2, <1>6, <2>2, <2>5, <4>1
    <3> QED
      BY <1>2, <3>1, KeepList
  <2> QED
    BY <1>1, <1>2, <2>6, <2>8, <2>9 DEF Linked
<1> QED
  BY <1>7, <1>8

\* The lists, and that they are made of threads.
LEMMA LinkedIs ==
    ASSUME NEW s, NEW A, NEW B, Linked(s, A, B)
    PROVE  /\ A \subseteq Threads /\ B \subseteq Threads /\ A \cap B = {}
           /\ Listed(s, s.threads[0]) = A /\ Listed(s, s.wakeups[0]) = B
           /\ s.threads[0] \in A \cup {NULL} /\ (s.threads[0] = NULL <=> A = {})
           /\ s.wakeups[0] \in B \cup {NULL} /\ (s.wakeups[0] = NULL <=> B = {})
           /\ \A t \in A : s.next[t] \in A \cup {NULL}
           /\ \A t \in B : s.next[t] \in B \cup {NULL}
<1>1. PICK h, g : h = s.threads[0] /\ g = s.wakeups[0]
  OBVIOUS
<1>2. HasList(s.next, h, A) /\ HasList(s.next, g, B) /\ A \cap B = {}
  BY <1>1 DEF Linked
<1>3. /\ A \subseteq Threads /\ Listed(s, h) = A /\ h \in A \cup {NULL}
      /\ (h = NULL <=> A = {}) /\ \A t \in A : s.next[t] \in A \cup {NULL}
  BY <1>2, ListIs
<1>4. /\ B \subseteq Threads /\ Listed(s, g) = B /\ g \in B \cup {NULL}
      /\ (g = NULL <=> B = {}) /\ \A t \in B : s.next[t] \in B \cup {NULL}
  BY <1>2, ListIs
<1> QED
  BY <1>1, <1>2, <1>3, <1>4

\* scheduler_add_thread puts a thread in front of the ready list, for which
\* the only CPU is chosen.
LEMMA AddToReady ==
    ASSUME NumCpus = 1, NEW s \in Data, NEW A, NEW B, Linked(s, A, B),
           NEW t \in Threads, t \notin A, NEW r, r = scheduler_add_thread(s, t)
    PROVE  /\ Relinked(r, s) /\ HasList(r.next, r.threads[0], A \cup {t})
           /\ r.wakeups = s.wakeups /\ \A u \in Threads : u # t => r.next[u] = s.next[u]
<1>1. CPUs = {0}
  BY OnlyCpu
<1>2. /\ s.num_threads \in [CPUs -> Nat] /\ s.threads \in [CPUs -> Pointers]
      /\ s.next \in [Threads -> Pointers]
  BY DEF Data
<1>3. LeastLoaded(s) = 0
  <2>1. s.num_threads[0] <= s.num_threads[0] /\ \A d \in 0 .. 0 - 1 : FALSE
    BY <1>1, <1>2
  <2> QED
    BY <1>1, <2>1 DEF LeastLoaded
<1>4. PICK num \in Nat : r = [s EXCEPT !.num_threads[0] = num,
                                     !.next[t] = s.threads[0], !.threads[0] = t]
  <2>1. PICK num : num = IF s.num_threads[0] < MaxCount THEN s.num_threads[0] + 1
                         ELSE s.num_threads[0]
    OBVIOUS
  <2>2. num \in Nat
    BY <1>1, <1>2, <2>1
  <2>3. r = [s EXCEPT !.num_threads[0] = num, !.next[t] = s.threads[0], !.threads[0] = t]
    BY <1>3, <2>1 DEF scheduler_add_thread
  <2> QED
    BY <2>2, <2>3
<1>5. PICK next, head : next = s.next /\ head = s.threads[0]
  OBVIOUS
<1>6. PICK next2 : next2 = [next EXCEPT ![t] = head]
  OBVIOUS
<1>7. Relinked(r, s) /\ r.next = next2 /\ r.wakeups = s.wakeups /\ r.threads[0] = t
  <2>1. PICK num2, threads2 : /\ num2 = [s.num_threads EXCEPT ![0] = num]
                              /\ threads2 = [s.threads EXCEPT ![0] = t]
    OBVIOUS
  <2>2. /\ num2 \in [CPUs -> Nat] /\ threads2 \in [CPUs -> Pointers] /\ threads2[0] = t
        /\ next2 \in [Threads -> Pointers]
    BY <1>1, <1>2, <1>5, <1>6, <2>1 DEF Pointers
  <2>3. r = [s EXCEPT !.num_threads = num2, !.next = next2, !.threads = threads2]
    BY <1>4, <1>5, <1>6, <2>1
  <2> QED
    BY <2>2, <2>3 DEF Relinked, Data
<1>8. HasList(next, head, A) /\ A \subseteq Threads
  BY <1>5, LinkedIs DEF Linked
<1>9. next2[t] = head /\ \A u \in Threads : u # t => next2[u] = next[u]
  BY <1>2, <1>5, <1>6
<1>10. HasList(next2, t, A \cup {t})
  BY <1>8, <1>9, PushFront
<1> QED
  BY <1>5, <1>7, <1>9, <1>10

\* A thread that is in no list is added to the ready list.
LEMMA AddLinked ==
    ASSUME NumCpus = 1, NEW s \in Data, NEW A, NEW B, Linked(s, A, B),
           NEW t \in Threads, t \notin A \cup B, NEW r, r = scheduler_add_thread(s, t)
    PROVE  Relinked(r, s) /\ Linked(r, A \cup {t}, B)
<1>1. /\ Relinked(r, s) /\ HasList(r.next, r.threads[0], A \cup {t})
      /\ r.wakeups = s.wakeups /\ \A u \in Threads : u # t => r.next[u] = s.next[u]
  BY AddToReady
<1>2. PICK next, next2, head : next = s.next /\ next2 = r.next /\ head = s.wakeups[0]
  OBVIOUS
<1>3. HasList(next, head, B) /\ B \subseteq Threads /\ A \cap B = {}
  BY <1>2, LinkedIs DEF Linked
<1>4. \A u \in B : next2[u] = next[u]
  BY <1>1, <1>2, <1>3
<1>5. HasList(next2, head, B)
  BY <1>3, <1>4, KeepList
<1> QED
  BY <1>1, <1>2, <1>3, <1>5 DEF Linked

\* The first sleeper moves to the ready list.
LEMMA WakeFirst ==
    ASSUME NumCpus = 1, NEW s \in Data, NEW A, NEW B, Linked(s, A, B),
           NEW h, h = s.wakeups[0], h # NULL, NEW a, a = scheduler_add_thread(s, h),
           NEW r, r = [a EXCEPT !.wakeups[0] = s.next[h]]
    PROVE  Relinked(r, s) /\ Linked(r, A \cup {h}, B \ {h}) /\ h \in B
<1>2. /\ h \in B /\ h \in Threads /\ h \notin A /\ B \subseteq Threads /\ A \cap B = {}
      /\ s.next[h] \in B \cup {NULL}
  BY LinkedIs
<1>3. /\ Relinked(a, s) /\ HasList(a.next, a.threads[0], A \cup {h})
      /\ a.wakeups = s.wakeups /\ \A u \in Threads : u # h => a.next[u] = s.next[u]
  BY <1>2, AddToReady
<1>4. PICK next, next2, head2 : next = s.next /\ next2 = a.next /\ head2 = next[h]
  OBVIOUS
<1>5. HasList(next, h, B)
  BY <1>4 DEF Linked
<1>6. \A u \in B : u # h => next2[u] = IF next[u] = h THEN next[h] ELSE next[u]
  <2>1. \A u \in B : next[u] # h
    <3>1. NULL \notin Threads
      BY SchedulerAssumption
    <3> QED
      BY <1>2, <1>5, <3>1, Predecessors
  <2> QED
    BY <1>2, <1>3, <1>4, <2>1
<1>7. HasList(next2, head2, B \ {h})
  <2>1. h \in B
    BY <1>2
  <2>2. head2 = IF h = h THEN next[h] ELSE h
    BY <1>4
  <2> QED
    BY <1>5, <1>6, <2>1, <2>2, Unlink
<1>8. Relinked(r, s) /\ r.next = next2 /\ r.threads = a.threads /\ r.wakeups[0] = head2
  <2>1. a \in Data /\ a.cur = s.cur /\ a.status = s.status /\ a.ticks = s.ticks
        /\ a.wakeup_time = s.wakeup_time
    BY <1>3 DEF Relinked
  <2>2. r = [a EXCEPT !.wakeups[0] = head2] /\ head2 \in Pointers
    BY <1>2, <1>4 DEF Pointers
  <2>3. a.wakeups \in [CPUs -> Pointers] /\ CPUs = {0}
    BY <2>1, OnlyCpu DEF Data
  <2>4. PICK wakeups2 : wakeups2 = [a.wakeups EXCEPT ![0] = head2]
    OBVIOUS
  <2>5. wakeups2 \in [CPUs -> Pointers] /\ wakeups2[0] = head2
    BY <2>2, <2>3, <2>4
  <2>6. r = [a EXCEPT !.wakeups = wakeups2]
    BY <2>2, <2>4
  <2> QED
    BY <1>4, <2>1, <2>5, <2>6 DEF Relinked, Data
<1> QED
  BY <1>2, <1>3, <1>4, <1>7, <1>8 DEF Linked

\* In r the thread t has moved from the ready list to the wakeups.
Slept(r, s, t, A, B) ==
    /\ r \in Data /\ Linked(r, A \ {t}, B \cup {t}) /\ r.cur[0] = NULL
    /\ r.status = s.status /\ r.ticks = s.ticks /\ r.wakeup_time = s.wakeup_time

\* The current thread moves to the wakeups, wherever it is put there.
LEMMA GoesToSleep ==
    ASSUME NumCpus = 1, NEW s0 \in Data, NEW A, NEW B, Linked(s0, A, B), NEW t \in A,
           NEW r, r = PutToSleep(s0, 0, t)
    PROVE  Slept(r, s0, t, A, B)
<1>1. PICK s1 : s1 = [s0 EXCEPT !.cur[0] = NULL]
  OBVIOUS
<1>2. /\ s1 \in Data /\ s1.cur[0] = NULL /\ s1.status = s0.status /\ s1.ticks = s0.ticks
      /\ s1.wakeup_time = s0.wakeup_time
      /\ s1.next = s0.next /\ s1.threads = s0.threads /\ s1.wakeups = s0.wakeups
  <2>1. NULL \in Pointers /\ CPUs = {0} /\ s0.cur \in [CPUs -> Pointers]
    BY OnlyCpu DEF Pointers, Data
  <2> QED
    BY <1>1, <2>1 DEF Data
<1>3. Linked(s1, A, B)
  BY <1>2 DEF Linked
<1>4. PICK s : s = scheduler_remove_thread(s1, 0, t)
  OBVIOUS
<1>5. Relinked(s, s1) /\ Linked(s, A \ {t}, B)
  BY <1>2, <1>3, <1>4, RemoveThread
<1>6. /\ s \in Data /\ s.cur[0] = NULL /\ s.status = s0.status /\ s.ticks = s0.ticks
      /\ s.wakeup_time = s0.wakeup_time
  BY <1>2, <1>5 DEF Relinked
<1>7. /\ A \subseteq Threads /\ B \subseteq Threads /\ A \cap B = {} /\ t \notin B
      /\ Listed(s, s.wakeups[0]) = B
  <2>1. PICK A1 : A1 = A \ {t}
    OBVIOUS
  <2>2. B \subseteq Threads /\ Listed(s, s.wakeups[0]) = B
    BY <1>5, <2>1, LinkedIs
  <2>3. A \subseteq Threads /\ A \cap B = {}
    BY <1>3, LinkedIs
  <2> QED
    BY <2>2, <2>3
<1>8. PICK next, g, h : next = s.next /\ g = s.wakeups[0] /\ h = s.threads[0]
  OBVIOUS
<1>9. HasList(next, h, A \ {t}) /\ HasList(next, g, B)
  BY <1>5, <1>8 DEF Linked
<1>10. next \in [Threads -> Pointers] /\ s.wakeups \in [CPUs -> Pointers] /\ CPUs = {0}
       /\ t \in Threads /\ t \in Pointers /\ g \in Pointers
  BY <1>6, <1>7, <1>8, OnlyCpu DEF Data, Pointers
<1>11. PICK earlier :
         earlier = {u \in B : \A v \in B : (v = u \/ InList(s, s.next[v], u))
                                               => s.wakeup_time[v] < s.wakeup_time[t]}
  OBVIOUS
<1>12. r = IF earlier = {}
           THEN [s EXCEPT !.wakeups[0] = t, !.next[t] = g]
           ELSE LET prev == CHOOSE u \in earlier : s.next[u] \notin earlier
                IN [s EXCEPT !.next = [s.next EXCEPT ![prev] = t, ![t] = s.next[prev]]]
  <2>1. r = InsertBehind(s, 0, t, Earlier(s, 0, t))
    <3>1. s = scheduler_remove_thread([s0 EXCEPT !.cur[0] = NULL], 0, t)
      BY <1>1, <1>4
    <3> QED
      BY <3>1, Zenon DEF PutToSleep
  <2>2. Earlier(s, 0, t) = earlier
    BY <1>7, <1>11 DEF Earlier
  <2>3. r = InsertBehind(s, 0, t, earlier)
    BY <2>1, <2>2
  <2> QED
    BY <1>8, <2>3 DEF InsertBehind
<1>13. ASSUME NEW next2, NEW g2, \A u \in A \ {t} : next2[u] = next[u],
              HasList(next2, g2, B \cup {t}),
              r \in Data, r.next = next2, r.wakeups[0] = g2, r.threads = s.threads
       PROVE  Linked(r, A \ {t}, B \cup {t})
  <2>1. PICK A1 : A1 = A \ {t}
    OBVIOUS
  <2>2. HasList(next, h, A1) /\ \A u \in A1 : next2[u] = next[u]
    BY <1>9, <1>13, <2>1
  <2>3. HasList(next2, h, A1)
    BY <2>2, KeepList
  <2> QED
    BY <1>7, <1>8, <1>13, <2>1, <2>3 DEF Linked
<1>14. CASE earlier = {}
  <2>1. r = [s EXCEPT !.wakeups[0] = t, !.next[t] = g]
    BY <1>12, <1>14
  <2>2. PICK next2 : next2 = [next EXCEPT ![t] = g]
    OBVIOUS
  <2>3. /\ r \in Data /\ r.next = next2 /\ r.wakeups[0] = t /\ r.threads = s.threads
        /\ r.cur = s.cur /\ r.status = s.status /\ r.ticks = s.ticks
        /\ r.wakeup_time = s.wakeup_time
    <3>1. PICK wakeups2 : wakeups2 = [s.wakeups EXCEPT ![0] = t]
      OBVIOUS
    <3>2. /\ wakeups2 \in [CPUs -> Pointers] /\ wakeups2[0] = t
          /\ next2 \in [Threads -> Pointers]
      BY <1>10, <2>2, <3>1
    <3>3. r = [s EXCEPT !.wakeups = wakeups2, !.next = next2]
      BY <1>8, <2>1, <2>2, <3>1
    <3> QED
      BY <1>6, <3>2, <3>3 DEF Data
  <2>4. next2[t] = g /\ \A u \in Threads : u # t => next2[u] = next[u]
    BY <1>10, <2>2
  <2>5. HasList(next2, t, B \cup {t})
    BY <1>7, <1>9, <1>10, <2>4, PushFront
  <2>6. Linked(r, A \ {t}, B \cup {t})
    BY <1>7, <1>13, <2>3, <2>4, <2>5
  <2> QED
    BY <1>6, <2>3, <2>6 DEF Slept
<1>15. CASE earlier # {}
  <2>1. PICK prev : prev = CHOOSE u \in earlier : next[u] \notin earlier
    OBVIOUS
  <2>2. prev \in earlier /\ prev \in B
    <3>1. earlier \in SUBSET B
      BY <1>11
    <3>2. \E u \in earlier : next[u] \notin earlier
      BY <1>9, <1>15, <3>1, Predecessors
    <3> QED
      BY <2>1, <3>1, <3>2
  <2>3. PICK next2 : next2 = [next EXCEPT ![prev] = t, ![t] = next[prev]]
    OBVIOUS
  <2>4. r = [s EXCEPT !.next = next2]
    BY <1>8, <1>12, <1>15, <2>1, <2>3
  <2>5. /\ next2 \in [Threads -> Pointers] /\ next2[t] = next[prev] /\ next2[prev] = t
        /\ \A u \in Threads : u # t /\ u # prev => next2[u] = next[u]
    BY <1>7, <1>10, <2>2, <2>3
  <2>6. /\ r \in Data /\ r.next = next2 /\ r.wakeups = s.wakeups /\ r.threads = s.threads
        /\ r.cur = s.cur /\ r.status = s.status /\ r.ticks = s.ticks
        /\ r.wakeup_time = s.wakeup_time
    BY <1>6, <2>4, <2>5 DEF Data
  <2>7. HasList(next2, g, B \cup {t})
    <3>1. \A u \in B : u # prev => next2[u] = next[u]
      BY <1>7, <2>5
    <3> QED
      BY <1>7, <1>9, <1>10, <2>2, <2>5, <3>1, InsertAfter
  <2>8. \A u \in A \ {t} : next2[u] = next[u]
    BY <1>7, <2>2, <2>5
  <2>9. Linked(r, A \ {t}, B \cup {t})
    BY <1>8, <1>13, <2>6, <2>7, <2>8
  <2> QED
    BY <1>6, <2>6, <2>9 DEF Slept
<1> QED
  BY <1>14, <1>15

-----------------------------------------------------------------------------
(* schedule *)

\* Between two turns of schedule, with the threads of dead exited: the current
\* thread is ready, every thread that is to run again is in a list, no dead one
\* is, and nothing sleeps in the ready list.
Settled(s, A, B, dead) ==
    /\ s \in Data /\ Linked(s, A, B) /\ (s.cur[0] # NULL => s.cur[0] \in A)
    /\ \A t \in Threads : s.status[t] \in {"READY", "SLEEP"} => t \in A \cup B
    /\ \A t \in dead : s.status[t] = "DEAD" /\ t \notin A \cup B
    /\ \A t \in A : s.status[t] # "SLEEP"

\* On entry to schedule the current thread may have exited or gone to sleep.
Orderly(s, A, B, dead) ==
    /\ s \in Data /\ Linked(s, A, B) /\ (s.cur[0] # NULL => s.cur[0] \in A)
    /\ \A t \in Threads : s.status[t] \in {"READY", "SLEEP"} => t \in A \cup B
    /\ \A t \in dead : s.status[t] = "DEAD" /\ (t = s.cur[0] \/ t \notin A \cup B)
    /\ \A t \in A : s.status[t] = "SLEEP" => t = s.cur[0]

\* The context x.run is resumed: the current thread, or idle if there is none,
\* no dead thread, and no sleeping one before it is due.
Resumed(s, x, dead) ==
    /\ x.run \in Threads => x.k.cur[0] = x.run
    /\ x.k.cur[0] # NULL => x.k.cur[0] = x.run
    /\ x.run \in Threads \cup {IDLE, BOOT} /\ x.run \notin dead
    /\ x.k.ticks = s.ticks /\ x.k.wakeup_time = s.wakeup_time
    /\ x.run \in Threads /\ s.status[x.run] = "SLEEP" /\ x.k.status[x.run] # "SLEEP"
           => s.wakeup_time[x.run] <= s.ticks[0]

Some(x, dead) == \E A, B : Settled(x, A, B, dead)

\* ready_thread assigns to fields that do not link threads.
WithFields(s, cur2, status2, slice2) ==
    [s EXCEPT !.cur = cur2, !.status = status2, !.slice = slice2]

\* What these assignments leave alone.
LEMMA ReadyFields ==
    ASSUME NEW s \in Data, NEW cur2 \in [CPUs -> Pointers],
           NEW status2 \in [Threads -> {"NEW", "READY", "SLEEP", "DEAD"}],
           NEW slice2 \in [Threads -> Nat],
           NEW r, r = WithFields(s, cur2, status2, slice2)
    PROVE  /\ r \in Data /\ r.cur = cur2 /\ r.status = status2 /\ r.ticks = s.ticks
           /\ r.wakeup_time = s.wakeup_time
           /\ r.next = s.next /\ r.threads = s.threads /\ r.wakeups = s.wakeups
BY DEF Data, WithFields

\* ready_thread makes a thread of the ready list the current one.
LEMMA Readies ==
    ASSUME NumCpus = 1, NEW s \in Data, NEW A, NEW B, Linked(s, A, B), NEW t \in A,
           NEW dead \in SUBSET Threads, t \notin dead,
           \A u \in Threads : s.status[u] \in {"READY", "SLEEP"} => u \in A \cup B,
           \A u \in dead : s.status[u] = "DEAD" /\ u \notin A \cup B,
           \A u \in A : s.status[u] # "SLEEP" \/ u = t,
           NEW r, r = ready_thread(s, 0, t)
    PROVE  /\ Settled(r, A, B, dead) /\ r.cur[0] = t /\ r.status[t] = "READY"
           /\ r.ticks = s.ticks /\ r.wakeup_time = s.wakeup_time
<1>1. A \subseteq Threads /\ CPUs = {0}
  BY LinkedIs, OnlyCpu
<1>2. PICK cur2, status2, slice2 :
         /\ cur2 = [s.cur EXCEPT ![0] = t] /\ status2 = [s.status EXCEPT ![t] = "READY"]
         /\ slice2 = [s.slice EXCEPT ![t] = 0]
  OBVIOUS
<1>3. r = WithFields(s, cur2, status2, slice2)
  BY <1>2 DEF ready_thread, WithFields
<1>4. /\ cur2 \in [CPUs -> Pointers] /\ cur2[0] = t
      /\ status2 \in [Threads -> {"NEW", "READY", "SLEEP", "DEAD"}] /\ status2[t] = "READY"
      /\ \A u \in Threads : u # t => status2[u] = s.status[u]
      /\ slice2 \in [Threads -> Nat]
  <2>1. /\ s.cur \in [CPUs -> Pointers] /\ s.slice \in [Threads -> Nat]
        /\ s.status \in [Threads -> {"NEW", "READY", "SLEEP", "DEAD"}]
        /\ t \in Threads /\ t \in Pointers
    BY <1>1 DEF Data, Pointers
  <2> QED
    BY <1>1, <1>2, <2>1
<1>5. /\ r \in Data /\ r.cur = cur2 /\ r.status = status2 /\ r.ticks = s.ticks
      /\ r.wakeup_time = s.wakeup_time
      /\ r.next = s.next /\ r.threads = s.threads /\ r.wakeups = s.wakeups
  BY <1>3, <1>4, ReadyFields
<1>6. Linked(r, A, B)
  BY <1>5 DEF Linked
<1>7. /\ \A u \in Threads : status2[u] \in {"READY", "SLEEP"} => u \in A \cup B
      /\ \A u \in dead : status2[u] = "DEAD" /\ u \notin A \cup B
      /\ \A u \in A : status2[u] # "SLEEP"
  BY <1>1, <1>4
<1> QED
  BY <1>4, <1>5, <1>6, <1>7 DEF Settled

\* scheduler_next_thread returns a thread of the ready list if it has one.
LEMMA NextReady ==
    ASSUME NEW s, NEW A, NEW B, Linked(s, A, B), s.cur[0] # NULL => s.cur[0] \in A,
           NEW t, t = scheduler_next_thread(s, 0, s.cur[0])
    PROVE  IF A = {} THEN t = NULL ELSE t \in A
<1>1. /\ s.threads[0] \in A \cup {NULL} /\ (s.threads[0] = NULL <=> A = {})
      /\ \A u \in A : s.next[u] \in A \cup {NULL}
  BY LinkedIs
<1> QED
  BY <1>1 DEF scheduler_next_thread

\* Lines 56 to 68: a sleeper that is due, else a ready thread, else idle.
LEMMA Dispatches ==
    ASSUME NumCpus = 1, NEW s, NEW A, NEW B, NEW dead \in SUBSET Threads,
           Settled(s, A, B, dead), NEW x, x = Dispatch(s, 0)
    PROVE  Some(x.k, dead) /\ Resumed(s, x, dead)
<1>1. /\ s \in Data /\ Linked(s, A, B) /\ (s.cur[0] # NULL => s.cur[0] \in A)
      /\ \A t \in Threads : s.status[t] \in {"READY", "SLEEP"} => t \in A \cup B
      /\ \A t \in dead : s.status[t] = "DEAD" /\ t \notin A \cup B
      /\ \A t \in A : s.status[t] # "SLEEP"
  BY DEF Settled
<1>2. A \subseteq Threads /\ B \subseteq Threads /\ A \cap B = {}
  BY <1>1, LinkedIs
<1>3. PICK w, t : w = s.wakeups[0] /\ t = scheduler_next_thread(s, 0, s.cur[0])
  OBVIOUS
<1>4. IF A = {} THEN t = NULL ELSE t \in A
  BY <1>1, <1>3, NextReady
<1>5. NULL \notin Threads /\ IDLE \notin Threads
  BY SchedulerAssumption
<1>6. CASE w # NULL /\ s.wakeup_time[w] <= s.ticks[0]
  <2>1. PICK a : a = scheduler_add_thread(s, w)
    OBVIOUS
  <2>2. PICK g : g = [a EXCEPT !.wakeups[0] = s.next[w]]
    OBVIOUS
  <2>3. Relinked(g, s) /\ Linked(g, A \cup {w}, B \ {w}) /\ w \in B
    BY <1>1, <1>3, <1>6, <2>1, <2>2, WakeFirst
  <2>4. x.k = ready_thread(g, 0, w) /\ x.run = w
    BY <1>3, <1>6, <2>1, <2>2 DEF Dispatch
  <2>5. PICK A2, B2, r : A2 = A \cup {w} /\ B2 = B \ {w} /\ r = x.k
    OBVIOUS
  <2>6. /\ g \in Data /\ Linked(g, A2, B2) /\ w \in A2 /\ w \notin dead
        /\ g.status = s.status /\ g.ticks = s.ticks /\ g.wakeup_time = s.wakeup_time
    BY <1>1, <2>3, <2>5 DEF Relinked
  <2>7. /\ \A u \in Threads : g.status[u] \in {"READY", "SLEEP"} => u \in A2 \cup B2
        /\ \A u \in dead : g.status[u] = "DEAD" /\ u \notin A2 \cup B2
        /\ \A u \in A2 : g.status[u] # "SLEEP" \/ u = w
    BY <1>1, <2>3, <2>5, <2>6
  <2>8. /\ Settled(r, A2, B2, dead) /\ r.cur[0] = w /\ r.ticks = g.ticks
        /\ r.wakeup_time = g.wakeup_time
    <3>1. r = ready_thread(g, 0, w)
      BY <2>4, <2>5
    <3> QED
      BY <2>6, <2>7, <3>1, Readies
  <2>9. Some(x.k, dead)
    BY <2>5, <2>8 DEF Some
  <2>10. Resumed(s, x, dead)
    BY <1>2, <1>6, <2>3, <2>4, <2>5, <2>6, <2>8 DEF Resumed
  <2> QED
    BY <2>9, <2>10
<1>7. CASE ~ (w # NULL /\ s.wakeup_time[w] <= s.ticks[0]) /\ A # {}
  <2>1. x.k = ready_thread(s, 0, t) /\ x.run = t /\ t \in A
    BY <1>2, <1>3, <1>4, <1>5, <1>7 DEF Dispatch
  <2>2. PICK r : r = x.k
    OBVIOUS
  <2>3. /\ Settled(r, A, B, dead) /\ r.cur[0] = t /\ r.ticks = s.ticks
        /\ r.wakeup_time = s.wakeup_time
    <3>1. r = ready_thread(s, 0, t) /\ t \notin dead
      BY <1>1, <2>1, <2>2
    <3>2. \A u \in A : s.status[u] # "SLEEP" \/ u = t
      BY <1>1
    <3> QED
      BY <1>1, <2>1, <3>1, <3>2, Readies
  <2>4. Some(x.k, dead)
    BY <2>2, <2>3 DEF Some
  <2>5. Resumed(s, x, dead)
    BY <1>1, <1>2, <2>1, <2>2, <2>3 DEF Resumed
  <2> QED
    BY <2>4, <2>5
<1>8. CASE ~ (w # NULL /\ s.wakeup_time[w] <= s.ticks[0]) /\ A = {}
  <2>1. x.k = s /\ x.run = IDLE
    BY <1>3, <1>4, <1>8 DEF Dispatch
  <2>2. s.cur[0] = NULL
    BY <1>1, <1>8
  <2>3. Some(x.k, dead)
    BY <2>1 DEF Some
  <2> QED
    BY <1>5, <2>1, <2>2, <2>3 DEF Resumed
<1> QED
  BY <1>6, <1>7, <1>8

\* If the current thread can go on, or there is none, all is settled.
LEMMA OrderlySettled ==
    ASSUME NEW s, NEW A, NEW B, NEW dead \in SUBSET Threads, Orderly(s, A, B, dead),
           s.cur[0] = NULL \/ s.status[s.cur[0]] \notin {"SLEEP", "DEAD"}
    PROVE  Settled(s, A, B, dead)
<1>1. A \subseteq Threads /\ NULL \notin Threads
  BY LinkedIs, SchedulerAssumption DEF Orderly
<1>2. \A t \in A : s.status[t] # "SLEEP"
  BY <1>1 DEF Orderly
<1>3. \A t \in dead : s.status[t] = "DEAD" /\ t \notin A \cup B
  BY <1>1 DEF Orderly
<1> QED
  BY <1>2, <1>3 DEF Orderly, Settled

\* Counting the time slice changes nothing else.
LEMMA Counts ==
    ASSUME NEW s \in Data, s.cur[0] \in Threads, NEW r, r = CountSlice(s, 0)
    PROVE  /\ Relinked(r, s)
           /\ r.next = s.next /\ r.threads = s.threads /\ r.wakeups = s.wakeups
<1>1. CASE r = s
  BY <1>1 DEF Relinked
<1>2. CASE r # s
  <2>1. PICK slice2 : slice2 = [s.slice EXCEPT ![s.cur[0]] = s.slice[s.cur[0]] + 1]
    OBVIOUS
  <2>2. s.slice \in [Threads -> Nat]
    BY DEF Data
  <2>3. slice2 \in [Threads -> Nat]
    BY <2>1, <2>2
  <2>4. r = [s EXCEPT !.slice = slice2]
    BY <1>2, <2>1 DEF CountSlice
  <2> QED
    BY <2>3, <2>4 DEF Relinked, Data
<1> QED
  BY <1>1, <1>2

\* What is orderly stays so when only the slice is counted.
LEMMA CountedOrderly ==
    ASSUME NEW s, NEW A, NEW B, NEW dead, Orderly(s, A, B, dead), NEW r, Relinked(r, s),
           r.next = s.next, r.threads = s.threads, r.wakeups = s.wakeups
    PROVE  Orderly(r, A, B, dead)
<1>1. r \in Data /\ r.cur = s.cur /\ r.status = s.status
  BY DEF Relinked
<1>2. Linked(r, A, B)
  BY DEF Orderly, Linked
<1> QED
  BY <1>1, <1>2 DEF Orderly

\* Lines 30 to 53: a dead thread leaves the lists, a sleeping one moves to the
\* wakeups, any other stays current and ready.
LEMMA GivesUp ==
    ASSUME NumCpus = 1, NEW s, NEW A, NEW B, NEW dead \in SUBSET Threads,
           Orderly(s, A, B, dead), s.cur[0] # NULL, NEW r, r = GiveUpCpu(s, 0)
    PROVE  /\ Some(r, dead) /\ r.ticks = s.ticks /\ r.wakeup_time = s.wakeup_time
           /\ \A u \in Threads : s.status[u] = "SLEEP" => r.status[u] = "SLEEP"
<1>1. PICK t : t = s.cur[0]
  OBVIOUS
<1>2. /\ s \in Data /\ Linked(s, A, B) /\ t \in A
      /\ \A u \in Threads : s.status[u] \in {"READY", "SLEEP"} => u \in A \cup B
      /\ \A u \in dead : s.status[u] = "DEAD" /\ (u = t \/ u \notin A \cup B)
      /\ \A u \in A : s.status[u] = "SLEEP" => u = t
  BY <1>1 DEF Orderly
<1>3. A \subseteq Threads /\ B \subseteq Threads /\ A \cap B = {} /\ CPUs = {0}
  BY <1>2, LinkedIs, OnlyCpu
<1>4. CASE s.status[t] = "DEAD"
  <2>1. PICK g : g = scheduler_remove_thread(s, 0, t)
    OBVIOUS
  <2>2. Relinked(g, s) /\ Linked(g, A \ {t}, B)
    BY <1>2, <2>1, RemoveThread
  <2>3. r = [g EXCEPT !.cur[0] = NULL]
    BY <1>1, <1>4, <2>1 DEF GiveUpCpu
  <2>4. PICK cur2 : cur2 = [g.cur EXCEPT ![0] = NULL]
    OBVIOUS
  <2>5. /\ g \in Data /\ g.status = s.status /\ g.ticks = s.ticks
        /\ g.wakeup_time = s.wakeup_time
    BY <2>2 DEF Relinked
  <2>6. cur2 \in [CPUs -> Pointers] /\ cur2[0] = NULL /\ r = [g EXCEPT !.cur = cur2]
    <3>1. g.cur \in [CPUs -> Pointers] /\ NULL \in Pointers
      BY <2>5 DEF Data, Pointers
    <3> QED
      BY <1>3, <2>3, <2>4, <3>1
  <2>7. /\ r \in Data /\ r.cur = cur2 /\ r.status = s.status /\ r.ticks = s.ticks
        /\ r.wakeup_time = s.wakeup_time
        /\ r.next = g.next /\ r.threads = g.threads /\ r.wakeups = g.wakeups
    BY <2>5, <2>6 DEF Data
  <2>8. PICK A2 : A2 = A \ {t}
    OBVIOUS
  <2>9. Linked(r, A2, B)
    BY <2>2, <2>7, <2>8 DEF Linked
  <2>10. /\ \A u \in Threads : s.status[u] \in {"READY", "SLEEP"} => u \in A2 \cup B
         /\ \A u \in dead : s.status[u] = "DEAD" /\ u \notin A2 \cup B
         /\ \A u \in A2 : s.status[u] # "SLEEP"
    BY <1>2, <1>3, <1>4, <2>8
  <2>11. Settled(r, A2, B, dead)
    BY <2>6, <2>7, <2>9, <2>10 DEF Settled
  <2> QED
    BY <2>7, <2>11 DEF Some
<1>5. CASE s.status[t] = "SLEEP"
  <2>1. r = PutToSleep(s, 0, t)
    BY <1>1, <1>5 DEF GiveUpCpu
  <2>2. /\ r \in Data /\ Linked(r, A \ {t}, B \cup {t}) /\ r.cur[0] = NULL
        /\ r.status = s.status /\ r.ticks = s.ticks /\ r.wakeup_time = s.wakeup_time
    <3>1. s \in Data /\ Linked(s, A, B) /\ t \in A
      BY <1>2
    <3>2. PICK g : g = PutToSleep(s, 0, t)
      OBVIOUS
    <3>3. Slept(g, s, t, A, B)
      BY <3>1, <3>2, GoesToSleep
    <3> QED
      BY <2>1, <3>2, <3>3 DEF Slept
  <2>3. PICK A2, B2 : A2 = A \ {t} /\ B2 = B \cup {t}
    OBVIOUS
  <2>4. /\ \A u \in Threads : s.status[u] \in {"READY", "SLEEP"} => u \in A2 \cup B2
        /\ \A u \in dead : s.status[u] = "DEAD" /\ u \notin A2 \cup B2
        /\ \A u \in A2 : s.status[u] # "SLEEP"
    BY <1>2, <1>3, <1>5, <2>3
  <2>5. Settled(r, A2, B2, dead)
    BY <2>2, <2>3, <2>4 DEF Settled
  <2> QED
    BY <2>2, <2>5 DEF Some
<1>6. CASE s.status[t] \notin {"DEAD", "SLEEP"}
  <2>1. PICK status2 : status2 = [s.status EXCEPT ![t] = "READY"]
    OBVIOUS
  <2>2. s.status \in [Threads -> {"NEW", "READY", "SLEEP", "DEAD"}] /\ t \in Threads
    BY <1>2, <1>3 DEF Data
  <2>3. /\ status2 \in [Threads -> {"NEW", "READY", "SLEEP", "DEAD"}] /\ status2[t] = "READY"
        /\ \A u \in Threads : u # t => status2[u] = s.status[u]
    BY <2>1, <2>2
  <2>4. r = [s EXCEPT !.status = status2]
    <3>1. r = [s EXCEPT !.status[t] = "READY"]
      BY <1>1, <1>6 DEF GiveUpCpu
    <3> QED
      BY <2>1, <3>1
  <2>5. /\ r \in Data /\ r.cur = s.cur /\ r.status = status2 /\ r.ticks = s.ticks
        /\ r.wakeup_time = s.wakeup_time
        /\ r.next = s.next /\ r.threads = s.threads /\ r.wakeups = s.wakeups
    BY <1>2, <2>3, <2>4 DEF Data
  <2>6. Linked(r, A, B)
    BY <1>2, <2>5 DEF Linked
  <2>7. /\ \A u \in Threads : status2[u] \in {"READY", "SLEEP"} => u \in A \cup B
        /\ \A u \in dead : status2[u] = "DEAD" /\ u \notin A \cup B
        /\ \A u \in A : status2[u] # "SLEEP"
    BY <1>2, <1>3, <1>6, <2>3
  <2>8. Settled(r, A, B, dead)
    BY <1>1, <1>2, <2>5, <2>6, <2>7 DEF Settled
  <2>9. \A u \in Threads : s.status[u] = "SLEEP" => status2[u] = "SLEEP"
    BY <1>6, <2>3
  <2> QED
    BY <2>5, <2>8, <2>9 DEF Some
<1> QED
  BY <1>4, <1>5, <1>6

\* schedule leaves things settled and resumes what it should.
LEMMA Schedules ==
    ASSUME NumCpus = 1, NEW s, NEW A, NEW B, NEW dead \in SUBSET Threads,
           Orderly(s, A, B, dead), NEW from \in Threads \cup {IDLE, BOOT},
           s.cur[0] # NULL => from = s.cur[0], from \in Threads => s.cur[0] = from,
           DebugReturn => s.cur[0] = NULL, NEW x, x \in schedule(s, 0, from)
    PROVE  /\ Some(x.k, dead) /\ Resumed(s, x, dead)
           /\ DebugReturn => x.k.cur[0] = NULL
<1>1. /\ s \in Data /\ Linked(s, A, B) /\ (s.cur[0] # NULL => s.cur[0] \in A)
  BY DEF Orderly
<1>2. /\ A \subseteq Threads /\ (s.threads[0] = NULL <=> A = {})
      /\ NULL \notin Threads /\ IDLE \notin Threads
  BY <1>1, LinkedIs, SchedulerAssumption
<1>3. CASE DebugReturn \/ (s.threads[0] = NULL /\ s.wakeups[0] = NULL)
  <2>1. x = [k |-> s, run |-> IDLE]
    BY <1>3 DEF schedule
  <2>2. s.cur[0] = NULL
    BY <1>1, <1>2, <1>3
  <2>3. Settled(s, A, B, dead)
    BY <2>2, OrderlySettled
  <2> QED
    BY <1>2, <2>1, <2>2, <2>3 DEF Some, Resumed
<1>4. CASE ~ (DebugReturn \/ (s.threads[0] = NULL /\ s.wakeups[0] = NULL)) /\ s.cur[0] = NULL
  <2>1. x = Dispatch(s, 0) /\ ~ DebugReturn
    BY <1>4 DEF schedule
  <2>2. Settled(s, A, B, dead)
    BY <1>4, OrderlySettled
  <2> QED
    BY <2>1, <2>2, Dispatches
<1>5. CASE /\ ~ (DebugReturn \/ (s.threads[0] = NULL /\ s.wakeups[0] = NULL))
           /\ s.cur[0] # NULL
  <2>0. PICK t : t = s.cur[0] /\ t \in Threads /\ from = t
    BY <1>1, <1>2, <1>5
  <2>1. PICK c : c = CountSlice(s, 0)
    OBVIOUS
  <2>2. Relinked(c, s) /\ c.next = s.next /\ c.threads = s.threads /\ c.wakeups = s.wakeups
    BY <1>1, <2>0, <2>1, Counts
  <2>3. /\ c.cur = s.cur /\ c.status = s.status /\ c.ticks = s.ticks
        /\ c.wakeup_time = s.wakeup_time
    BY <2>2 DEF Relinked
  <2>4. Orderly(c, A, B, dead)
    BY <2>2, CountedOrderly
  <2>5. CASE KeepsCpu(s, 0)
    <3>1. x.k = c /\ x.run = from
      BY <1>5, <2>1, <2>5 DEF schedule
    <3>2. s.status[t] \notin {"SLEEP", "DEAD"}
      BY <2>0, <2>5 DEF KeepsCpu, Stopped
    <3>3. Settled(c, A, B, dead)
      BY <2>0, <2>3, <2>4, <3>2, OrderlySettled
    <3>4. t \notin dead
      BY <3>2 DEF Orderly
    <3> QED
      BY <1>5, <2>0, <2>3, <3>1, <3>2, <3>3, <3>4 DEF Some, Resumed
  <2>6. CASE ~ KeepsCpu(s, 0)
    <3>1. PICK g : g = GiveUpCpu(c, 0)
      OBVIOUS
    <3>2. x = Dispatch(g, 0) /\ ~ DebugReturn
      BY <1>5, <2>1, <2>6, <3>1 DEF schedule
    <3>3. /\ Some(g, dead) /\ g.ticks = c.ticks /\ g.wakeup_time = c.wakeup_time
          /\ \A u \in Threads : c.status[u] = "SLEEP" => g.status[u] = "SLEEP"
      <4>1. c.cur[0] # NULL
        BY <1>5, <2>3
      <4> QED
        BY <2>4, <3>1, <4>1, GivesUp
    <3>4. PICK A2, B2 : Settled(g, A2, B2, dead)
      BY <3>3 DEF Some
    <3>5. Some(x.k, dead) /\ Resumed(g, x, dead)
      BY <3>2, <3>4, Dispatches
    <3>6. Resumed(s, x, dead)
      BY <2>3, <3>3, <3>5 DEF Resumed
    <3> QED
      BY <3>2, <3>5, <3>6
  <2> QED
    BY <2>5, <2>6
<1> QED
  BY <1>3, <1>4, <1>5

-----------------------------------------------------------------------------
(* The invariant *)

\* How far a thread can be, and where its status can be SLEEP.
Places == {"user", "sleep", "syscall", "leave", "yield", "exit", "exited"}
Asleeping == {"syscall", "leave", "yield"}

TypeOK ==
    /\ k \in Data
    /\ running \in [CPUs -> Threads \cup {IDLE, BOOT}]
    /\ at \in [Threads -> Places]
    /\ arg \in [Threads -> Nat] /\ timer \in [CPUs -> BOOLEAN]
    /\ torn \subseteq Threads /\ wild \in BOOLEAN

Ready == Listed(k, k.threads[0])
Asleep == Listed(k, k.wakeups[0])

\* The current thread is in the ready list and on the CPU; no other thread is.
CurInv ==
    /\ k.cur[0] # NULL => k.cur[0] \in Ready /\ running[0] = k.cur[0]
    /\ running[0] \in Threads => k.cur[0] = running[0]
    /\ DebugReturn => k.cur[0] = NULL

\* Where a thread is, by its status and by how far it is.
StatusInv ==
    \A t \in Threads :
        /\ k.status[t] \in {"READY", "SLEEP"} => t \in Ready \cup Asleep
        /\ at[t] = "exited" => k.status[t] = "DEAD" /\ (t = running[0] \/ t \notin Ready \cup Asleep)
        /\ k.status[t] = "SLEEP" /\ t \in Ready
               => t = running[0] /\ at[t] \in Asleeping

SchedInv == TypeOK /\ Linked(k, Ready, Asleep) /\ CurInv /\ StatusInv

\* The threads that have exited.
Exited == {t \in Threads : at[t] = "exited"}

\* The invariant is what schedule expects.
LEMMA InvOrderly == ASSUME NumCpus = 1, SchedInv PROVE Orderly(k, Ready, Asleep, Exited)
<1>1. k \in Data /\ Linked(k, Ready, Asleep) /\ CurInv /\ StatusInv
  BY DEF SchedInv, TypeOK
<1>2. Ready \subseteq Threads
  BY <1>1, LinkedIs
<1>3. \A t \in Threads : t = running[0] => t = k.cur[0]
  BY <1>1 DEF CurInv
<1> QED
  BY <1>1, <1>2, <1>3 DEF Orderly, CurInv, StatusInv, Exited

\* What schedule leaves behind gives the invariant again.
LEMMA SettledInv ==
    ASSUME NumCpus = 1, TypeOK', Some(k', Exited'),
           k.cur[0]' # NULL => running[0]' = k.cur[0]', running[0]' \in Threads => k.cur[0]' = running[0]',
           DebugReturn => k.cur[0]' = NULL
    PROVE  SchedInv'
<1>1. PICK s : s = k'
  OBVIOUS
<1>2. PICK A, B : Settled(s, A, B, Exited')
  BY <1>1 DEF Some
<1>3. Linked(s, A, B)
  BY <1>2 DEF Settled
<1>4. Listed(s, s.threads[0]) = A /\ Listed(s, s.wakeups[0]) = B
  BY <1>3, LinkedIs
<1>5. Ready' = A /\ Asleep' = B
  BY <1>1, <1>4 DEF Ready, Asleep
<1>6. Linked(k', Ready', Asleep')
  BY <1>1, <1>3, <1>5
<1>7. CurInv'
  BY <1>1, <1>2, <1>5 DEF CurInv, Settled
<1>8. StatusInv'
  BY <1>1, <1>2, <1>5 DEF StatusInv, Settled, Exited
<1> QED
  BY <1>6, <1>7, <1>8 DEF SchedInv

\* What the periodic handler does on the only CPU.
HandlerStep ==
    /\ k' \in Data /\ Some(k', Exited)
    /\ running' \in [CPUs -> Threads \cup {IDLE, BOOT}]
    /\ k'.cur[0] # NULL => running'[0] = k'.cur[0]
    /\ running'[0] \in Threads => k'.cur[0] = running'[0]
    /\ DebugReturn => k'.cur[0] = NULL
    /\ arg' = arg /\ timer' = timer /\ torn' \subseteq Threads /\ wild' \in BOOLEAN
    /\ running'[0] \notin Exited
    /\ \A t \in Threads :
           running'[0] = t /\ k.status[t] = "SLEEP" /\ k'.status[t] # "SLEEP"
               => k'.wakeup_time[t] <= k'.ticks[0]

\* Counting a tick changes nothing but the time.
LEMMA Ticks ==
    ASSUME NumCpus = 1, NEW s \in Data, NEW r, r = CountTick(s, 0)
    PROVE  /\ r \in Data /\ r.cur = s.cur /\ r.status = s.status
           /\ r.next = s.next /\ r.threads = s.threads /\ r.wakeups = s.wakeups
<1>1. CPUs = {0} /\ s.ticks \in [CPUs -> Nat] /\ s.wakeup_time \in [Threads -> Nat]
  BY OnlyCpu DEF Data
<1>2. PICK ticks2, time2 :
        /\ ticks2 = [s.ticks EXCEPT ![0] = s.ticks[0] + 1]
        /\ time2 = [t \in Threads |-> IF s.wakeup_time[t] > 0 THEN s.wakeup_time[t] - 1 ELSE 0]
  OBVIOUS
<1>3. ticks2 \in [CPUs -> Nat] /\ time2 \in [Threads -> Nat]
  BY <1>1, <1>2
<1>4. r = [s EXCEPT !.ticks = ticks2] \/ r = [s EXCEPT !.wakeup_time = time2]
  BY <1>2 DEF CountTick
<1> QED
  BY <1>3, <1>4 DEF Data

\* The tick is counted, then schedule is called.
LEMMA HandlerDoes ==
    ASSUME NumCpus = 1, SchedInv, apic_periodic_handler(0) PROVE HandlerStep
<1>1. PICK from, e : from = running[0] /\ e = CountTick(k, 0)
  OBVIOUS
<1>2. PICK x \in schedule(e, 0, from) :
        /\ k' = x.k /\ running' = [running EXCEPT ![0] = x.run]
        /\ torn' = (IF InSyscall(from) /\ x.run # from THEN torn \cup {from} ELSE torn)
        /\ wild' = (x.run # from /\ x.run \in torn)
        /\ arg' = arg /\ timer' = timer
  BY <1>1 DEF apic_periodic_handler
<1>3. /\ k \in Data /\ CPUs = {0} /\ running \in [CPUs -> Threads \cup {IDLE, BOOT}]
      /\ torn \subseteq Threads /\ Exited \in SUBSET Threads
  BY OnlyCpu DEF SchedInv, TypeOK, Exited
<1>4. /\ e \in Data /\ e.cur = k.cur /\ e.status = k.status
      /\ e.next = k.next /\ e.threads = k.threads /\ e.wakeups = k.wakeups
  BY <1>1, <1>3, Ticks
<1>5. Orderly(e, Ready, Asleep, Exited)
  <2>1. PICK s : s = k
    OBVIOUS
  <2>2. Orderly(s, Ready, Asleep, Exited)
    BY <2>1, InvOrderly
  <2>3. Linked(e, Ready, Asleep)
    BY <1>4, <2>1, <2>2 DEF Orderly, Linked
  <2> QED
    BY <1>4, <2>1, <2>2, <2>3 DEF Orderly
<1>6. /\ from \in Threads \cup {IDLE, BOOT}
      /\ e.cur[0] # NULL => from = e.cur[0]
      /\ from \in Threads => e.cur[0] = from
      /\ DebugReturn => e.cur[0] = NULL
  BY <1>1, <1>3, <1>4 DEF SchedInv, CurInv
<1>7. /\ Some(x.k, Exited) /\ Resumed(e, x, Exited)
      /\ DebugReturn => x.k.cur[0] = NULL
  <2>1. PICK A, B, dead : A = Ready /\ B = Asleep /\ dead = Exited
    OBVIOUS
  <2>2. Orderly(e, A, B, dead) /\ dead \in SUBSET Threads
    BY <1>3, <1>5, <2>1
  <2>3. /\ Some(x.k, dead) /\ Resumed(e, x, dead)
        /\ DebugReturn => x.k.cur[0] = NULL
    BY <1>2, <1>6, <2>2, Schedules
  <2> QED
    BY <2>1, <2>3
<1>8. x.k \in Data
  BY <1>7 DEF Some, Settled
<1>9. running' \in [CPUs -> Threads \cup {IDLE, BOOT}] /\ running'[0] = x.run
  BY <1>2, <1>3, <1>7 DEF Resumed
<1>10. torn' \subseteq Threads /\ wild' \in BOOLEAN
  BY <1>2, <1>3 DEF InSyscall
<1>11. ASSUME NEW t \in Threads, x.run = t, k.status[t] = "SLEEP", x.k.status[t] # "SLEEP"
       PROVE  x.k.wakeup_time[t] <= x.k.ticks[0]
  BY <1>4, <1>7, <1>11 DEF Resumed
<1> QED
  BY <1>2, <1>7, <1>8, <1>9, <1>10, <1>11 DEF HandlerStep, Resumed

\* A step that calls the handler and at most moves a thread from its yield to
\* user code keeps the invariant.
LEMMA HandlerInv ==
    ASSUME NumCpus = 1, SchedInv, apic_periodic_handler(0),
           at' \in [Threads -> Places], Exited' = Exited
    PROVE  SchedInv'
<1>1. HandlerStep
  BY HandlerDoes
<1>2. arg \in [Threads -> Nat] /\ timer \in [CPUs -> BOOLEAN]
  BY DEF SchedInv, TypeOK
<1>3. TypeOK'
  BY <1>1, <1>2 DEF TypeOK, HandlerStep
<1> QED
  BY <1>1, <1>3, SettledInv DEF HandlerStep

\* The steps that call the handler.
Handles(c) == Tick(c) \/ Yield(c) \/ YieldDead(c)

\* They keep the invariant.
LEMMA HandlesInv == ASSUME NumCpus = 1, SchedInv, Handles(0) PROVE SchedInv'
<1>1. at \in [Threads -> Places]
  BY DEF SchedInv, TypeOK
<1>2. apic_periodic_handler(0)
  BY DEF Handles, Tick, Yield, YieldDead
<1>3. CASE at' = at
  <2>1. Exited' = Exited
    BY <1>3 DEF Exited
  <2> QED
    BY <1>1, <1>2, <1>3, <2>1, HandlerInv
<1>4. CASE Yield(0)
  <2>1. PICK t : t \in Threads /\ at[t] \in {"user", "yield"} /\ at' = [at EXCEPT ![t] = "user"]
    BY <1>4 DEF Yield
  <2>2. /\ at' \in [Threads -> Places]
        /\ \A u \in Threads : at'[u] = "exited" <=> at[u] = "exited"
    BY <1>1, <2>1 DEF Places
  <2>3. Exited' = Exited
    BY <2>2 DEF Exited
  <2> QED
    BY <1>2, <2>2, <2>3, HandlerInv
<1> QED
  BY <1>3, <1>4 DEF Handles, Tick, YieldDead

\* A thread that is on no list is added.
LEMMA AddInv == ASSUME NumCpus = 1, SchedInv, NEW t \in Threads, AddThread(t) PROVE SchedInv'
<1>1. /\ k \in Data /\ Linked(k, Ready, Asleep) /\ CurInv /\ StatusInv /\ TypeOK /\ CPUs = {0}
  BY OnlyCpu DEF SchedInv, TypeOK
<1>2. /\ running[0] = BOOT /\ k.status[t] = "NEW" /\ k' = scheduler_add_thread(k, t)
      /\ UNCHANGED <<running, at, arg, timer, torn, wild>>
  BY DEF AddThread
<1>3. t \notin Ready \cup Asleep
  <2>1. 0 \in CPUs
    BY <1>1
  <2> QED
    BY <2>1 DEF AddThread, Added, Ready, Asleep
<1>4. PICK s, r, A, B : s = k /\ r = k' /\ A = Ready /\ B = Asleep
  OBVIOUS
<1>5. Relinked(r, s) /\ Linked(r, A \cup {t}, B)
  <2>1. s \in Data /\ Linked(s, A, B) /\ t \notin A \cup B /\ r = scheduler_add_thread(s, t)
    BY <1>1, <1>2, <1>3, <1>4
  <2> QED
    BY <2>1, AddLinked
<1>6. Listed(r, r.threads[0]) = A \cup {t} /\ Listed(r, r.wakeups[0]) = B
  <2>1. PICK A2 : A2 = A \cup {t}
    OBVIOUS
  <2>2. Linked(r, A2, B)
    BY <1>5, <2>1
  <2> QED
    BY <2>1, <2>2, LinkedIs
<1>7. Ready' = Ready \cup {t} /\ Asleep' = Asleep
  BY <1>4, <1>6 DEF Ready, Asleep
<1>8. k' \in Data /\ k'.cur = k.cur /\ k'.status = k.status /\ Linked(k', Ready', Asleep')
  BY <1>4, <1>5, <1>7 DEF Relinked
<1>9. TypeOK'
  BY <1>1, <1>2, <1>8 DEF TypeOK
<1>10. CurInv'
  BY <1>1, <1>2, <1>7, <1>8 DEF CurInv
<1>11. StatusInv'
  BY <1>1, <1>2, <1>7, <1>8 DEF StatusInv
<1> QED
  BY <1>8, <1>9, <1>10, <1>11 DEF SchedInv

\* A system call changes the status or the wakeup time of the current thread,
\* and how far it is.
LEMMA CallInv ==
    ASSUME NumCpus = 1, SchedInv, NEW t \in Threads, running[0] = t, at[t] # "exited",
           NEW status2 \in [Threads -> {"NEW", "READY", "SLEEP", "DEAD"}],
           NEW time2 \in [Threads -> Nat], NEW to \in Places,
           k' = [k EXCEPT !.status = status2, !.wakeup_time = time2],
           \A u \in Threads : u # t => status2[u] = k.status[u],
           at' = [at EXCEPT ![t] = to], to = "exited" => status2[t] = "DEAD",
           status2[t] = "SLEEP" => to \in Asleeping,
           arg' \in [Threads -> Nat], UNCHANGED <<running, timer, torn, wild>>
    PROVE  SchedInv'
<1>1. /\ k \in Data /\ Linked(k, Ready, Asleep) /\ CurInv /\ StatusInv /\ TypeOK
  BY DEF SchedInv, TypeOK
<1>2. /\ k' \in Data /\ k'.cur = k.cur /\ k'.status = status2
      /\ k'.next = k.next /\ k'.threads = k.threads /\ k'.wakeups = k.wakeups
  BY <1>1 DEF Data
<1>3. PICK s, r, A, B : s = k /\ r = k' /\ A = Ready /\ B = Asleep
  OBVIOUS
<1>4. Linked(r, A, B)
  BY <1>1, <1>2, <1>3 DEF Linked
<1>5. Listed(r, r.threads[0]) = A /\ Listed(r, r.wakeups[0]) = B
  BY <1>4, LinkedIs
<1>6. Ready' = Ready /\ Asleep' = Asleep
  BY <1>3, <1>5 DEF Ready, Asleep
<1>7. Linked(k', Ready', Asleep')
  BY <1>3, <1>4, <1>6
<1>8. TypeOK'
  BY <1>1, <1>2 DEF TypeOK
<1>9. CurInv'
  BY <1>1, <1>2, <1>6 DEF CurInv
<1>10. /\ at \in [Threads -> Places] /\ t \in Ready
       /\ at'[t] = to /\ \A u \in Threads : u # t => at'[u] = at[u]
  <2>1. at \in [Threads -> Places]
    BY <1>1 DEF TypeOK
  <2>2. t \in Ready
    <3>1. NULL \notin Threads
      BY SchedulerAssumption
    <3> QED
      BY <1>1, <3>1 DEF CurInv
  <2> QED
    BY <2>1, <2>2
<1>11. StatusInv'
  <2>1. ASSUME NEW u \in Threads
        PROVE  /\ status2[u] \in {"READY", "SLEEP"} => u \in Ready \cup Asleep
               /\ at'[u] = "exited"
                      => status2[u] = "DEAD" /\ (u = running[0] \/ u \notin Ready \cup Asleep)
               /\ status2[u] = "SLEEP" /\ u \in Ready
                      => u = running[0] /\ at'[u] \in Asleeping
    <3>1. CASE u = t
      BY <1>10, <3>1
    <3>2. CASE u # t
      BY <1>1, <1>10, <3>2 DEF StatusInv
    <3> QED
      BY <3>1, <3>2
  <2>2. running' = running
    OBVIOUS
  <2> QED
    BY <1>2, <1>6, <2>1, <2>2 DEF StatusInv
<1> QED
  BY <1>7, <1>8, <1>9, <1>11 DEF SchedInv

\* The thread of such a step is the current one.
LEMMA GoesIs ==
    ASSUME NumCpus = 1, SchedInv, NEW from, NEW to, Goes(0, from, to)
    PROVE  /\ running[0] \in Threads /\ k.cur[0] = running[0] /\ running[0] \in Ready
           /\ at[running[0]] = from /\ at' = [at EXCEPT ![running[0]] = to]
           /\ UNCHANGED <<running, timer, torn, wild>>
<1>1. NULL \notin Threads
  BY SchedulerAssumption
<1> QED
  BY <1>1 DEF Goes, SchedInv, CurInv

\* A system call is entered or left.
LEMMA MovesInv ==
    ASSUME NumCpus = 1, SchedInv, NEW from, NEW to \in {"sleep", "exit", "yield"},
           Goes(0, from, to), from \in {"user", "leave"}, from = "leave" => to = "yield",
           k' = k, arg' \in [Threads -> Nat]
    PROVE  SchedInv'
<1>1. PICK t : /\ t = running[0] /\ t \in Threads /\ t \in Ready /\ at[t] = from
               /\ at' = [at EXCEPT ![t] = to] /\ UNCHANGED <<running, timer, torn, wild>>
  BY GoesIs
<1>2. /\ k \in Data /\ k.status \in [Threads -> {"NEW", "READY", "SLEEP", "DEAD"}]
      /\ k.wakeup_time \in [Threads -> Nat]
  BY DEF SchedInv, TypeOK, Data
<1>3. PICK status2, time2 : status2 = k.status /\ time2 = k.wakeup_time
  OBVIOUS
<1>4. k' = [k EXCEPT !.status = status2, !.wakeup_time = time2]
  BY <1>2, <1>3 DEF Data
<1>5. status2[t] = "SLEEP" => to \in Asleeping
  BY <1>1, <1>3 DEF SchedInv, StatusInv, Asleeping
<1>6. to \in Places /\ to # "exited" /\ at[t] # "exited"
  BY <1>1 DEF Places
<1> QED
  BY <1>1, <1>2, <1>3, <1>4, <1>5, <1>6, CallInv

\* Entering the sleep and the exit system call, and leaving the former.
LEMMA EnterLeaveInv ==
    ASSUME NumCpus = 1, SchedInv,
           (\E ms \in Sleeps : SleepCall(0, ms)) \/ SleepReturn(0) \/ ExitCall(0)
    PROVE  SchedInv'
<1>1. arg \in [Threads -> Nat] /\ Sleeps \subseteq Nat
  BY SchedulerAssumption DEF SchedInv, TypeOK
<1>2. ASSUME NEW ms \in Sleeps, SleepCall(0, ms) PROVE SchedInv'
  <2>1. PICK from, to : from = "user" /\ to = "sleep"
    OBVIOUS
  <2>2. Goes(0, from, to) /\ k' = k /\ arg' = [arg EXCEPT ![running[0]] = ms]
    BY <1>2, <2>1 DEF SleepCall
  <2>3. arg' \in [Threads -> Nat]
    BY <1>1, <2>2
  <2> QED
    BY <2>1, <2>2, <2>3, MovesInv
<1>3. CASE SleepReturn(0)
  <2>1. PICK from, to : from = "leave" /\ to = "yield"
    OBVIOUS
  <2>2. Goes(0, from, to) /\ k' = k /\ arg' \in [Threads -> Nat]
    BY <1>1, <1>3, <2>1 DEF SleepReturn
  <2> QED
    BY <2>1, <2>2, MovesInv
<1>4. CASE ExitCall(0)
  <2>1. PICK from, to : from = "user" /\ to = "exit"
    OBVIOUS
  <2>2. Goes(0, from, to) /\ k' = k /\ arg' \in [Threads -> Nat]
    BY <1>1, <1>4, <2>1 DEF ExitCall
  <2> QED
    BY <2>1, <2>2, MovesInv
<1> QED
  BY <1>2, <1>3, <1>4

\* The first assignment of the sleep system call, and that of the exit system call.
LEMMA StatusCallInv ==
    ASSUME NumCpus = 1, SchedInv, SleepBegin(0) \/ Exit(0) PROVE SchedInv'
<1>1. PICK from, to, new :
        /\ Goes(0, from, to) /\ k' = [k EXCEPT !.status[k.cur[0]] = new] /\ arg' = arg
        /\ from # "exited" /\ to \in Places
        /\ new \in {"SLEEP", "DEAD"} /\ (to = "exited" => new = "DEAD")
        /\ (new = "SLEEP" => to \in Asleeping)
  BY DEF SleepBegin, Exit, Places, Asleeping
<1>2. PICK t : /\ t = running[0] /\ t \in Threads /\ k.cur[0] = t /\ at[t] = from
               /\ at' = [at EXCEPT ![t] = to] /\ UNCHANGED <<running, timer, torn, wild>>
  BY <1>1, GoesIs
<1>3. /\ k \in Data /\ k.status \in [Threads -> {"NEW", "READY", "SLEEP", "DEAD"}]
      /\ k.wakeup_time \in [Threads -> Nat] /\ arg \in [Threads -> Nat]
  BY DEF SchedInv, TypeOK, Data
<1>4. PICK status2, time2 : status2 = [k.status EXCEPT ![t] = new] /\ time2 = k.wakeup_time
  OBVIOUS
<1>5. /\ status2 \in [Threads -> {"NEW", "READY", "SLEEP", "DEAD"}] /\ status2[t] = new
      /\ \A u \in Threads : u # t => status2[u] = k.status[u]
  BY <1>1, <1>2, <1>3, <1>4
<1>6. k' = [k EXCEPT !.status = status2, !.wakeup_time = time2]
  BY <1>1, <1>2, <1>3, <1>4 DEF Data
<1>7. arg' \in [Threads -> Nat] /\ time2 \in [Threads -> Nat] /\ at[t] # "exited"
  BY <1>1, <1>2, <1>3, <1>4
<1>8. /\ to \in Places /\ (to = "exited" => status2[t] = "DEAD")
      /\ (status2[t] = "SLEEP" => to \in Asleeping)
  BY <1>1, <1>5
<1>9. /\ t \in Threads /\ running[0] = t /\ at' = [at EXCEPT ![t] = to]
      /\ UNCHANGED <<running, timer, torn, wild>>
  BY <1>2
<1> QED
  BY ONLY NumCpus = 1, SchedInv, <1>5, <1>6, <1>7, <1>8, <1>9, CallInv, ZenonT(40)

\* The second assignment of the sleep system call.
LEMMA SleepEndInv == ASSUME NumCpus = 1, SchedInv, SleepEnd(0) PROVE SchedInv'
<1>1. PICK from, to : from = "syscall" /\ to = "leave"
  OBVIOUS
<1>2. Goes(0, from, to)
  BY <1>1 DEF SleepEnd
<1>3. PICK t : /\ t = running[0] /\ t \in Threads /\ k.cur[0] = t /\ at[t] = from
               /\ at' = [at EXCEPT ![t] = to] /\ UNCHANGED <<running, timer, torn, wild>>
  BY <1>2, GoesIs
<1>4. PICK time2, status2 :
        time2 = [k.wakeup_time EXCEPT ![t] = k.ticks[0] + arg[t]] /\ status2 = k.status
  OBVIOUS
<1>5. /\ k \in Data /\ k.status \in [Threads -> {"NEW", "READY", "SLEEP", "DEAD"}]
      /\ k.wakeup_time \in [Threads -> Nat] /\ arg \in [Threads -> Nat]
      /\ k.ticks \in [CPUs -> Nat] /\ CPUs = {0}
  BY OnlyCpu DEF SchedInv, TypeOK, Data
<1>6. time2 \in [Threads -> Nat]
  BY <1>3, <1>4, <1>5
<1>7. /\ k' = [k EXCEPT !.wakeup_time[t] = k.ticks[0] + arg[t]]
      /\ arg' = [arg EXCEPT ![t] = 0]
  BY <1>3 DEF SleepEnd
<1>8. k' = [k EXCEPT !.status = status2, !.wakeup_time = time2]
  BY <1>4, <1>5, <1>7 DEF Data
<1>9. /\ to \in Places /\ to \in Asleeping /\ to # "exited" /\ at[t] # "exited"
      /\ arg' \in [Threads -> Nat]
  BY <1>1, <1>3, <1>5, <1>7 DEF Places, Asleeping
<1> QED
  BY <1>3, <1>4, <1>5, <1>6, <1>8, <1>9, CallInv

\* A step that changes nothing but the timer.
LEMMA QuietInv ==
    ASSUME SchedInv, UNCHANGED <<k, running, at, arg, torn, wild>>, timer' \in [CPUs -> BOOLEAN]
    PROVE  SchedInv'
<1>1. Ready' = Ready /\ Asleep' = Asleep
  BY DEF Ready, Asleep
<1>2. TypeOK'
  BY DEF SchedInv, TypeOK
<1>3. CurInv'
  BY <1>1 DEF SchedInv, CurInv
<1>4. StatusInv'
  BY <1>1 DEF SchedInv, StatusInv
<1>5. Linked(k', Ready', Asleep')
  BY <1>1 DEF SchedInv
<1> QED
  BY <1>2, <1>3, <1>4, <1>5 DEF SchedInv

\* The steps of the machine, by what they are of.
LEMMA Steps ==
    ASSUME NumCpus = 1, Next
    PROVE  \/ \E t \in Threads : AddThread(t)
           \/ StartTimer(0) \/ Handles(0)
           \/ (\E ms \in Sleeps : SleepCall(0, ms)) \/ SleepReturn(0) \/ ExitCall(0)
           \/ SleepBegin(0) \/ Exit(0) \/ SleepEnd(0) \/ UNCHANGED vars
<1>1. CPUs = {0}
  BY OnlyCpu
<1> QED
  BY <1>1, Zenon DEF Next, Kernel, Handles, Wild

\* Every step keeps the invariant.
LEMMA NextInv == ASSUME NumCpus = 1, SchedInv, [Next]_vars PROVE SchedInv'
<1>1. timer \in [CPUs -> BOOLEAN]
  BY DEF SchedInv, TypeOK
<1>2. CASE UNCHANGED vars
  BY <1>1, <1>2, QuietInv DEF vars
<1>3. CASE StartTimer(0)
  <2>1. timer' \in [CPUs -> BOOLEAN] /\ UNCHANGED <<k, running, at, arg, torn, wild>>
    BY <1>1, <1>3 DEF StartTimer
  <2> QED
    BY <2>1, QuietInv
<1>4. ASSUME NEW t \in Threads, AddThread(t) PROVE SchedInv'
  BY <1>4, AddInv
<1>5. CASE Handles(0)
  BY <1>5, HandlesInv
<1>6. CASE (\E ms \in Sleeps : SleepCall(0, ms)) \/ SleepReturn(0) \/ ExitCall(0)
  BY <1>6, EnterLeaveInv
<1>7. CASE SleepEnd(0)
  BY <1>7, SleepEndInv
<1>8. CASE SleepBegin(0) \/ Exit(0)
  BY <1>8, StatusCallInv
<1> QED
  BY <1>2, <1>3, <1>4, <1>5, <1>6, <1>7, <1>8, Steps

\* Two empty lists and no current thread.
LEMMA InitInv == ASSUME NumCpus = 1, Init PROVE SchedInv
<1>1. CPUs = {0} /\ NULL \notin Threads /\ BOOT \notin Threads
  BY OnlyCpu, SchedulerAssumption
<1>2. TypeOK
  <2>1. NULL \in Pointers
    BY DEF Pointers
  <2>2. k \in Data
    BY <1>1, <2>1 DEF Init, Data
  <2> QED
    BY <2>2 DEF Init, TypeOK, Places
<1>3. k.threads[0] = NULL /\ k.wakeups[0] = NULL /\ k.cur[0] = NULL
      /\ \A t \in Threads : k.status[t] = "NEW" /\ at[t] = "user"
  BY <1>1 DEF Init
<1>4. HasList(k.next, NULL, {})
  <2>1. PICK q, next : q = [i \in 1 .. 0 |-> NULL] /\ next = k.next
    OBVIOUS
  <2>2. Chain(next, q, 0, NULL) /\ {} = Members(q, 0)
    <3>1. 1 .. 0 = {}
      OBVIOUS
    <3>2. q \in [1 .. 0 -> Threads]
      BY <2>1, <3>1
    <3> QED
      BY <3>1, <3>2 DEF Chain, Elem, Members
  <2>3. HasList(next, NULL, {})
    BY <2>2, HasListIntro
  <2> QED
    BY <2>1, <2>3
<1>5. Linked(k, {}, {})
  BY <1>3, <1>4 DEF Linked
<1>6. Ready = {} /\ Asleep = {}
  <2>1. PICK s, A : s = k /\ A = {}
    OBVIOUS
  <2>2. Listed(s, s.threads[0]) = A /\ Listed(s, s.wakeups[0]) = A
    BY <1>5, <2>1, LinkedIs
  <2> QED
    BY <2>1, <2>2 DEF Ready, Asleep
<1>7. running[0] = BOOT
  BY <1>1 DEF Init
<1> QED
  BY <1>1, <1>2, <1>3, <1>5, <1>6, <1>7 DEF SchedInv, CurInv, StatusInv

-----------------------------------------------------------------------------
(* The theorems *)

\* The lists as ListsIntact speaks of them.
LEMMA InvLists == ASSUME NumCpus = 1, SchedInv PROVE ListsIntact
<1>1. /\ Linked(k, Ready, Asleep) /\ CurInv /\ StatusInv /\ CPUs = {0}
  BY OnlyCpu DEF SchedInv
<1>2. PICK s, h, g, A, B : s = k /\ h = k.threads[0] /\ g = k.wakeups[0] /\ A = Ready /\ B = Asleep
  OBVIOUS
<1>3. HasList(s.next, h, A) /\ HasList(s.next, g, B) /\ A \cap B = {}
  BY <1>1, <1>2 DEF Linked
<1>4. Nth(s, h)[Cardinality(Threads)] = NULL
  BY <1>3, ListIs
<1>5. Nth(s, g)[Cardinality(Threads)] = NULL
  BY <1>3, ListIs
<1>6. A = Listed(k, k.threads[0]) /\ B = Listed(k, k.wakeups[0])
  BY <1>2 DEF Ready, Asleep
<1>7. k.cur[0] # NULL => k.cur[0] \in A
  BY <1>1, <1>2 DEF CurInv
<1>8. ASSUME NEW t \in Threads, k.status[t] \in {"READY", "SLEEP"} PROVE Added(t)
  <2>1. t \in A \cup B
    BY <1>1, <1>2, <1>8 DEF StatusInv
  <2> QED
    BY <1>1, <1>6, <2>1 DEF Added
<1>9. ASSUME NEW c \in CPUs
      PROVE  /\ Nth(k, k.threads[c])[Cardinality(Threads)] = NULL
             /\ Nth(k, k.wakeups[c])[Cardinality(Threads)] = NULL
             /\ Listed(k, k.threads[c]) \cap Listed(k, k.wakeups[c]) = {}
             /\ k.cur[c] # NULL => k.cur[c] \in Listed(k, k.threads[c])
  <2>1. c = 0
    BY <1>1, <1>9
  <2> QED
    BY <1>2, <1>3, <1>4, <1>5, <1>6, <1>7, <2>1
<1> QED
  BY <1>8, <1>9 DEF ListsIntact

\* Only the interrupt handler takes a thread's status SLEEP away or gives a CPU
\* to another context: no system call ends a sleep.
LEMMA OtherSteps ==
    ASSUME NumCpus = 1, SchedInv, [Next]_vars, ~ Handles(0)
    PROVE  /\ running' = running
           /\ \A t \in Threads : k.status[t] = "SLEEP" => k'.status[t] = "SLEEP"
<1>1. k \in Data /\ k.status \in [Threads -> {"NEW", "READY", "SLEEP", "DEAD"}]
  BY DEF SchedInv, TypeOK, Data
<1>2. ASSUME NEW t \in Threads, AddThread(t)
      PROVE  running' = running /\ k'.status = k.status
  BY <1>1, <1>2 DEF AddThread, scheduler_add_thread, Data
<1>3. ASSUME SleepBegin(0)
      PROVE  /\ running' = running
             /\ \A t \in Threads : k.status[t] = "SLEEP" => k'.status[t] = "SLEEP"
  BY <1>1, <1>3 DEF SleepBegin, Goes, Data
<1>4. ASSUME SleepEnd(0) PROVE running' = running /\ k'.status = k.status
  BY <1>1, <1>4 DEF SleepEnd, Goes, Data
<1>5. ASSUME Exit(0)
      PROVE  /\ running' = running
             /\ \A t \in Threads : k.status[t] = "SLEEP" => k'.status[t] = "SLEEP"
  <2>1. PICK u : /\ u = running[0] /\ u \in Threads /\ k.cur[0] = u /\ u \in Ready
                 /\ at[u] = "exit" /\ running' = running
                 /\ k' = [k EXCEPT !.status[k.cur[0]] = "DEAD"]
    BY <1>5, GoesIs DEF Exit
  <2>2. k.status[u] # "SLEEP"
    BY <2>1 DEF SchedInv, StatusInv, Asleeping
  <2>3. k'.status = [k.status EXCEPT ![u] = "DEAD"]
    BY <1>1, <2>1 DEF Data
  <2> QED
    BY <1>1, <2>1, <2>2, <2>3
<1>6. ASSUME \/ StartTimer(0) \/ UNCHANGED vars
             \/ (\E ms \in Sleeps : SleepCall(0, ms)) \/ SleepReturn(0) \/ ExitCall(0)
      PROVE  running' = running /\ k' = k
  BY <1>6 DEF StartTimer, vars, SleepCall, SleepReturn, ExitCall, Goes
<1> QED
  BY <1>2, <1>3, <1>4, <1>5, <1>6, Steps

\* What the two action properties say of one step.
NotResumed ==
    \A t \in Threads, c \in CPUs : at[t] = "exited" /\ running[c] # t => running'[c] # t
NotEarly ==
    \A t \in Threads, c \in CPUs :
        /\ k.status[t] = "SLEEP" /\ at[t] # "syscall"
        /\ running'[c] = t /\ k'.status[t] # "SLEEP"
        => k'.ticks[c] >= k'.wakeup_time[t]

\* The step lemma of both.
LEMMA StepActions == ASSUME NumCpus = 1, SchedInv, [Next]_vars PROVE NotResumed /\ NotEarly
<1>1. CPUs = {0}
  BY OnlyCpu
<1>2. CASE Handles(0)
  <2>1. apic_periodic_handler(0)
    BY <1>2 DEF Handles, Tick, Yield, YieldDead
  <2>2. HandlerStep
    BY <2>1, HandlerDoes
  <2>3. /\ running'[0] \notin Exited
        /\ \A t \in Threads :
               running'[0] = t /\ k.status[t] = "SLEEP" /\ k'.status[t] # "SLEEP"
                   => k'.wakeup_time[t] <= k'.ticks[0]
    BY <2>2 DEF HandlerStep
  <2>4. NotResumed
    BY <1>1, <2>3 DEF NotResumed, Exited
  <2>5. NotEarly
    <3>1. SUFFICES ASSUME NEW t \in Threads, k.status[t] = "SLEEP", running'[0] = t,
                          k'.status[t] # "SLEEP"
                   PROVE  k'.ticks[0] >= k'.wakeup_time[t]
      BY <1>1 DEF NotEarly
    <3>2. k'.wakeup_time[t] <= k'.ticks[0]
      BY <2>3, <3>1
    <3>3. k'.wakeup_time[t] \in Nat /\ k'.ticks[0] \in Nat
      BY <1>1, <2>2 DEF HandlerStep, Data
    <3> QED
      BY <3>2, <3>3
  <2> QED
    BY <2>4, <2>5
<1>3. CASE ~ Handles(0)
  BY <1>3, OtherSteps DEF NotResumed, NotEarly
<1> QED
  BY <1>2, <1>3

\* The invariant holds in every reachable state of a machine with one CPU.
LEMMA Invariant == ASSUME NumCpus = 1 PROVE Spec => []SchedInv
<1>1. Init => SchedInv
  BY InitInv
<1>2. SchedInv /\ [Next]_vars => SchedInv'
  BY NextInv
<1> QED
  BY <1>1, <1>2, PTL DEF Spec

\* With one CPU every variable keeps its type: list pointers point to threads or
\* to nothing, and no tick or time is negative (scheduler_data of scheduler.c).
THEOREM TypeCorrect == ASSUME NumCpus = 1 PROVE Spec => []TypeOK
<1>1. SchedInv => TypeOK
  BY DEF SchedInv
<1>2. Spec => []SchedInv
  BY Invariant
<1> QED
  BY <1>1, <1>2, PTL

\* With one CPU, any number of threads, any quantum and any sleep times: the
\* ready list and the list of sleepers always end, share no thread, hold the
\* current thread and every thread that is ready or asleep.  Neither unlinking
\* the current thread, nor inserting it among the sleepers, nor waking the
\* first of them loses or doubles one.
THEOREM ListsStayIntact == ASSUME NumCpus = 1 PROVE Spec => []ListsIntact
<1>1. SchedInv => ListsIntact
  BY InvLists
<1>2. Spec => []SchedInv
  BY Invariant
<1> QED
  BY <1>1, <1>2, PTL

\* With one CPU the registers schedule saves always belong to the thread it
\* saves them into.
THEOREM SavedToItsOwner == ASSUME NumCpus = 1 PROVE Spec => []ContextSavedToOwner
<1>1. SchedInv => ContextSavedToOwner
  BY OnlyCpu DEF SchedInv, CurInv, ContextSavedToOwner
<1>2. Spec => []SchedInv
  BY Invariant
<1> QED
  BY <1>1, <1>2, PTL

\* With one CPU a thread that exited and was taken off the CPU never gets it back.
THEOREM DeadNeverResume == ASSUME NumCpus = 1 PROVE Spec => DeadStayDead
<1>1. SchedInv /\ [Next]_vars => [NotResumed]_vars
  BY StepActions
<1>2. Spec => []SchedInv
  BY Invariant
<1> QED
  BY <1>1, <1>2, PTL DEF Spec, DeadStayDead, NotResumed

\* With one CPU a thread whose sleep was completely stored is given the CPU
\* again only at or after the tick it asked for.
THEOREM SleepsLongEnough == ASSUME NumCpus = 1 PROVE Spec => NoEarlyWake
<1>1. SchedInv /\ [Next]_vars => [NotEarly]_vars
  BY StepActions
<1>2. Spec => []SchedInv
  BY Invariant
<1> QED
  BY <1>1, <1>2, PTL DEF Spec, NoEarlyWake, NotEarly
=============================================================================
