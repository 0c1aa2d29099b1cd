---------------------------- MODULE DeviceProofs ----------------------------
(***************************************************************************)
(* Proofs about devices and their interrupts: Keyboard and Screen, for     *)
(* every size of the screen, every set of keys and any number of bytes     *)
(* between keyboard and handler, and then Interrupts, for every contents   *)
(* of the firmware's tables.                                               *)
(***************************************************************************)
EXTENDS Keyboard, Interrupts, FiniteSetTheorems, WellFoundedInduction, TLAPS

(* The screen *)

Cells == (0 .. Cols - 1) \X (0 .. Rows - 1)

\* Cell c comes before the cell in column x of row y.
Before(c, x, y) == c[2] < y \/ (c[2] = y /\ c[1] < x)

\* A screen whose cursor is on it and behind all ink.
ScreenOK(s) ==
    /\ s \in [x : 0 .. Cols - 1, y : 0 .. Rows - 1, ink : SUBSET Cells]
    /\ \A c \in s.ink : Before(c, s.x, s.y)

\* A nonempty set of naturals has a least element (the loop of find_last_char
\* ends).
LEMMA LeastElement ==
    ASSUME NEW S, S \subseteq Nat, S # {}
    PROVE  \E m \in S : \A k \in S : m <= k
<1>1. \E x \in S : \A y \in S : ~ (<<y, x>> \in OpToRel(<, Nat))
  BY WFMin, NatLessThanWellFounded, Zenon
<1>2. \A x, y \in Nat : y < x => <<y, x>> \in OpToRel(<, Nat)
  BY Zenon DEF OpToRel
<1>3. \E x \in S : \A y \in S : ~ (y < x)
  BY <1>1, <1>2, Zenon
<1> QED
  BY <1>3

\* Leftwards is the last cell with ink in the row, up to column x, or column 0.
LEMMA LeftwardsFinds ==
    ASSUME NEW s, NEW x \in Nat, NEW y
    PROVE  LET i == Leftwards(s, x, y) IN
           /\ i \in 0 .. x
           /\ \A j \in i + 1 .. x : <<j, y>> \notin s.ink
<1> DEFINE Stop(i) == i = 0 \/ <<i, y>> \in s.ink
           S == {d \in 0 .. x : Stop(x - d)}
<1>1. x \in S /\ S \subseteq Nat
  OBVIOUS
<1>2. PICK d \in S : \A e \in S : d <= e
  BY <1>1, LeastElement
<1>3. x - d \in 0 .. x /\ Stop(x - d)
  BY <1>2
<1>4. \A j \in (x - d) + 1 .. x : <<j, y>> \notin s.ink
  <2> SUFFICES ASSUME NEW j \in (x - d) + 1 .. x, <<j, y>> \in s.ink PROVE FALSE
    OBVIOUS
  <2>1. x - j \in 0 .. x /\ x - (x - j) = j /\ x - j < d
    BY <1>2
  <2>2. x - j \in S
    BY <2>1
  <2> QED
    BY <1>2, <2>1, <2>2
<1>5. \E i \in 0 .. x : Stop(i) /\ \A j \in i + 1 .. x : <<j, y>> \notin s.ink
  BY <1>3, <1>4
<1> QED
  BY <1>5 DEF Leftwards

\* A character leaves the cursor behind everything, also when it wraps the line
\* or clears the screen.
LEMMA PutOK ==
    ASSUME NEW s, ScreenOK(s), NEW c
    PROVE  ScreenOK(Put(s, c))
<1> USE ScreenAssumption
<1> DEFINE p == putchar(s, c)
           q == IF p.x + 1 >= Cols THEN Newline(p) ELSE [p EXCEPT !.x = @ + 1]
<1>1. /\ p.x = s.x /\ p.y = s.y /\ p \in [x : 0 .. Cols - 1, y : 0 .. Rows - 1, ink : SUBSET Cells]
      /\ \A d \in p.ink : d \in s.ink \/ d = <<s.x, s.y>>
  BY DEF putchar, ScreenOK, Cells
<1>2. s.x \in 0 .. Cols - 1 /\ s.y \in 0 .. Rows - 1
  BY DEF ScreenOK
<1>3. q.ink = p.ink /\ q.x \in 0 .. Cols - 1 /\ q.y \in 0 .. Rows /\ \A d \in p.ink : Before(d, q.x, q.y)
  <2>1. \A d \in p.ink : d \in Cells /\ (Before(d, s.x, s.y) \/ d = <<s.x, s.y>>)
    BY <1>1 DEF ScreenOK
  <2>2. CASE p.x + 1 >= Cols
    <3>1. q = [x |-> 0, y |-> s.y + 1, ink |-> p.ink]
      BY <1>1, <2>2 DEF Newline
    <3> HIDE DEF q, p
    <3> QED
      BY <1>1, <1>2, <2>1, <2>2, <3>1 DEF Before, Cells
  <2>3. CASE ~ (p.x + 1 >= Cols)
    <3>1. q = [x |-> s.x + 1, y |-> s.y, ink |-> p.ink]
      BY <1>1, <2>3
    <3> HIDE DEF q, p
    <3> QED
      BY <1>1, <1>2, <2>1, <2>3, <3>1 DEF Before, Cells
  <2> QED
    BY <2>2, <2>3
<1>4. Put(s, c) = Scrolled(q)
  BY DEF Put
<1>5. q = [x |-> q.x, y |-> q.y, ink |-> q.ink]
  BY <1>1 DEF Newline
<1> HIDE DEF q, p
<1>6. CASE q.y >= Rows
  <2>1. Put(s, c) = Blank
    BY <1>4, <1>6 DEF Scrolled, clear_screen
  <2> QED
    BY <2>1 DEF Blank, ScreenOK
<1>7. CASE ~ (q.y >= Rows)
  <2>1. Put(s, c) = q
    BY <1>4, <1>7 DEF Scrolled
  <2>2. q \in [x : 0 .. Cols - 1, y : 0 .. Rows - 1, ink : SUBSET Cells]
    BY <1>1, <1>3, <1>5, <1>7
  <2> QED
    BY <1>3, <2>1, <2>2 DEF ScreenOK
<1> QED
  BY <1>6, <1>7

\* So does a newline.
LEMMA NewlineOK ==
    ASSUME NEW s, ScreenOK(s)
    PROVE  ScreenOK(Scrolled(Newline(s)))
<1> USE ScreenAssumption
<1> DEFINE q == [x |-> 0, y |-> s.y + 1, ink |-> s.ink]
<1>1. Newline(s) = q
  <2>1. s \in [x : 0 .. Cols - 1, y : 0 .. Rows - 1, ink : SUBSET Cells]
    BY DEF ScreenOK
  <2>2. Newline(s) \in [x : {0}, y : {s.y + 1}, ink : {s.ink}]
    BY <2>1 DEF Newline
  <2> QED
    BY <2>2
<1>2. s.x \in 0 .. Cols - 1 /\ s.y \in 0 .. Rows - 1 /\ s.ink \subseteq Cells
  BY DEF ScreenOK
<1>3. CASE s.y + 1 >= Rows
  <2>1. Scrolled(Newline(s)) = Blank
    BY <1>1, <1>3 DEF Scrolled, clear_screen
  <2> QED
    BY <2>1 DEF Blank, ScreenOK
<1>4. CASE ~ (s.y + 1 >= Rows)
  <2>1. Scrolled(Newline(s)) = q
    BY <1>1, <1>4 DEF Scrolled
  <2>2. \A c \in s.ink : Before(c, 0, s.y + 1)
    BY <1>2 DEF ScreenOK, Before, Cells
  <2> QED
    BY <1>2, <1>4, <2>1, <2>2 DEF ScreenOK
<1> QED
  BY <1>3, <1>4

\* Going back to the last character and erasing it does, across line ends too.
LEMMA EraseOK ==
    ASSUME NEW s, ScreenOK(s)
    PROVE  ScreenOK(Erase(s))
<1> USE ScreenAssumption
<1>0. s.x \in 0 .. Cols - 1 /\ s.y \in 0 .. Rows - 1 /\ s.ink \in SUBSET Cells
      /\ s = [x |-> s.x, y |-> s.y, ink |-> s.ink]
  BY DEF ScreenOK
<1>1. CASE s.x = 0 /\ s.y = 0
  <2>1. find_last_char(s) = s
    BY <1>1 DEF find_last_char
  <2> QED
    BY <1>0, <2>1 DEF Erase, putchar, ScreenOK
<1>2. CASE ~ (s.x = 0 /\ s.y = 0)
  <2> DEFINE y == IF s.x = 0 THEN s.y - 1 ELSE s.y
             x == IF s.x = 0 THEN Cols - 1 ELSE s.x - 1
             i == Leftwards(s, x, y)
  <2>1. x \in Nat /\ x \in 0 .. Cols - 1 /\ y \in 0 .. Rows - 1
    BY <1>0, <1>2
  <2>2. \A c \in s.ink : c[2] < y \/ (c[2] = y /\ c[1] <= x)
    BY <1>0, <1>2 DEF ScreenOK, Before, Cells
  <2>3. Erase(s) = [x |-> i, y |-> y, ink |-> s.ink \ {<<i, y>>}]
    <3>1. find_last_char(s) = [s EXCEPT !.x = i, !.y = y]
      BY <1>2, Zenon DEF find_last_char
    <3> HIDE DEF i, y
    <3>2. find_last_char(s) = [x |-> i, y |-> y, ink |-> s.ink]
      BY <1>0, <3>1
    <3> QED
      BY <3>2 DEF Erase, putchar
  <2> HIDE DEF x, y
  <2>4. i \in 0 .. x /\ \A j \in i + 1 .. x : <<j, y>> \notin s.ink
    BY <2>1, LeftwardsFinds
  <2> HIDE DEF i
  <2>5. \A c \in s.ink \ {<<i, y>>} : Before(c, i, y)
    <3> SUFFICES ASSUME NEW c \in s.ink, c # <<i, y>>, ~ (c[2] < y) PROVE c[2] = y /\ c[1] < i
      BY DEF Before
    <3>1. c \in Cells /\ c = <<c[1], c[2]>> /\ c[2] = y /\ c[1] \in 0 .. x
      BY <1>0, <2>1, <2>2 DEF Cells
    <3>2. c[1] # i /\ c[1] \notin i + 1 .. x
      BY <2>4, <3>1
    <3> QED
      BY <2>1, <2>4, <3>1, <3>2
  <2> QED
    BY <1>0, <2>1, <2>3, <2>4, <2>5 DEF ScreenOK
<1> QED
  BY <1>1, <1>2

\* Whatever fb_print_char is given, the cursor stays behind everything.
LEMMA PrintOK ==
    ASSUME NEW s, ScreenOK(s), NEW c
    PROVE  ScreenOK(fb_print_char(s, c))
<1>1. CASE c = "newline"
  BY <1>1, NewlineOK DEF fb_print_char
<1>2. CASE c = "backspace"
  BY <1>2, EraseOK DEF fb_print_char
<1>3. CASE c = "tab"
  <2>1. ScreenOK(Put(Put(Put(Put(s, "space"), "space"), "space"), "space"))
    BY PutOK
  <2> QED
    BY <1>3, <2>1 DEF fb_print_char
<1>4. CASE c \notin {"newline", "backspace", "tab"}
  BY <1>4, PutOK DEF fb_print_char
<1> QED
  BY <1>1, <1>2, <1>3, <1>4
-----------------------------------------------------------------------------
(* Bytes and modifiers *)

Mods == {"left_ctrl", "right_ctrl", "left_alt", "right_alt", "left_gui", "right_gui",
         "left_shift", "right_shift"}
Marks == (1 .. MAX_CODE - 1) \X BOOLEAN

\* extended_read after byte b, as 0 or 1.
Prefix(b) == IF b = EXTENDED_PREFIX THEN 1 ELSE 0

\* The modifiers after byte b was handled with modifiers m, x telling (1) that a
\* prefix came before it.
After(b, m, x) ==
    IF b = EXTENDED_PREFIX THEN m
    ELSE IF b < KEY_RELEASE_MASK THEN m \cup Modifier(b % KEY_RELEASE_MASK, x = 1)
    ELSE m \ Modifier(b % KEY_RELEASE_MASK, x = 1)

\* Byte b prints an entry of the tables.
Printed(b) ==
    LET code == b % KEY_RELEASE_MASK IN
    /\ Prints(b) /\ code < MAX_CODE
    /\ InTable(code) /\ keymap(code) # "none"

Mark(b, m) == <<b % KEY_RELEASE_MASK, Shifted(m)>>

\* M, F and D say, for every number of bytes of q, which modifiers there are,
\* whether a prefix was the last byte, and how many entries of w have been
\* printed when so many bytes are handled.
ByteHandled(M, F, D, q, w, i) ==
    /\ F[i] = Prefix(q[i])
    /\ M[i] = After(q[i], M[i - 1], F[i - 1])
    /\ D[i] = IF Printed(q[i]) THEN D[i - 1] + 1 ELSE D[i - 1]
    /\ Printed(q[i]) => w[D[i]] = Mark(q[i], M[i])

Grows(D, n) == \A i, j \in 0 .. n : i <= j => D[i] <= D[j]

Handled(M, F, D, q, w) ==
    /\ M \in [0 .. Len(q) -> SUBSET Mods] /\ D \in [0 .. Len(q) -> Nat]
    /\ \A i \in 1 .. Len(q) : ByteHandled(M, F, D, q, w, i)
    /\ Grows(D, Len(q))
    /\ D[0] = 0 /\ D[Len(q)] = Len(w)

\* Handling the bytes of q leads from modifiers m to n, from prefix flag x to y,
\* and prints the entries of w, in order.
Explained(q, w, m, x, n, y) ==
    \E M, F, D : /\ Handled(M, F, D, q, w)
                 /\ M[0] = m /\ F[0] = x
                 /\ M[Len(q)] = n /\ F[Len(q)] = y

\* The flag extended_read, as the number Explained has it.
Flag(e) == IF e THEN 1 ELSE 0

\* What translate and update_modifiers know of a modifier.
LEMMA ModifierType ==
    ASSUME NEW code \in Nat, NEW x
    PROVE  Modifier(code, x) \in SUBSET Mods
BY DEF Modifier, Mods, LEFT_CTRL, LEFT_ALT, LEFT_GUI, RIGHT_GUI, LEFT_SHIFT, RIGHT_SHIFT

\* Handling a byte leaves modifiers.
LEMMA AfterType ==
    ASSUME NEW b \in Nat, NEW m \in SUBSET Mods, NEW x
    PROVE  After(b, m, x) \in SUBSET Mods
<1>1. b % KEY_RELEASE_MASK \in Nat
  BY DEF KEY_RELEASE_MASK
<1> QED
  BY <1>1, ModifierType DEF After

\* A byte that prints is the code of a key that is no modifier.
LEMMA PrintedCode ==
    ASSUME NEW b \in Nat, Printed(b)
    PROVE  /\ b \in 1 .. MAX_CODE - 1 /\ b % KEY_RELEASE_MASK = b
           /\ \A x : Modifier(b, x) = {}
<1>1. b < 128 /\ b % 128 = b /\ b <= 83
  BY DEF Printed, Prints, KEY_RELEASE_MASK, MAX_CODE, InTable, KEYPAD_DOT
<1>2. b \notin {0, 1, LEFT_CTRL, LEFT_SHIFT, RIGHT_SHIFT, LEFT_ALT}
  <2>1. keymap(b) # "none"
    BY <1>1 DEF Printed, KEY_RELEASE_MASK
  <2> SUFFICES ASSUME b \in {0, 1, LEFT_CTRL, LEFT_SHIFT, RIGHT_SHIFT, LEFT_ALT}
               PROVE  keymap(b) = "none"
    BY <2>1
  <2> QED
    BY DEF keymap, LEFT_CTRL, LEFT_SHIFT, RIGHT_SHIFT, LEFT_ALT, BACKSPACE, TAB, ENTER, SPACE,
           CAPS_LOCK, SCROLL_LOCK
<1>3. b # 0 /\ b # LEFT_CTRL /\ b # LEFT_SHIFT /\ b # RIGHT_SHIFT /\ b # LEFT_ALT
      /\ b # LEFT_GUI /\ b # RIGHT_GUI
  BY <1>1, <1>2 DEF LEFT_GUI, RIGHT_GUI
<1> QED
  BY <1>1, <1>3 DEF Modifier, MAX_CODE, KEY_RELEASE_MASK

\* No bytes, nothing to handle.
LEMMA ExplainedNothing == Explained(<<>>, <<>>, {}, 0, {}, 0)
<1> DEFINE M == [i \in 0 .. 0 |-> {}]
           D == [i \in 0 .. 0 |-> 0]
<1>1. Handled(M, {}, D, <<>>, <<>>)
  BY DEF Handled, Grows
<1> QED
  BY <1>1 DEF Explained

\* A byte more: the keyboard sends it, and what it will print is owed.
LEMMA OneByteMore ==
    ASSUME NEW q \in Seq(Nat), NEW w \in Seq(Marks), NEW b \in Nat,
           NEW m, NEW x, NEW n, NEW y,
           Explained(q, w, m, x, n, y)
    PROVE  LET n2 == After(b, n, y)
               w2 == IF Printed(b) THEN Append(w, Mark(b, n2)) ELSE w
           IN /\ w2 \in Seq(Marks)
              /\ Explained(Append(q, b), w2, m, x, n2, Prefix(b))
<1> DEFINE n2 == After(b, n, y)
           w2 == IF Printed(b) THEN Append(w, Mark(b, n2)) ELSE w
           q2 == Append(q, b)
           L == Len(q)
<1>0. L \in Nat /\ Len(q2) = L + 1 /\ q2[L + 1] = b /\ (\A i \in 1 .. L : q2[i] = q[i] /\ q[i] \in Nat)
      /\ Len(w) \in Nat
  OBVIOUS
<1>1. PICK M, F, D : /\ Handled(M, F, D, q, w)
                     /\ M[0] = m /\ F[0] = x
                     /\ M[L] = n /\ F[L] = y
  BY DEF Explained
<1>2. /\ M \in [0 .. L -> SUBSET Mods] /\ D \in [0 .. L -> Nat] /\ n \in SUBSET Mods
      /\ D[L] = Len(w) /\ D[0] = 0
  <2>1. M \in [0 .. L -> SUBSET Mods] /\ D \in [0 .. L -> Nat]
    BY <1>1, Zenon DEF Handled
  <2>2. D[L] = Len(w) /\ D[0] = 0
    BY <1>1, Zenon DEF Handled
  <2>3. L \in 0 .. L
    BY <1>0
  <2> QED
    BY <1>1, <2>1, <2>2, <2>3
<1>3. n2 \in SUBSET Mods
  BY <1>2, AfterType
<1>4. Printed(b) => Mark(b, n2) \in Marks
  BY PrintedCode DEF Mark, Marks, Shifted
<1> DEFINE M2 == [i \in 0 .. L + 1 |-> IF i <= L THEN M[i] ELSE n2]
           D2 == [i \in 0 .. L + 1 |-> IF i <= L THEN D[i] ELSE Len(w2)]
           F2 == [i \in 0 .. L + 1 |-> IF i <= L THEN F[i] ELSE Prefix(b)]
<1>5. /\ w2 \in Seq(Marks) /\ Len(w2) = IF Printed(b) THEN Len(w) + 1 ELSE Len(w)
      /\ \A i \in 1 .. Len(w) : w2[i] = w[i]
      /\ Printed(b) => w2[Len(w) + 1] = Mark(b, n2)
  BY <1>4
<1> HIDE DEF n2, w2, q2
<1>6. M2 \in [0 .. Len(q2) -> SUBSET Mods] /\ D2 \in [0 .. Len(q2) -> Nat]
  BY <1>0, <1>2, <1>3, <1>5
<1>7. ASSUME NEW i \in 1 .. Len(q2)
      PROVE  ByteHandled(M2, F2, D2, q2, w2, i)
  <2>1. CASE i <= L
    <3>1. i \in 1 .. L /\ i - 1 \in 0 .. L /\ i \in 0 .. L + 1 /\ i - 1 \in 0 .. L + 1
      BY <1>0, <2>1
    <3>2. /\ M2[i] = M[i] /\ M2[i - 1] = M[i - 1] /\ D2[i] = D[i] /\ D2[i - 1] = D[i - 1]
          /\ F2[i] = F[i] /\ F2[i - 1] = F[i - 1] /\ q2[i] = q[i]
      BY <1>0, <2>1, <3>1
    <3>3. /\ F[i] = Prefix(q[i])
          /\ M[i] = After(q[i], M[i - 1], F[i - 1])
          /\ D[i] = IF Printed(q[i]) THEN D[i - 1] + 1 ELSE D[i - 1]
          /\ Printed(q[i]) => w[D[i]] = Mark(q[i], M[i])
      BY <1>1, <3>1 DEF Handled, ByteHandled
    <3>4. Printed(q[i]) => D[i] \in 1 .. Len(w)
      <4>0. L \in 0 .. L /\ i \in 0 .. L
        BY <1>0, <3>1
      <4>1. D[i] <= D[L]
        <5>1. Grows(D, L)
          BY <1>1 DEF Handled
        <5> QED
          BY <2>1, <4>0, <5>1 DEF Grows
      <4> QED
        <5>1. Printed(q[i]) => D[i] = D[i - 1] + 1
          BY <3>3, Zenon
        <5> HIDE DEF L
        <5> QED
          BY <1>0, <1>2, <3>1, <4>1, <5>1
    <3>5. M2[i] = After(q2[i], M2[i - 1], F2[i - 1])
      BY <3>2, <3>3
    <3> HIDE DEF M2, D2, F2
    <3> QED
      BY <1>5, <3>2, <3>3, <3>4, <3>5 DEF ByteHandled
  <2>2. CASE i = L + 1
    <3>1. i - 1 = L /\ L \in 0 .. L /\ L \in 0 .. L + 1 /\ i \in 0 .. L + 1 /\ ~ (i <= L)
      BY <1>0, <2>2
    <3>2. /\ M2[i] = n2 /\ M2[L] = n /\ D2[i] = Len(w2) /\ D2[L] = Len(w)
          /\ F2[i] = Prefix(b) /\ F2[L] = y /\ q2[i] = b
      BY <1>0, <1>1, <1>2, <2>2, <3>1
    <3> HIDE DEF M2, D2, F2
    <3>3. M2[i] = After(q2[i], M2[i - 1], F2[i - 1])
      BY <3>1, <3>2 DEF n2
    <3> QED
      BY <1>0, <1>5, <3>1, <3>2, <3>3 DEF ByteHandled
  <2>3. i <= L \/ i = L + 1
    <3> HIDE DEF L
    <3> QED
      BY <1>0
  <2> QED
    BY <2>1, <2>2, <2>3, Zenon
<1>8. Grows(D2, Len(q2))
  <2>0. Grows(D, L)
    BY <1>1 DEF Handled
  <2>1. \A i, j \in 0 .. L : i <= j => D[i] <= D[j]
    BY <2>0 DEF Grows
  <2>2. \A i \in 0 .. L : D[i] <= Len(w2) /\ D[i] \in Nat
    <3> HIDE DEF L
    <3>1. \A i \in 0 .. L : D[i] <= D[L] /\ D[i] \in Nat
      BY <1>0, <1>2, <2>1
    <3> QED
      BY <1>0, <1>2, <1>5, <3>1
  <2> QED
    BY <1>0, <1>5, <2>1, <2>2 DEF Grows
<1>9. Handled(M2, F2, D2, q2, w2)
  <2>1. D2[0] = 0 /\ D2[Len(q2)] = Len(w2)
    BY <1>0, <1>2
  <2> HIDE DEF M2, F2, D2
  <2> QED
    BY <1>6, <1>7, <1>8, <2>1 DEF Handled
<1>10. /\ M2[0] = m /\ F2[0] = x
       /\ M2[Len(q2)] = n2 /\ F2[Len(q2)] = Prefix(b)
  BY <1>0, <1>1
<1>11. Explained(q2, w2, m, x, n2, Prefix(b))
  <2> HIDE DEF M2, F2, D2
  <2> QED
    BY <1>9, <1>10 DEF Explained
<1> QED
  BY <1>5, <1>11 DEF n2, w2, q2

\* The same, for names given to the parts of the conclusion.
LEMMA Sent ==
    ASSUME NEW q \in Seq(Nat), NEW w \in Seq(Marks), NEW b \in Nat,
           NEW m, NEW x, NEW n, NEW y,
           Explained(q, w, m, x, n, y),
           NEW q2, q2 = Append(q, b), NEW n2, n2 = After(b, n, y),
           NEW w2, w2 = IF Printed(b) THEN Append(w, Mark(b, n2)) ELSE w
    PROVE  w2 \in Seq(Marks) /\ Explained(q2, w2, m, x, n2, Prefix(b))
BY OneByteMore, Zenon

\* If the first byte of q prints, what is owed begins with its mark.
BeginsWith(q, w, m, x) ==
    LET b == Head(q)
        m2 == After(b, m, x)
    IN Printed(b) => w # <<>> /\ Head(w) = Mark(b, m2)

\* A byte less: the handler takes it, and prints what is owed first.
LEMMA OneByteLess ==
    ASSUME NEW q \in Seq(Nat), q # <<>>, NEW w \in Seq(Marks),
           NEW m, NEW x, NEW n, NEW y,
           Explained(q, w, m, x, n, y)
    PROVE  LET b == Head(q)
               m2 == After(b, m, x)
               w2 == IF Printed(b) THEN Tail(w) ELSE w
           IN /\ BeginsWith(q, w, m, x)
              /\ m2 \in SUBSET Mods /\ w2 \in Seq(Marks)
              /\ Explained(Tail(q), w2, m2, Prefix(b), n, y)
<1> DEFINE b == Head(q)
           m2 == After(b, m, x)
           w2 == IF Printed(b) THEN Tail(w) ELSE w
           q2 == Tail(q)
           L == Len(q) - 1
           s == IF Printed(b) THEN 1 ELSE 0
<1>0. /\ L \in Nat /\ Len(q) = L + 1 /\ Len(q2) = L /\ b = q[1] /\ b \in Nat
      /\ \A i \in 1 .. L : q2[i] = q[i + 1]
  OBVIOUS
<1>1. PICK M, F, D : /\ Handled(M, F, D, q, w)
                     /\ M[0] = m /\ F[0] = x
                     /\ M[Len(q)] = n /\ F[Len(q)] = y
  BY DEF Explained
<1>2. /\ M \in [0 .. L + 1 -> SUBSET Mods] /\ D \in [0 .. L + 1 -> Nat]
      /\ D[L + 1] = Len(w) /\ D[0] = 0 /\ Grows(D, L + 1)
      /\ \A i \in 1 .. L + 1 : ByteHandled(M, F, D, q, w, i)
  BY <1>0, <1>1, Zenon DEF Handled
<1> HIDE DEF q2, L
<1>3. 1 \in 1 .. L + 1 /\ 1 \in 0 .. L + 1 /\ 0 \in 0 .. L + 1 /\ 1 - 1 = 0
  BY <1>0
<1>4. /\ F[1] = Prefix(b) /\ M[1] = After(b, M[0], F[0])
      /\ D[1] = (IF Printed(b) THEN D[0] + 1 ELSE D[0])
      /\ Printed(b) => w[D[1]] = Mark(b, M[1])
  <2>1. ByteHandled(M, F, D, q, w, 1)
    BY <1>2, <1>3
  <2> QED
    BY <1>0, <1>3, <2>1, Zenon DEF ByteHandled
<1>5. M[1] = m2 /\ m2 \in SUBSET Mods
  <2>1. M[1] = m2
    BY <1>1, <1>4
  <2> QED
    BY <1>2, <1>3, <2>1
<1>6. D[1] = s /\ (Printed(b) => w[1] = Mark(b, m2))
  <2> HIDE DEF b, m2
  <2>1. D[1] = s
    BY <1>2, <1>4
  <2> QED
    BY <1>4, <1>5, <2>1
<1>7. Printed(b) => Len(w) >= 1 /\ w # <<>> /\ Head(w) = Mark(b, m2)
  <2>1. D[1] <= D[L + 1]
    <3>1. L + 1 \in 0 .. L + 1 /\ 1 <= L + 1
      BY <1>0
    <3> QED
      BY <1>2, <1>3, <3>1 DEF Grows
  <2>2. Printed(b) => Len(w) >= 1
    BY <1>2, <1>6, <2>1
  <2> HIDE DEF b, m2
  <2>3. Len(w) >= 1 => w # <<>> /\ Head(w) = w[1]
    OBVIOUS
  <2> QED
    BY <1>6, <2>2, <2>3
<1>8. /\ w2 \in Seq(Marks) /\ Len(w2) = Len(w) - s
      /\ \A i \in 1 .. Len(w2) : w2[i] = w[i + s]
  <2> HIDE DEF b
  <2>1. CASE Printed(b)
    BY <1>7, <2>1
  <2>2. CASE ~ Printed(b)
    BY <2>2
  <2> QED
    BY <2>1, <2>2
<1> HIDE DEF w2, b, m2
<1> DEFINE M2 == [i \in 0 .. L |-> M[i + 1]]
           D2 == [i \in 0 .. L |-> D[i + 1] - s]
           F2 == [i \in 0 .. L |-> F[i + 1]]
<1>9. \A i \in 0 .. L : i + 1 \in 1 .. L + 1 /\ i + 1 \in 0 .. L + 1
  BY <1>0
<1>10. \A i \in 0 .. L : D[i + 1] \in Nat /\ D[i + 1] >= s
  <2>1. \A i \in 0 .. L : D[1] <= D[i + 1]
    BY <1>2, <1>3, <1>9 DEF Grows
  <2> QED
    BY <1>2, <1>6, <1>9, <2>1
<1>11. s \in 0 .. 1 /\ M2 \in [0 .. L -> SUBSET Mods] /\ D2 \in [0 .. L -> Nat]
  <2>1. s \in 0 .. 1
    OBVIOUS
  <2> HIDE DEF s
  <2> QED
    BY <1>2, <1>9, <1>10, <2>1
<1>12. Grows(D2, L)
  <2>1. \A i, j \in 0 .. L : i <= j => D[i + 1] <= D[j + 1]
    BY <1>2, <1>9 DEF Grows
  <2> HIDE DEF s
  <2> QED
    BY <1>10, <1>11, <2>1 DEF Grows
<1>13. D2[0] = 0 /\ D2[L] = Len(w2)
  <2> HIDE DEF s
  <2>1. 0 \in 0 .. L /\ L \in 0 .. L /\ 0 + 1 = 1
    BY <1>0
  <2>2. D2[0] = D[1] - s /\ D2[L] = D[L + 1] - s
    BY <2>1
  <2>3. s \in Int /\ D[1] = s /\ D[L + 1] = Len(w) /\ Len(w2) = Len(w) - s
    BY <1>2, <1>6, <1>8, <1>11
  <2> QED
    BY <2>2, <2>3
<1>14. ASSUME NEW i \in 1 .. L PROVE ByteHandled(M2, F2, D2, q2, w2, i)
  <2>1. /\ i \in 0 .. L /\ i - 1 \in 0 .. L /\ (i - 1) + 1 = i /\ (i + 1) - 1 = i
        /\ i + 1 \in 1 .. L + 1
    BY <1>0
  <2>2. /\ M2[i] = M[i + 1] /\ M2[i - 1] = M[i] /\ D2[i] = D[i + 1] - s /\ D2[i - 1] = D[i] - s
        /\ F2[i] = F[i + 1] /\ F2[i - 1] = F[i] /\ q2[i] = q[i + 1]
    <3> HIDE DEF s
    <3> QED
      BY <1>0, <2>1
  <2>3. ByteHandled(M, F, D, q, w, i + 1)
    BY <1>2, <2>1
  <2>4. /\ F[i + 1] = Prefix(q[i + 1])
        /\ M[i + 1] = After(q[i + 1], M[i], F[i])
        /\ D[i + 1] = (IF Printed(q[i + 1]) THEN D[i] + 1 ELSE D[i])
        /\ Printed(q[i + 1]) => w[D[i + 1]] = Mark(q[i + 1], M[i + 1])
    BY <2>1, <2>3, Zenon DEF ByteHandled
  <2> HIDE DEF M2, D2, F2, s
  <2>5. M2[i] = After(q2[i], M2[i - 1], F2[i - 1])
    BY <2>2, <2>4
  <2>6. D2[i] = (IF Printed(q2[i]) THEN D2[i - 1] + 1 ELSE D2[i - 1])
    <3>1. D[i + 1] = (IF Printed(q2[i]) THEN D[i] + 1 ELSE D[i])
      BY <2>2, <2>4, Zenon
    <3>2. D[i] \in Nat
      <4>1. i \in 0 .. L + 1
        BY <1>0
      <4> QED
        BY <1>2, <4>1
    <3>3. s \in Int /\ D2[i] = D[i + 1] - s /\ D2[i - 1] = D[i] - s
      BY <1>11, <2>2
    <3>4. CASE Printed(q2[i])
      <4>1. D[i + 1] = D[i] + 1
        BY <3>1, <3>4
      <4>2. D2[i] = D2[i - 1] + 1
        BY <3>2, <3>3, <4>1
      <4> QED
        BY <3>4, <4>2
    <3>5. CASE ~ Printed(q2[i])
      <4>1. D[i + 1] = D[i]
        BY <3>1, <3>5
      <4> QED
        BY <3>3, <3>5, <4>1
    <3> QED
      BY <3>4, <3>5
  <2>7. Printed(q2[i]) => w2[D2[i]] = Mark(q2[i], M2[i])
    <3> SUFFICES ASSUME Printed(q2[i]) PROVE w2[D2[i]] = Mark(q2[i], M2[i])
      OBVIOUS
    <3>1. D2[i] \in Nat /\ D2[i - 1] \in Nat /\ D2[i] = D2[i - 1] + 1 /\ D2[i] <= Len(w2)
      <4>1. D2[i] <= D2[L] /\ D2[i] \in Nat /\ D2[i - 1] \in Nat
        BY <1>0, <1>11, <1>12, <2>1 DEF Grows
      <4> QED
        BY <1>13, <2>6, <4>1
    <3>2. D2[i] \in 1 .. Len(w2) /\ D2[i] + s = D[i + 1]
      <4>1. Len(w2) \in Nat /\ D[i + 1] \in Nat /\ s \in Int
        <5>1. Len(w2) \in Nat
          BY <1>8
        <5>2. i + 1 \in 0 .. L + 1
          BY <1>0, <2>1
        <5>3. D[i + 1] \in Nat
          BY <1>2, <5>2
        <5> QED
          BY <1>11, <5>1, <5>3
      <4>2. PICK d, d0, e, len : d = D2[i] /\ d0 = D2[i - 1] /\ e = D[i + 1] /\ len = Len(w2)
        OBVIOUS
      <4>3. /\ d \in Nat /\ d0 \in Nat /\ d = d0 + 1 /\ d <= len /\ len \in Nat
            /\ e \in Nat /\ d = e - s
        BY <2>2, <3>1, <4>1, <4>2
      <4>4. d \in 1 .. len /\ d + s = e
        BY <4>1, <4>3
      <4> QED
        BY <4>2, <4>4
    <3>3. w2[D2[i]] = w[D[i + 1]]
      BY <1>8, <3>2
    <3> QED
      BY <2>2, <2>4, <3>3, Zenon
  <2> QED
    BY <2>2, <2>4, <2>5, <2>6, <2>7, Zenon DEF ByteHandled
<1>15. Handled(M2, F2, D2, q2, w2)
  <2> HIDE DEF M2, F2, D2
  <2> QED
    BY <1>0, <1>11, <1>12, <1>13, <1>14 DEF Handled
<1>16. /\ M2[0] = m2 /\ F2[0] = Prefix(b)
       /\ M2[Len(q2)] = n /\ F2[Len(q2)] = y
  BY <1>0, <1>1, <1>4, <1>5
<1>17. Explained(q2, w2, m2, Prefix(b), n, y)
  <2> HIDE DEF M2, F2, D2
  <2> QED
    BY <1>15, <1>16 DEF Explained
<1>18. BeginsWith(q, w, m, x)
  BY <1>7, Zenon DEF BeginsWith, b, m2
<1> QED
  BY <1>5, <1>8, <1>17, <1>18, Zenon DEF b, m2, w2, q2

\* The same, for names given to the parts of the conclusion: what is printed.
LEMMA TakenPrints ==
    ASSUME NEW q \in Seq(Nat), q # <<>>, NEW w \in Seq(Marks),
           NEW m, NEW x, NEW n, NEW y,
           Explained(q, w, m, x, n, y),
           NEW b, b = Head(q), NEW m2, m2 = After(b, m, x), Printed(b)
    PROVE  w # <<>> /\ Head(w) = Mark(b, m2)
<1>1. BeginsWith(q, w, m, x)
  BY OneByteLess
<1> QED
  BY <1>1, Zenon DEF BeginsWith

\* And what is left.
LEMMA Taken ==
    ASSUME NEW q \in Seq(Nat), q # <<>>, NEW w \in Seq(Marks),
           NEW m, NEW x, NEW n, NEW y,
           Explained(q, w, m, x, n, y),
           NEW b, b = Head(q), NEW m2, m2 = After(b, m, x),
           NEW w2, w2 = IF Printed(b) THEN Tail(w) ELSE w
    PROVE  w2 \in Seq(Marks) /\ Explained(Tail(q), w2, m2, Prefix(b), n, y)
BY OneByteLess, Zenon

-----------------------------------------------------------------------------
(* The driver and the keyboard *)

TypeOK ==
    /\ phase \in {"boot", "ready", "off"}
    /\ out \in Seq(Nat) /\ held \in SUBSET Keys
    /\ current_modifiers \in SUBSET Mods /\ extended_read \in BOOLEAN
    /\ ScreenOK(screen)

\* The keys a keyboard has once: no two of them set the same modifier.
OneKeyPerModifier ==
    \A k, l \in Keys :
        k # l => Modifier(k.code, k.extended) \cap Modifier(l.code, l.extended) = {}

Down == UNION {Modifier(k.code, k.extended) : k \in held}

\* Handling the bytes on their way would bring the driver's modifiers to those
\* of the keys that are down, and print what is owed.
PendingInv ==
    /\ owed \in Seq(Marks)
    /\ phase = "boot" => /\ out = <<>> /\ held = {} /\ owed = <<>>
                         /\ current_modifiers = {} /\ extended_read = FALSE
    /\ phase # "off"
    /\ phase = "ready" => Explained(out, owed, current_modifiers, Flag(extended_read), Down, 0)

\* Init establishes both.
LEMMA InitInv == Init => TypeOK /\ PendingInv
<1> SUFFICES ASSUME Init PROVE TypeOK /\ PendingInv
  OBVIOUS
<1>1. ScreenOK(Blank)
  BY ScreenAssumption DEF ScreenOK, Blank
<1>2. out \in Seq(Nat) /\ owed \in Seq(Marks)
  BY DEF Init
<1> QED
  BY <1>1, <1>2 DEF Init, TypeOK, PendingInv

\* What a key sends: one byte or two, none of them beyond 223 but the prefix.
LEMMA SendType ==
    ASSUME NEW k \in Keys, NEW code \in Nat, out \in Seq(Nat), Send(k, code)
    PROVE  /\ out' \in Seq(Nat)
           /\ k.extended => out' = Append(Append(out, EXTENDED_PREFIX), code)
           /\ ~ k.extended => out' = Append(out, code)
<1>1. EXTENDED_PREFIX \in Nat
  BY DEF EXTENDED_PREFIX
<1>2. CASE k.extended
  BY <1>1, <1>2 DEF Send
<1>3. CASE ~ k.extended
  BY <1>3 DEF Send
<1> QED
  BY <1>2, <1>3

\* A key's code and its flag.
LEMMA KeyType == ASSUME NEW k \in Keys
                 PROVE  k.code \in 1 .. MAX_CODE - 1 /\ k.extended \in BOOLEAN
BY KeyboardAssumption

\* The handler's change of the modifiers.
LEMMA HandlerModifiers ==
    ASSUME TypeOK, keyboard_handler
    PROVE  current_modifiers' = After(Head(out), current_modifiers, Flag(extended_read))
<1> DEFINE b == Head(out)
           code == b % KEY_RELEASE_MASK
<1>1. current_modifiers' = IF b = EXTENDED_PREFIX THEN current_modifiers
                           ELSE update_modifiers(code, b < KEY_RELEASE_MASK)
  BY Zenon DEF keyboard_handler
<1>2. Modifier(code, extended_read) = Modifier(code, Flag(extended_read) = 1)
  <2>1. extended_read <=> Flag(extended_read) = 1
    BY DEF Flag
  <2> HIDE DEF code
  <2> QED
    BY <2>1 DEF Modifier
<1> HIDE DEF b
<1>3. update_modifiers(code, b < KEY_RELEASE_MASK) =
          IF b < KEY_RELEASE_MASK THEN current_modifiers \cup Modifier(code, extended_read)
          ELSE current_modifiers \ Modifier(code, extended_read)
  BY Zenon DEF update_modifiers
<1> QED
  BY <1>1, <1>2, <1>3, Zenon DEF After, b

\* Types are kept, and the screen stays in order whatever is typed.
LEMMA NextType == TypeOK /\ [Next]_vars => TypeOK'
<1> SUFFICES ASSUME TypeOK, [Next]_vars PROVE TypeOK'
  OBVIOUS
<1>1. CASE UNCHANGED vars
  BY <1>1 DEF vars, TypeOK
<1>2. CASE init_keyboard
  <2>1. Replies[4] \in Nat /\ Replies[5] \in Nat
    BY KeyboardAssumption DEF Replies, KEYBOARD_ACK
  <2>2. out' \in Seq(Nat)
    <3>1. out' = <<Replies[4]>> \/ out' = <<Replies[5]>>
      BY <1>2, Zenon DEF init_keyboard
    <3>2. \A r \in Nat : <<r>> \in Seq(Nat)
      OBVIOUS
    <3> QED
      BY <2>1, <3>1, <3>2, Zenon
  <2> QED
    BY <1>2, <2>2 DEF init_keyboard, TypeOK
<1>3. CASE keyboard_handler
  <2>1. out # <<>> /\ out' = Tail(out) /\ Head(out) \in Nat /\ out' \in Seq(Nat)
    BY <1>3 DEF keyboard_handler, TypeOK
  <2>2. current_modifiers' = After(Head(out), current_modifiers, Flag(extended_read))
    BY <1>3, HandlerModifiers
  <2>3. current_modifiers' \in SUBSET Mods
    BY <2>1, <2>2, AfterType DEF TypeOK
  <2>4. extended_read' \in BOOLEAN
    BY <1>3 DEF keyboard_handler, NextExtended
  <2>5. screen' = screen \/ \E c : screen' = fb_print_char(screen, c)
    BY <1>3, Zenon DEF keyboard_handler
  <2>6. ScreenOK(screen')
    BY <2>5, PrintOK DEF TypeOK
  <2> QED
    BY <1>3, <2>1, <2>3, <2>4, <2>6 DEF keyboard_handler, TypeOK
<1>4. ASSUME NEW k \in Keys, Press(k) PROVE TypeOK'
  <2>1. out' \in Seq(Nat)
    <3>1. k.code \in Nat /\ Send(k, k.code) /\ out \in Seq(Nat)
      <4>1. k.code \in Nat
        BY KeyType DEF MAX_CODE
      <4> QED
        BY <1>4, <4>1, Zenon DEF Press, TypeOK
    <3>2. ASSUME NEW code \in Nat, Send(k, code) PROVE out' \in Seq(Nat)
      BY <3>1, <3>2, SendType
    <3> QED
      BY <3>1, <3>2
  <2> QED
    BY <1>4, <2>1 DEF Press, TypeOK
<1>5. ASSUME NEW k \in Keys, Release(k) PROVE TypeOK'
  <2>1. k.code + KEY_RELEASE_MASK \in Nat
    BY KeyType DEF MAX_CODE, KEY_RELEASE_MASK
  <2>2. out' \in Seq(Nat)
    BY <1>5, <2>1, SendType DEF Release, TypeOK
  <2> QED
    BY <1>5, <2>2 DEF Release, TypeOK
<1> QED
  BY <1>1, <1>2, <1>3, <1>4, <1>5 DEF Next

\* The acknowledgement left over by init_keyboard changes nothing.
LEMMA InitKeyboardPending == ASSUME TypeOK, PendingInv, init_keyboard PROVE PendingInv'
<1>1. (Replies[3] \div 64) % 2 = 1
  BY DEF Replies, KEYBOARD_ACK
<1>2. phase' = "ready" /\ out' = <<KEYBOARD_ACK>>
  BY <1>1 DEF init_keyboard, Replies
<1>3. /\ owed' = <<>> /\ held' = {} /\ current_modifiers' = {} /\ extended_read' = FALSE
  BY DEF init_keyboard, PendingInv
<1>4. After(KEYBOARD_ACK, {}, 0) = {} /\ ~ Printed(KEYBOARD_ACK) /\ Prefix(KEYBOARD_ACK) = 0
  BY DEF After, Prefix, Printed, Prints, KEYBOARD_ACK, EXTENDED_PREFIX, KEY_RELEASE_MASK
<1>5. KEYBOARD_ACK \in Nat /\ <<>> \in Seq(Nat) /\ <<>> \in Seq(Marks)
  BY DEF KEYBOARD_ACK
<1>7. Append(<<>>, KEYBOARD_ACK) = <<KEYBOARD_ACK>>
  OBVIOUS
<1>8. Explained(<<KEYBOARD_ACK>>, <<>>, {}, 0, {}, 0)
  BY <1>4, <1>5, <1>7, ExplainedNothing, Sent, Zenon
<1>9. Down' = {}
  BY <1>3 DEF Down
<1> QED
  BY <1>2, <1>3, <1>5, <1>8, <1>9 DEF PendingInv, Flag

\* The handler prints what is owed next, if its byte prints anything.
LEMMA HandlerPending == ASSUME TypeOK, PendingInv, keyboard_handler PROVE PendingInv'
<1> DEFINE b == Head(out)
           m2 == After(b, current_modifiers, Flag(extended_read))
           w2 == IF Printed(b) THEN Tail(owed) ELSE owed
<1>1. phase = "ready" /\ phase' = "ready" /\ out # <<>> /\ out' = Tail(out) /\ held' = held
      /\ b \in Nat
  BY DEF keyboard_handler, TypeOK
<1>2. Explained(out, owed, current_modifiers, Flag(extended_read), Down, 0) /\ owed \in Seq(Marks)
  BY <1>1 DEF PendingInv
<1>3. /\ Printed(b) => owed # <<>> /\ Head(owed) = Mark(b, m2)
      /\ w2 \in Seq(Marks)
      /\ Explained(Tail(out), w2, m2, Flag(extended_read'), Down, 0)
  <2>1. out \in Seq(Nat) /\ Flag(extended_read') = Prefix(b)
    BY DEF TypeOK, keyboard_handler, NextExtended, Flag, Prefix
  <2> DEFINE n == Down
             x == Flag(extended_read)
  <2>2. Explained(out, owed, current_modifiers, x, n, 0) /\ out \in Seq(Nat) /\ out # <<>>
        /\ owed \in Seq(Marks) /\ b = Head(out) /\ m2 = After(b, current_modifiers, x)
    BY <1>1, <1>2, <2>1
  <2>3. w2 = IF Printed(b) THEN Tail(owed) ELSE owed
    OBVIOUS
  <2> HIDE DEF n, x, b, m2, w2
  <2>4. ASSUME Printed(b) PROVE owed # <<>> /\ Head(owed) = Mark(b, m2)
    BY <2>2, <2>4, TakenPrints
  <2>5. w2 \in Seq(Marks) /\ Explained(Tail(out), w2, m2, Prefix(b), n, 0)
    BY <2>2, <2>3, Taken, Zenon
  <2> QED
    BY <2>1, <2>4, <2>5, Zenon DEF n
<1>4. current_modifiers' = m2
  BY HandlerModifiers
<1>5. owed' = w2
  <2> DEFINE code == b % KEY_RELEASE_MASK
             key == IF code < MAX_CODE THEN code ELSE 0
  <2>1. CASE ~ Prints(b)
    BY <2>1 DEF keyboard_handler, Printed
  <2>2. CASE Prints(b)
    <3>1. PICK c \in Chars(key) : owed' = Settled(key, c)
      BY <2>2, Zenon DEF keyboard_handler
    <3>2. Printed(b) <=> (code < MAX_CODE /\ InTable(code) /\ keymap(code) # "none")
      BY <2>2, Zenon DEF Printed
    <3>3. keymap(0) = "none" /\ InTable(0)
      BY DEF keymap, InTable, KEYPAD_DOT, LEFT_CTRL, LEFT_SHIFT, RIGHT_SHIFT, LEFT_ALT,
             BACKSPACE, TAB, ENTER, SPACE, CAPS_LOCK, SCROLL_LOCK
    <3>4. CASE Printed(b)
      <4>1. key = code /\ InTable(key) /\ keymap(key) # "none"
        BY <3>2, <3>4
      <4>2. c = keymap(key)
        BY <3>1, <4>1 DEF Chars
      <4>3. owed # <<>> /\ Head(owed) = <<key, Shifted(current_modifiers')>>
        BY <1>3, <1>4, <3>4, <4>1 DEF Mark
      <4> HIDE DEF key, code, b, m2
      <4> QED
        BY <3>1, <3>4, <4>1, <4>2, <4>3, Zenon DEF Settled
    <3>5. CASE ~ Printed(b)
      <4>1. ~ InTable(key) \/ c = "none"
        <5>1. InTable(key) => keymap(key) = "none"
          BY <3>2, <3>3, <3>5
        <5> HIDE DEF key
        <5> QED
          BY <3>1, <5>1 DEF Chars
      <4> HIDE DEF key, code, b, m2
      <4> QED
        BY <3>1, <3>5, <4>1, Zenon DEF Settled
    <3> QED
      BY <3>4, <3>5
  <2> QED
    BY <2>1, <2>2
<1>6. Down' = Down
  BY <1>1 DEF Down
<1>7. Explained(out', owed', current_modifiers', Flag(extended_read'), Down', 0)
  BY <1>1, <1>3, <1>4, <1>5, <1>6
<1> QED
  BY <1>1, <1>3, <1>5, <1>7 DEF PendingInv

\* Pressing k takes the modifiers of the keys that are down to the new ones.
LEMMA PressDown ==
    ASSUME NEW k \in Keys, Press(k)
    PROVE  Down' = Down \cup Modifier(k.code, k.extended)
<1>1. held' = (IF IsModifier(k) THEN held \cup {k} ELSE held)
  BY DEF Press
<1>2. ~ IsModifier(k) => Modifier(k.code, k.extended) = {}
  BY DEF IsModifier
<1> QED
  BY <1>1, <1>2 DEF Down

\* So does releasing k, when no other key sets the same modifier.
LEMMA ReleaseDown ==
    ASSUME OneKeyPerModifier, TypeOK, NEW k \in Keys, Release(k)
    PROVE  Down' = Down \ Modifier(k.code, k.extended)
<1>1. held' = held \ {k} /\ (IsModifier(k) => k \in held)
  BY DEF Release
<1>2. ~ IsModifier(k) => Modifier(k.code, k.extended) = {}
  BY DEF IsModifier
<1>3. \A l \in held : l # k =>
          Modifier(l.code, l.extended) \cap Modifier(k.code, k.extended) = {}
  BY DEF OneKeyPerModifier, TypeOK
<1> QED
  BY <1>1, <1>2, <1>3 DEF Down

\* The bytes a key sends, one or two, take the modifiers of the keys that are
\* down to n2 and print w2.
LEMMA KeySends ==
    ASSUME TypeOK, PendingInv, phase = "ready", NEW k \in Keys,
           NEW code \in 1 .. 223, Send(k, code),
           NEW n2, n2 = After(code, Down, Flag(k.extended)),
           NEW w2, w2 = IF Printed(code) THEN Append(owed, Mark(code, n2)) ELSE owed
    PROVE  w2 \in Seq(Marks) /\ Explained(out', w2, current_modifiers, Flag(extended_read), n2, 0)
<1>0. /\ out \in Seq(Nat) /\ owed \in Seq(Marks) /\ code \in Nat /\ Prefix(code) = 0
      /\ EXTENDED_PREFIX \in Nat
  BY DEF TypeOK, PendingInv, EXTENDED_PREFIX, Prefix
<1>1. Explained(out, owed, current_modifiers, Flag(extended_read), Down, 0)
  BY DEF PendingInv
<1>2. CASE k.extended
  <2>1. /\ ~ Printed(EXTENDED_PREFIX) /\ After(EXTENDED_PREFIX, Down, 0) = Down
        /\ Prefix(EXTENDED_PREFIX) = 1
    BY DEF Printed, Prints, After, Prefix
  <2>2. Explained(Append(out, EXTENDED_PREFIX), owed, current_modifiers, Flag(extended_read), Down, 1)
    BY <1>0, <1>1, <2>1, Sent, Zenon
  <2>3. Append(out, EXTENDED_PREFIX) \in Seq(Nat)
    BY <1>0
  <2>4. out' = Append(Append(out, EXTENDED_PREFIX), code)
    BY <1>0, <1>2, SendType
  <2>5. n2 = After(code, Down, 1)
    BY <1>2 DEF Flag
  <2> QED
    BY <1>0, <2>2, <2>3, <2>4, <2>5, Sent, Zenon
<1>3. CASE ~ k.extended
  <2>1. out' = Append(out, code)
    BY <1>0, <1>3, SendType
  <2>2. n2 = After(code, Down, 0)
    BY <1>3 DEF Flag
  <2> QED
    BY <1>0, <1>1, <2>1, <2>2, Sent, Zenon
<1> QED
  BY <1>2, <1>3

\* A key goes down: what it will print is owed with the shift of this moment.
LEMMA PressPending ==
    ASSUME TypeOK, PendingInv, NEW k \in Keys, Press(k)
    PROVE  PendingInv'
<1> DEFINE n2 == After(k.code, Down, Flag(k.extended))
           w2 == IF Printed(k.code) THEN Append(owed, Mark(k.code, n2)) ELSE owed
<1>1. /\ phase = "ready" /\ phase' = "ready" /\ current_modifiers' = current_modifiers
      /\ extended_read' = extended_read /\ Send(k, k.code)
  BY DEF Press
<1>2. k.code \in 1 .. 223 /\ k.code \in 1 .. MAX_CODE - 1 /\ k.code \in Nat
  BY KeyType DEF MAX_CODE
<1>3. w2 \in Seq(Marks) /\ Explained(out', w2, current_modifiers, Flag(extended_read), n2, 0)
  BY <1>1, <1>2, KeySends
<1>4. /\ k.code % KEY_RELEASE_MASK = k.code /\ k.code # EXTENDED_PREFIX
      /\ k.code < KEY_RELEASE_MASK /\ k.code < MAX_CODE
  BY <1>2 DEF MAX_CODE, KEY_RELEASE_MASK, EXTENDED_PREFIX
<1>5. n2 = Down'
  BY <1>4, PressDown, KeyType DEF After, Flag
<1>6. Printed(k.code) <=> InTable(k.code) /\ keymap(k.code) # "none"
  BY <1>4 DEF Printed, Prints
<1>7. owed' = w2
  <2> DEFINE sh == \E h \in held : Shifted(Modifier(h.code, h.extended))
  <2>1. Printed(k.code) => Mark(k.code, n2) = <<k.code, sh>>
    <3> SUFFICES ASSUME Printed(k.code) PROVE Mark(k.code, n2) = <<k.code, sh>>
      OBVIOUS
    <3>1. n2 = Down
      BY <1>2, <1>4, PrintedCode DEF After
    <3>2. Shifted(Down) <=> sh
      BY DEF Shifted, Down
    <3>3. Shifted(n2) = sh
      BY <3>1, <3>2 DEF Shifted
    <3> QED
      BY <1>4, <3>3 DEF Mark
  <2>2. owed' = (IF InTable(k.code) /\ keymap(k.code) # "none" THEN Append(owed, <<k.code, sh>>)
                 ELSE owed)
    BY Zenon DEF Press
  <2> HIDE DEF sh, n2
  <2> QED
    BY <1>6, <2>1, <2>2, Zenon
<1> HIDE DEF n2, w2
<1> QED
  BY <1>1, <1>3, <1>5, <1>7 DEF PendingInv

\* A key comes up.
LEMMA ReleasePending ==
    ASSUME OneKeyPerModifier, TypeOK, PendingInv, NEW k \in Keys, Release(k)
    PROVE  PendingInv'
<1> DEFINE code == k.code + KEY_RELEASE_MASK
           n2 == After(code, Down, Flag(k.extended))
<1>1. /\ phase = "ready" /\ phase' = "ready" /\ current_modifiers' = current_modifiers
      /\ extended_read' = extended_read /\ owed' = owed /\ Send(k, code)
  BY DEF Release
<1>2. /\ code \in 1 .. 223 /\ code % KEY_RELEASE_MASK = k.code /\ code # EXTENDED_PREFIX
      /\ ~ (code < KEY_RELEASE_MASK)
  BY KeyType DEF MAX_CODE, KEY_RELEASE_MASK, EXTENDED_PREFIX
<1>3. ~ Printed(code)
  BY <1>2 DEF Printed, Prints
<1>4. n2 = Down'
  BY <1>2, ReleaseDown, KeyType DEF After, Flag
<1> HIDE DEF code
<1>5. owed \in Seq(Marks) /\ Explained(out', owed, current_modifiers, Flag(extended_read), n2, 0)
  BY <1>1, <1>2, <1>3, KeySends
<1> HIDE DEF n2
<1> QED
  BY <1>1, <1>4, <1>5 DEF PendingInv

-----------------------------------------------------------------------------
(* Theorems *)

\* Every variable keeps its type; that of screen says that the cursor is on it
\* and behind all text (keyboard_handler, fb_print_char).
THEOREM TypeCorrect == Spec => []TypeOK
BY InitInv, NextType, PTL DEF Spec

\* What is printed next never overwrites text, on a screen of any size, however
\* lines were wrapped, erased across line ends or cleared (fb_print_char).
THEOREM NeverOverwrites == Spec => []NothingAhead
<1>1. TypeOK => NothingAhead
  BY DEF TypeOK, ScreenOK, Before, NothingAhead
<1> QED
  BY <1>1, InitInv, NextType, PTL DEF Spec

\* Every step keeps PendingInv.
LEMMA NextPending ==
    ASSUME OneKeyPerModifier
    PROVE  TypeOK /\ PendingInv /\ [Next]_vars => PendingInv'
<1> SUFFICES ASSUME TypeOK, PendingInv, [Next]_vars PROVE PendingInv'
  OBVIOUS
<1>1. CASE UNCHANGED vars
  BY <1>1 DEF vars, PendingInv, Down
<1>2. CASE init_keyboard
  BY <1>2, InitKeyboardPending
<1>3. CASE keyboard_handler
  BY <1>3, HandlerPending
<1>4. ASSUME NEW k \in Keys, Press(k) \/ Release(k) PROVE PendingInv'
  BY <1>4, PressPending, ReleasePending
<1> QED
  BY <1>1, <1>2, <1>3, <1>4 DEF Next

\* When all bytes are handled, the modifiers are those of the keys that are
\* down, however many bytes were on their way and wherever interrupts fell
\* between a prefix and its code (translate, update_modifiers).
THEOREM ModifiersFollowKeys ==
    ASSUME OneKeyPerModifier
    PROVE  Spec => []ModifiersTrackKeys
<1>1. TypeOK /\ PendingInv => ModifiersTrackKeys
  <2> SUFFICES ASSUME PendingInv, phase = "ready", out = <<>> PROVE current_modifiers = Down
    BY DEF ModifiersTrackKeys, Down
  <2>1. Explained(<<>>, owed, current_modifiers, Flag(extended_read), Down, 0)
    BY DEF PendingInv
  <2> QED
    BY <2>1 DEF Explained
<1> QED
  BY <1>1, InitInv, NextType, NextPending, PTL DEF Spec

\* Every key prints its entry once, in the order of typing and with the shift of
\* the moment it was pressed (keyboard_handler, get_char).
THEOREM TypedIsPrintedOnce ==
    ASSUME OneKeyPerModifier
    PROVE  Spec => []TypedIsPrinted
<1>1. TypeOK /\ PendingInv => TypedIsPrinted
  <2> SUFFICES ASSUME TypeOK, PendingInv PROVE TypedIsPrinted
    OBVIOUS
  <2>1. \A i \in 1 .. Len(owed) : owed[i] # WRONG
    <3>1. \A i \in 1 .. Len(owed) : owed[i] \in Marks
      BY DEF PendingInv
    <3>2. WRONG \notin Marks
      BY DEF Marks, WRONG
    <3> QED
      BY <3>1, <3>2, Zenon
  <2>2. ASSUME out = <<>> PROVE owed = <<>>
    <3>1. CASE phase = "boot"
      BY <3>1 DEF PendingInv
    <3>2. CASE phase = "ready"
      <4>1. Explained(<<>>, owed, current_modifiers, Flag(extended_read), Down, 0)
        BY <2>2, <3>2 DEF PendingInv
      <4>2. Len(owed) = 0
        BY <4>1 DEF Explained, Handled
      <4> QED
        BY <4>2 DEF PendingInv
    <3> QED
      BY <3>1, <3>2 DEF TypeOK, PendingInv
  <2> QED
    BY <2>1, <2>2 DEF TypedIsPrinted
<1> QED
  BY <1>1, InitInv, NextType, NextPending, PTL DEF Spec

-----------------------------------------------------------------------------
(* The path of the first device interrupt *)

\* How many members of S are below i.
Rank(S, i) == Cardinality({j \in S : j < i})

\* The members of S are positive natural numbers, such as places in a list.
Positive(S) == \A j \in S : j \in Nat /\ j >= 1

\* A finite set of positive numbers below i has fewer members than i, one more
\* when the next number belongs to it, and no fewer when i grows.
LEMMA RankSteps ==
    ASSUME NEW S, Positive(S), NEW i \in Nat \ {0}
    PROVE  /\ Rank(S, i) \in Nat /\ Rank(S, i) < i
           /\ Rank(S, i + 1) = IF i \in S THEN Rank(S, i) + 1 ELSE Rank(S, i)
           /\ \A k \in Nat : i <= k => Rank(S, i) <= Rank(S, k)
<1>0. \A j \in S : j \in Nat /\ j >= 1
  BY DEF Positive
<1>1. \A k \in Nat : IsFiniteSet({j \in S : j < k})
  <2> TAKE k \in Nat
  <2>1. PICK A : A = {j \in S : j < k}
    OBVIOUS
  <2>2. A \in SUBSET Nat /\ \A j \in A : j <= k
    BY <1>0, <2>1
  <2>3. QED
    BY <2>1, <2>2, FS_BoundedSetOfNaturals
<1>2. {j \in S : j < i} \in SUBSET (1 .. i - 1)
  BY <1>0
<1>3. Rank(S, i) \in Nat /\ Rank(S, i) < i
  <2>1. IsFiniteSet(1 .. i - 1) /\ Cardinality(1 .. i - 1) = i - 1
    BY FS_Interval
  <2>2. Cardinality({j \in S : j < i}) <= i - 1
    BY <1>2, <2>1, FS_Subset
  <2>3. Cardinality({j \in S : j < i}) \in Nat
    BY <1>1, FS_CardinalityType
  <2>4. QED
    BY <2>2, <2>3 DEF Rank
<1>4. Rank(S, i + 1) = IF i \in S THEN Rank(S, i) + 1 ELSE Rank(S, i)
  <2>1. PICK A : A = {j \in S : j < i}
    OBVIOUS
  <2>2. PICK B : B = {j \in S : j < i + 1}
    OBVIOUS
  <2>3. IsFiniteSet(A) /\ i \notin A
    BY <1>1, <2>1
  <2>4. CASE i \in S
    <3>0. \A j \in S : j < i + 1 <=> j < i \/ j = i
      BY <1>0
    <3>1. B = A \cup {i}
      BY <2>1, <2>2, <2>4, <3>0
    <3>2. Cardinality(B) = Cardinality(A) + 1
      BY <2>3, <3>1, FS_AddElement
    <3>3. QED
      BY <2>1, <2>2, <2>4, <3>2 DEF Rank
  <2>5. CASE i \notin S
    <3>1. B = A
      BY <1>0, <2>1, <2>2, <2>5
    <3>2. QED
      BY <2>1, <2>2, <2>5, <3>1 DEF Rank
  <2>6. QED
    BY <2>4, <2>5
<1>5. ASSUME NEW k \in Nat, i <= k PROVE Rank(S, i) <= Rank(S, k)
  <2>1. {j \in S : j < i} \in SUBSET {j \in S : j < k}
    BY <1>0, <1>5
  <2>2. QED
    BY <1>1, <2>1, FS_Subset DEF Rank
<1>6. QED
  BY <1>3, <1>4, <1>5

\* Members of S have different ranks, in their order.
LEMMA RankOrder ==
    ASSUME NEW S, Positive(S), NEW i \in S, NEW k \in Nat, i < k
    PROVE  Rank(S, i) < Rank(S, k)
<1>1. i + 1 \in Nat \ {0} /\ i + 1 <= k /\ i \in Nat \ {0}
  BY DEF Positive
<1>2. PICK l \in Nat \ {0} : l = i + 1 /\ l <= k
  BY <1>1
<1>3. Rank(S, l) <= Rank(S, k) /\ Rank(S, l) \in Nat
  BY <1>2, RankSteps
<1>4. Rank(S, l) = Rank(S, i) + 1 /\ Rank(S, i) \in Nat
  BY <1>1, <1>2, RankSteps
<1>5. k \in Nat \ {0}
  BY <1>2
<1>6. Rank(S, k) \in Nat
  BY <1>5, RankSteps
<1>7. QED
  BY <1>3, <1>4, <1>6

\* Every rank below the rank of i is that of a member below i.
LEMMA RankHit ==
    ASSUME NEW S, Positive(S), NEW i \in Nat \ {0},
           NEW m \in Nat, m < Rank(S, i)
    PROVE  \E k \in S : k < i /\ Rank(S, k) = m
<1>1. PICK A : A = {k \in Nat \ {0} : m < Rank(S, k + 1)}
  OBVIOUS
<1>2. Rank(S, 1) = 0
  BY RankSteps
<1>3. PICK p \in Nat \ {0} : p + 1 = i
  <2>1. i # 1
    BY <1>2
  <2>2. i - 1 \in Nat \ {0} /\ (i - 1) + 1 = i
    BY <2>1
  <2>3. QED
    BY <2>2
<1>4. A # {} /\ A \subseteq Nat /\ p \in A
  BY <1>1, <1>3
<1>5. PICK k \in A : \A e \in A : k <= e
  BY <1>4, LeastElement
<1>6. k \in Nat \ {0} /\ k <= p
  BY <1>1, <1>4, <1>5
<1>7. Rank(S, k) <= m /\ Rank(S, k) \in Nat
  <2>1. Rank(S, k) \in Nat
    BY <1>6, RankSteps
  <2>2. CASE k = 1
    BY <1>2, <2>2
  <2>3. CASE k # 1
    <3>1. PICK q \in Nat \ {0} : q + 1 = k /\ q < k
      <4>1. k - 1 \in Nat \ {0} /\ (k - 1) + 1 = k /\ k - 1 < k
        BY <1>6, <2>3
      <4>2. QED
        BY <4>1
    <3>2. q \notin A
      BY <1>5, <1>6, <3>1
    <3>3. QED
      BY <1>1, <2>1, <3>1, <3>2
  <2>4. QED
    BY <2>1, <2>2, <2>3
<1>8. /\ m < Rank(S, k + 1)
      /\ Rank(S, k + 1) = IF k \in S THEN Rank(S, k) + 1 ELSE Rank(S, k)
  BY <1>1, <1>5, <1>6, RankSteps
<1>9. k \in S /\ Rank(S, k) = m
  BY <1>7, <1>8
<1>10. QED
  BY <1>3, <1>6, <1>9

-----------------------------------------------------------------------------

\* The places of the interrupt source overrides in the MADT.
Sos == {i \in DOMAIN items : items[i].type = "so"}

MadtItem == [type : Types, irq : 0 .. 15, gsi : Pins]

\* Reading a counter that has fewer values than C does not change it.
LEMMA ModSmall ==
    ASSUME NEW C \in Nat, C # 0, NEW x \in Nat, x < C
    PROVE  x % C = x
OBVIOUS

\* A counter with C values holds one of them, and holds it unchanged.
LEMMA ModAgain ==
    ASSUME NEW C \in Nat, C # 0, NEW x \in Nat
    PROVE  x % C \in Nat /\ x % C < C /\ (x % C) % C = x % C
<1>1. PICK y \in Nat : y = x % C /\ y < C
  OBVIOUS
<1>2. y % C = y
  BY <1>1, ModSmall
<1>3. QED
  BY <1>1, <1>2

\* The overrides at which the counter of get_madt_item has the value of n.
SosAt(n) == {i \in Sos : Rank(Sos, i) % CountValues = n % CountValues}

\* get_madt_item finds the first of them.
LEMMA ItemByRank ==
    ASSUME items \in Seq(MadtItem), NEW n \in Nat
    PROVE  /\ Positive(Sos)
           /\ get_madt_item("so", n) = {i \in SosAt(n) : \A j \in SosAt(n) : i <= j}
           /\ get_madt_item("so", n) = {} <=> SosAt(n) = {}
<1>1. DOMAIN items = 1 .. Len(items) /\ Len(items) \in Nat
  OBVIOUS
<1>2. \A i \in Sos : i \in 1 .. Len(items) /\ i \in Nat /\ i >= 1
  BY <1>1 DEF Sos
<1>3. ASSUME NEW i \in DOMAIN items
      PROVE  Earlier("so", i) = {j \in Sos : j < i}
  BY <1>1 DEF Sos, Earlier
<1>4. PICK H : H = {i \in DOMAIN items : items[i].type = "so"
                       /\ Cardinality(Earlier("so", i)) % CountValues = n % CountValues}
  OBVIOUS
<1>5. get_madt_item("so", n) = {i \in H : \A j \in H : i <= j}
  BY <1>4, Zenon DEF get_madt_item
<1>6. \A i \in DOMAIN items :
          (items[i].type = "so" /\ Cardinality(Earlier("so", i)) % CountValues = n % CountValues)
             <=> (i \in Sos /\ Rank(Sos, i) % CountValues = n % CountValues)
  BY <1>3 DEF Rank, Sos
<1>7. \A i : i \in H <=> i \in SosAt(n)
  BY ONLY <1>4, <1>6 DEF Sos, SosAt
<1>8. H = SosAt(n)
  BY ONLY <1>7
<1>9. SosAt(n) # {} => \E i \in SosAt(n) : \A j \in SosAt(n) : i <= j
  <2>1. SosAt(n) \subseteq Nat
    BY <1>2 DEF SosAt
  <2>2. QED
    BY <2>1, LeastElement
<1>10. QED
  BY <1>2, <1>5, <1>8, <1>9 DEF Positive

\* When the loop of get_madt_count ends, it has counted all overrides, and the
\* counter has not wrapped.
LEMMA CountCovers ==
    ASSUME items \in Seq(MadtItem), CountEnds("so"), NEW N, N = get_madt_count("so")
    PROVE  /\ N \in Nat /\ N < CountValues
           /\ \A i \in Sos : Rank(Sos, i) \in Nat /\ Rank(Sos, i) < N
           /\ \A m \in 0 .. N - 1 : \E i \in Sos : Rank(Sos, i) = m
<1>0. Positive(Sos) /\ Len(items) \in Nat /\ \A i \in Sos : i \in 1 .. Len(items)
  <2>1. 0 \in Nat
    OBVIOUS
  <2>2. Positive(Sos)
    BY <2>1, ItemByRank
  <2>3. QED
    BY <2>2 DEF Sos
<1>c. CountValues \in Nat /\ CountValues # 0
  BY InterruptsAssumption DEF InterruptsAssumption
<1>1. ASSUME NEW n \in Nat
      PROVE  get_madt_item("so", n) = {} <=> SosAt(n) = {}
  BY ItemByRank
<1>2. \A i \in Sos : Rank(Sos, i) \in Nat
  <2> TAKE i \in Sos
  <2>1. i \in Nat \ {0} /\ i <= Len(items)
    BY <1>0
  <2>2. QED
    BY <1>0, <2>1, RankSteps
<1>3. PICK E : E = {n \in 0 .. Len(items) : get_madt_item("so", n) = {}}
  OBVIOUS
<1>4. E # {} /\ E \subseteq Nat
  BY <1>0, <1>3 DEF CountEnds
<1>5. PICK c \in E : \A e \in E : c <= e
  BY <1>4, LeastElement
<1>6. c \in 0 .. Len(items) /\ get_madt_item("so", c) = {}
  BY <1>3
<1>7. \A m \in 0 .. c - 1 : get_madt_item("so", m) # {}
  <2> TAKE m \in 0 .. c - 1
  <2>1. m \in 0 .. Len(items) /\ ~ (c <= m)
    BY <1>0, <1>6
  <2>2. QED
    BY <1>3, <1>5, <2>1
<1>8. /\ N \in 0 .. Len(items) /\ get_madt_item("so", N) = {}
      /\ \A m \in 0 .. N - 1 : get_madt_item("so", m) # {}
  BY <1>6, <1>7 DEF get_madt_count
<1>9. N \in Nat
  BY <1>0, <1>8
<1>10. ASSUME NEW i \in Sos PROVE Rank(Sos, i) < N
  <2>1. SUFFICES ASSUME N <= Rank(Sos, i) PROVE FALSE
    BY <1>2, <1>9
  <2>2. i \in Nat \ {0}
    BY <1>0
  <2>3. PICK k \in Sos : Rank(Sos, k) = N
    <3>1. CASE N = Rank(Sos, i)
      BY <3>1
    <3>2. CASE N < Rank(Sos, i)
      BY <1>0, <1>9, <2>2, <3>2, RankHit
    <3>3. QED
      BY <1>2, <1>9, <2>1, <3>1, <3>2
  <2>4. k \in SosAt(N)
    BY <2>3 DEF SosAt
  <2>5. QED
    BY <1>1, <1>8, <1>9, <2>4
<1>11. N < CountValues
  <2>1. SUFFICES ASSUME CountValues <= N PROVE FALSE
    BY <1>9, <1>c
  <2>2. PICK m \in Nat : m = N % CountValues /\ m < CountValues /\ m % CountValues = N % CountValues
    BY <1>9, <1>c, ModAgain
  <2>3. m \in 0 .. N - 1
    BY <1>9, <1>c, <2>1, <2>2
  <2>4. SosAt(m) = SosAt(N)
    BY <2>2 DEF SosAt
  <2>5. QED
    BY <1>1, <1>8, <1>9, <2>2, <2>3, <2>4
<1>12. ASSUME NEW m \in 0 .. N - 1 PROVE \E i \in Sos : Rank(Sos, i) = m
  <2>1. m \in Nat /\ m < CountValues
    BY <1>9, <1>11, <1>c
  <2>2. PICK i \in SosAt(m) : TRUE
    BY <1>1, <1>8, <2>1
  <2>3. PICK r \in Nat : r = Rank(Sos, i) /\ r < CountValues
    BY <1>2, <1>9, <1>10, <1>11, <1>c, <2>2 DEF SosAt
  <2>4. r % CountValues = r /\ m % CountValues = m
    BY <1>c, <2>1, <2>3, ModSmall
  <2>5. QED
    BY <2>2, <2>3, <2>4 DEF SosAt
<1>13. QED
  BY <1>2, <1>9, <1>10, <1>11, <1>12

\* ovrds holds the override with r before it at place r + 1.
LEMMA OverridesInOrder ==
    ASSUME items \in Seq(MadtItem), CountEnds("so"), ovrds = Overrides,
           NEW N, N = get_madt_count("so")
    PROVE  /\ DOMAIN ovrds = 1 .. N /\ N \in Nat
           /\ \A i \in Sos : Rank(Sos, i) \in Nat /\ Rank(Sos, i) + 1 \in 1 .. N
                             /\ ovrds[Rank(Sos, i) + 1] = items[i]
           /\ \A k \in 1 .. N : \E i \in Sos : Rank(Sos, i) + 1 = k
<1>1. /\ N \in Nat /\ N < CountValues
      /\ \A i \in Sos : Rank(Sos, i) \in Nat /\ Rank(Sos, i) < N
      /\ \A m \in 0 .. N - 1 : \E i \in Sos : Rank(Sos, i) = m
  BY CountCovers
<1>2. Positive(Sos)
  BY <1>1, ItemByRank
<1>c. CountValues \in Nat /\ CountValues # 0
  BY InterruptsAssumption DEF InterruptsAssumption
<1>3. DOMAIN ovrds = 1 .. N
  BY DEF Overrides
<1>4. ASSUME NEW i \in Sos
      PROVE  /\ Rank(Sos, i) \in Nat /\ Rank(Sos, i) + 1 \in 1 .. N
             /\ ovrds[Rank(Sos, i) + 1] = items[i]
  <2>1. i \in Nat \ {0}
    BY <1>2 DEF Positive
  <2>2. PICK r \in Nat : r = Rank(Sos, i) /\ r < N
    BY <1>1
  <2>3. \A k \in Sos : k \in SosAt(r) <=> Rank(Sos, k) = r
    <3> TAKE k \in Sos
    <3>1. PICK x \in Nat : x = Rank(Sos, k) /\ x < CountValues
      BY <1>1, <1>c
    <3>2. x % CountValues = x /\ r % CountValues = r
      BY <1>1, <1>c, <2>2, <3>1, ModSmall
    <3>3. QED
      BY <3>1, <3>2 DEF SosAt
  <2>4. ASSUME NEW k \in Sos, Rank(Sos, k) = r PROVE k = i
    <3>1. k \in Nat /\ i \in Nat
      BY <1>2 DEF Positive
    <3>2. ~ (k < i) /\ ~ (i < k)
      BY <1>2, <2>2, <2>4, <3>1, RankOrder
    <3>3. QED
      BY <3>1, <3>2
  <2>5. get_madt_item("so", r) = {i}
    <3>1. \A k : k \in SosAt(r) <=> k = i
      BY <2>2, <2>3, <2>4 DEF SosAt
    <3>2. get_madt_item("so", r) = {k \in SosAt(r) : \A j \in SosAt(r) : k <= j}
      BY <2>2, ItemByRank
    <3>3. QED
      BY <2>1, <3>1, <3>2
  <2>6. PICK k \in 1 .. N : k = r + 1 /\ k - 1 = r
    BY <1>1, <2>2
  <2>7. ovrds[k] = items[CHOOSE x \in get_madt_item("so", k - 1) : TRUE]
    BY DEF Overrides
  <2>8. ovrds[k] = items[i]
    BY <2>5, <2>6, <2>7
  <2>9. QED
    BY <2>2, <2>6, <2>8
<1>5. ASSUME NEW k \in 1 .. N PROVE \E i \in Sos : Rank(Sos, i) + 1 = k
  <2>1. PICK m \in 0 .. N - 1 : m + 1 = k
    <3>1. k - 1 \in 0 .. N - 1 /\ (k - 1) + 1 = k
      BY <1>1
    <3>2. QED
      BY <3>1
  <2>2. QED
    BY <1>1, <2>1
<1>6. QED
  BY <1>1, <1>3, <1>4, <1>5

\* find_so leads set_irq to the pin the firmware says the line is wired to.
LEMMA PinIsWired ==
    ASSUME items \in Seq(MadtItem), CountEnds("so"), ovrds = Overrides
    PROVE  PinOf(0) = Wired(0) /\ PinOf(0) \in Pins
<1>1. PICK N : N = get_madt_count("so")
  OBVIOUS
<1>2. /\ DOMAIN ovrds = 1 .. N /\ N \in Nat
      /\ \A i \in Sos : Rank(Sos, i) \in Nat /\ Rank(Sos, i) + 1 \in 1 .. N
                        /\ ovrds[Rank(Sos, i) + 1] = items[i]
      /\ \A k \in 1 .. N : \E i \in Sos : Rank(Sos, i) + 1 = k
  BY <1>1, OverridesInOrder
<1>3. Positive(Sos) /\ \A i \in Sos : i \in DOMAIN items /\ items[i] \in MadtItem
  <2>1. Positive(Sos)
    BY <1>2, ItemByRank
  <2>2. QED
    BY <2>1 DEF Sos
<1>4. PICK Z : Z = {i \in Sos : items[i].irq = 0}
  OBVIOUS
<1>5. Z = {i \in DOMAIN items : items[i].type = "so" /\ items[i].irq = 0}
  BY <1>4 DEF Sos
<1>6. CASE Z = {}
  <2>1. Wired(0) = 0
    BY <1>5, <1>6 DEF Wired
  <2>2. ASSUME NEW k \in DOMAIN ovrds PROVE ovrds[k].irq # 0
    <3>1. PICK i \in Sos : Rank(Sos, i) + 1 = k
      BY <1>2
    <3>2. ovrds[k] = items[i]
      BY <1>2, <3>1
    <3>3. QED
      BY <1>4, <1>6, <3>2
  <2>3. find_so(0) = {}
    BY <2>2 DEF find_so
  <2>4. QED
    BY <2>1, <2>3 DEF PinOf, Pins
<1>7. CASE Z # {}
  <2>1. Z \subseteq Nat
    BY <1>3, <1>4 DEF Positive
  <2>2. PICK i \in Z : \A j \in Z : i <= j
    BY <1>7, <2>1, LeastElement
  <2>3. Wired(0) = items[i].gsi
    <3>1. \A x \in Z : (\A j \in Z : x <= j) => x = i
      BY <2>1, <2>2
    <3>2. (CHOOSE x \in Z : \A j \in Z : x <= j) = i
      BY <2>2, <3>1
    <3>3. QED
      BY <1>5, <1>7, <3>2 DEF Wired
  <2>4. PICK k : k = Rank(Sos, i) + 1
    OBVIOUS
  <2>5. i \in Sos /\ items[i].irq = 0 /\ k \in 1 .. N /\ ovrds[k] = items[i]
    BY <1>2, <1>4, <2>4
  <2>6. ASSUME NEW j \in 1 .. k - 1 PROVE j \in DOMAIN ovrds /\ ovrds[j].irq # 0
    <3>1. j \in 1 .. N
      BY <1>2, <2>5
    <3>2. PICK l \in Sos : Rank(Sos, l) + 1 = j
      BY <1>2, <3>1
    <3>3. Rank(Sos, l) \in Nat /\ Rank(Sos, i) \in Nat /\ Rank(Sos, l) < Rank(Sos, i)
      BY <1>2, <2>4, <2>5, <3>2
    <3>4. l \in Nat /\ i \in Nat /\ l # i
      BY <1>3, <2>5, <3>3 DEF Positive
    <3>5. ~ (i < l)
      BY <1>3, <2>5, <3>3, <3>4, RankOrder
    <3>6. l \notin Z
      BY <2>2, <3>4, <3>5
    <3>7. QED
      BY <1>2, <1>4, <3>1, <3>2, <3>6
  <2>7. ASSUME NEW x \in find_so(0) PROVE x = k
    <3>1. x \in 1 .. N /\ ovrds[x].irq = 0 /\ \A j \in 1 .. x - 1 : ovrds[j].irq # 0
      BY <1>2 DEF find_so
    <3>i. N \in Nat /\ k \in 1 .. N /\ ovrds[k].irq = 0
      BY <1>2, <2>5
    <3>2. ~ (x < k)
      <4>1. x < k => x \in 1 .. k - 1
        BY ONLY <3>1, <3>i
      <4>2. QED
        BY ONLY <2>6, <3>1, <4>1
    <3>3. ~ (k < x)
      <4>1. k < x => k \in 1 .. x - 1
        BY ONLY <3>1, <3>i
      <4>2. QED
        BY ONLY <3>1, <3>i, <4>1
    <3>4. QED
      BY <3>1, <3>2, <3>3, <3>i
  <2>8. k \in find_so(0)
    BY <1>2, <2>5, <2>6 DEF find_so
  <2>9. find_so(0) = {k}
    BY <2>7, <2>8
  <2>10. PinOf(0) = items[i].gsi % 256
    BY <2>5, <2>9 DEF PinOf
  <2>11. items[i].gsi \in 0 .. 23
    BY <1>3, <2>5 DEF MadtItem, Pins
  <2>12. PICK g \in 0 .. 23 : g = items[i].gsi
    BY <2>11
  <2>13. g % 256 = g
    OBVIOUS
  <2>14. QED
    BY <2>3, <2>10, <2>12, <2>13 DEF Pins
<1>8. QED
  BY <1>6, <1>7

\* The entry of a pin is at a position write_redirect accepts.
LEMMA EntryWritten ==
    ASSUME NEW p \in Pins, NEW e
    PROVE  write_redirect(redtbl_pos(p), e) = [redtbl EXCEPT ![p] = e]
<1>1. PICK pos : pos = redtbl_pos(p)
  OBVIOUS
<1>2. p \in 0 .. 23 /\ pos = 16 + 2 * p
  BY <1>1 DEF redtbl_pos, REDTBL, Pins
<1>3. pos >= 16 /\ pos <= 63 /\ pos % 2 = 0 /\ (pos - 16) \div 2 = p
  BY <1>2
<1>4. ~ (pos < 16 \/ pos > 63 \/ pos % 2 # 0)
  BY <1>2, <1>3
<1>5. PICK q : q = (pos - 16) \div 2
  OBVIOUS
<1>6. write_redirect(pos, e) = [redtbl EXCEPT ![q] = e]
  BY <1>4, <1>5 DEF write_redirect, REDTBL
<1>7. QED
  BY <1>1, <1>3, <1>5, <1>6

-----------------------------------------------------------------------------
(* The invariant of the route *)

\* The steps after the PIT's line is routed.
AfterRoute == {"pit", "unmask", "wait", "mask", "reset", "done"}

Entries == [vector : Nat, mask : BOOLEAN]

\* The gates a processor with a local APIC has once init_lapic is through.
GatesInstalled ==
    pc \in {"ioapic", "route"} \cup AfterRoute /\ apic # "none" => PIT_IDT_ENTRY \in gates

\* Once the line is routed, the entry of its pin leads to the PIT's handler, and
\* of all entries only that one may differ from what the firmware left, while it
\* is unmasked, on a processor that has the handler.
RouteInv ==
    /\ items \in Madts
    /\ found => CountEnds("so") /\ ovrds = Overrides
    /\ redtbl \in [Pins -> Entries]
    /\ pc \in {"route"} \cup AfterRoute => found
    /\ pc \in AfterRoute => redtbl[PinOf(0)].vector = PIT_IDT_ENTRY
    /\ pc \in AfterRoute \ {"pit"} => apic # "none"
    /\ GatesInstalled
    /\ \A p \in Pins : redtbl[p].mask \/ redtbl[p] = left[p] \/
           /\ found /\ p = PinOf(0)
           /\ redtbl[p].vector = PIT_IDT_ENTRY /\ PIT_IDT_ENTRY \in gates

\* At boot the entries are the firmware's.
LEMMA RouteInit == IrqInit => RouteInv
<1> SUFFICES ASSUME IrqInit PROVE RouteInv
  OBVIOUS
<1>1. left \in [Pins -> [vector : 0 .. 255, mask : BOOLEAN]]
  BY InterruptsAssumption DEF IrqInit, InterruptsAssumption
<1>2. redtbl = left /\ redtbl \in [Pins -> Entries]
  <2>1. \A e \in [vector : 0 .. 255, mask : BOOLEAN] : e \in Entries
    BY DEF Entries
  <2>2. QED
    BY <1>1, <2>1 DEF IrqInit
<1>3. items \in Madts /\ found = FALSE /\ pc = "acpi"
  BY DEF IrqInit
<1>4. \A p \in Pins : redtbl[p] = left[p]
  BY <1>2
<1>5. QED
  BY <1>2, <1>3, <1>4 DEF RouteInv, AfterRoute, GatesInstalled

\* Every step keeps it.
LEMMA RouteNext ==
    ASSUME RouteInv, [IrqNext]_irq_vars
    PROVE  RouteInv'
<1>0. items \in Seq(MadtItem)
  BY InterruptsAssumption DEF InterruptsAssumption, RouteInv, MadtItem
<1>1. found => PinOf(0) \in Pins
  BY <1>0, PinIsWired DEF RouteInv
<1>2. items' = items => (Overrides)' = Overrides /\ (CountEnds("so"))' = CountEnds("so")
  BY SMT DEF Overrides, CountEnds, get_madt_count, get_madt_item, Earlier
<1>3. ovrds' = ovrds => (PinOf(0))' = PinOf(0)
  BY SMT DEF PinOf, find_so
<1> USE DEF firmware
<1>4. CASE init_acpi
  <2>1. /\ UNCHANGED <<items, apic, left, gates, redtbl>> /\ pc = "acpi"
        /\ pc' \in {"lapic", "counting", "halted"}
        /\ \/ UNCHANGED <<ovrds, found>>
           \/ ovrds' = Overrides /\ found' = TRUE /\ CountEnds("so")
    BY <1>4 DEF init_acpi, ParseHangs, ParseFaults, OverridesFit
  <2>2. CASE UNCHANGED <<ovrds, found>>
    BY <1>2, <1>3, <2>1, <2>2 DEF RouteInv, AfterRoute, GatesInstalled
  <2>3. CASE ovrds' = Overrides /\ found' = TRUE /\ CountEnds("so")
    <3>1. CASE found
      <4>1. UNCHANGED <<ovrds, found>>
        BY <2>3, <3>1 DEF RouteInv
      <4>2. QED
        BY <2>2, <4>1
    <3>2. CASE ~ found
      <4>1. \A p \in Pins : redtbl[p].mask \/ redtbl[p] = left[p]
        BY <3>2 DEF RouteInv
      <4>2. QED
        BY <1>2, <2>1, <2>3, <4>1 DEF RouteInv, AfterRoute, GatesInstalled
    <3>3. QED
      BY <3>1, <3>2
  <2>4. QED
    BY <2>1, <2>2, <2>3
<1>5. CASE init_lapic
  <2>1. /\ UNCHANGED <<items, apic, left, ovrds, found, redtbl>>
        /\ pc = "lapic" /\ pc' \in {"ioapic", "halted"}
        /\ gates \subseteq gates'
        /\ pc' = "ioapic" /\ apic # "none" => PIT_IDT_ENTRY \in gates'
    BY <1>5 DEF init_lapic
  <2>2. QED
    BY <1>2, <1>3, <2>1 DEF RouteInv, AfterRoute, GatesInstalled
<1>6. CASE init_ioapic
  <2>1. /\ UNCHANGED <<items, apic, left, ovrds, found, gates, redtbl>>
        /\ pc' = IF found THEN "route" ELSE "halted"
        /\ pc = "ioapic"
    BY <1>6 DEF init_ioapic
  <2>2. QED
    BY <1>2, <1>3, <2>1 DEF RouteInv, AfterRoute, GatesInstalled
<1>7. CASE RoutePit
  <2>1. /\ UNCHANGED <<items, apic, left, ovrds, found, gates>> /\ pc = "route" /\ pc' = "pit"
        /\ redtbl' = write_redirect(redtbl_pos(PinOf(0)),
                                      [vector |-> PIT_IDT_ENTRY, mask |-> TRUE])
    BY <1>7 DEF RoutePit, Step, set_irq
  <2>2. PICK p \in Pins : p = PinOf(0)
    BY <1>1, <2>1 DEF RouteInv
  <2>3. PICK e : e = [vector |-> PIT_IDT_ENTRY, mask |-> TRUE]
    OBVIOUS
  <2>4. redtbl' = [redtbl EXCEPT ![p] = e]
    BY <2>1, <2>2, <2>3, EntryWritten
  <2>5. e \in Entries /\ e.mask /\ e.vector = PIT_IDT_ENTRY
    BY <2>3 DEF PIT_IDT_ENTRY, Entries
  <2>6. redtbl' \in [Pins -> Entries]
    BY <2>4, <2>5 DEF RouteInv
  <2>7. redtbl'[p] = e /\ \A q \in Pins : q # p => redtbl'[q] = redtbl[q]
    BY <2>2, <2>4 DEF RouteInv
  <2>8. QED
    BY <1>2, <1>3, <2>1, <2>2, <2>5, <2>6, <2>7 DEF RouteInv, AfterRoute, GatesInstalled
<1>8. CASE StartPit
  <2>1. /\ UNCHANGED <<items, apic, left, ovrds, found, gates, redtbl>> /\ pc = "pit"
        /\ pc' = IF apic # "none" THEN "unmask" ELSE "halted"
    BY <1>8 DEF StartPit, Step
  <2>2. QED
    BY <1>2, <1>3, <2>1 DEF RouteInv, AfterRoute, GatesInstalled
<1>9. ASSUME NEW masked \in BOOLEAN, NEW e,
             UNCHANGED <<items, apic, left, ovrds, found, gates>>,
             pc \in AfterRoute \ {"pit"}, pc' \in AfterRoute,
             e = [redtbl[PinOf(0)] EXCEPT !.mask = masked],
             redtbl' = write_redirect(redtbl_pos(PinOf(0)), e)
      PROVE  RouteInv'
  <2>1. found /\ apic # "none" /\ PIT_IDT_ENTRY \in gates
    BY <1>9 DEF RouteInv, AfterRoute, GatesInstalled
  <2>2. PICK p \in Pins : p = PinOf(0)
    BY <1>1, <2>1
  <2>3. redtbl' = [redtbl EXCEPT ![p] = e]
    BY <1>9, <2>2, EntryWritten
  <2>4. redtbl[p] \in Entries /\ redtbl[p].vector = PIT_IDT_ENTRY
    BY <1>9, <2>2 DEF RouteInv
  <2>5. e \in Entries /\ e.vector = PIT_IDT_ENTRY
    BY <1>9, <2>2, <2>4 DEF Entries
  <2>6. redtbl' \in [Pins -> Entries]
    BY <2>3, <2>5 DEF RouteInv
  <2>7. redtbl'[p] = e /\ \A q \in Pins : q # p => redtbl'[q] = redtbl[q]
    BY <2>2, <2>3 DEF RouteInv
  <2>8. QED
    BY <1>2, <1>3, <1>9, <2>1, <2>2, <2>5, <2>6, <2>7 DEF RouteInv, AfterRoute, GatesInstalled
<1>10. CASE UnmaskPit
  <2>1. PICK e : e = [redtbl[PinOf(0)] EXCEPT !.mask = FALSE]
    OBVIOUS
  <2>2. /\ UNCHANGED <<items, apic, left, ovrds, found, gates>> /\ pc = "unmask" /\ pc' = "wait"
        /\ redtbl' = write_redirect(redtbl_pos(PinOf(0)), e)
    BY <1>10, <2>1 DEF UnmaskPit, Step, set_irq_mask
  <2>3. QED
    BY <1>9, <2>1, <2>2 DEF AfterRoute
<1>11. CASE MaskPit
  <2>1. PICK e : e = [redtbl[PinOf(0)] EXCEPT !.mask = TRUE]
    OBVIOUS
  <2>2. /\ UNCHANGED <<items, apic, left, ovrds, found, gates>> /\ pc = "mask" /\ pc' = "reset"
        /\ redtbl' = write_redirect(redtbl_pos(PinOf(0)), e)
    BY <1>11, <2>1 DEF MaskPit, Step, set_irq_mask
  <2>3. QED
    BY <1>9, <2>1, <2>2 DEF AfterRoute
<1>12. CASE Waited \/ ResetTicks
  <2>1. /\ UNCHANGED <<items, apic, left, ovrds, found, gates, redtbl>>
        /\ pc \in AfterRoute \ {"pit"} /\ pc' \in AfterRoute
    BY <1>12 DEF Waited, ResetTicks, Step, AfterRoute
  <2>2. QED
    BY <1>2, <1>3, <2>1 DEF RouteInv, GatesInstalled
<1>13. CASE (\E p \in Pins : Raise(p)) \/ Idles \/ UNCHANGED irq_vars
  <2>1. UNCHANGED <<items, apic, left, ovrds, found, gates, redtbl, pc>>
    BY <1>13 DEF Raise, Idles, irq_vars
  <2>2. QED
    BY <1>2, <1>3, <2>1 DEF RouteInv, GatesInstalled
<1>14. CASE \E v \in pending : Deliver(v)
  <2>1. UNCHANGED <<items, apic, left, ovrds, found, gates, redtbl>> /\ pc' \in {pc, "halted"}
    BY <1>14 DEF Deliver
  <2>2. QED
    BY <1>2, <1>3, <2>1 DEF RouteInv, AfterRoute, GatesInstalled
<1>15. QED
  BY <1>4, <1>5, <1>6, <1>7, <1>8, <1>10, <1>11, <1>12, <1>13, <1>14 DEF IrqNext, Boot

\* At any time, whatever the firmware's tables hold, a pin that is not masked
\* either has the entry the firmware left there, or is the one the PIT's line is
\* wired to and leads to a vector with a handler.
THEOREM UnmaskedLeadsToHandler ==
    IrqSpec => []UnmaskedIsHandled
<1>1. RouteInv => UnmaskedIsHandled
  <2> SUFFICES ASSUME RouteInv, NEW p \in Pins, ~ redtbl[p].mask, redtbl[p] # left[p]
               PROVE  p = Wired(0) /\ redtbl[p].vector \in gates \ 0 .. 31
    BY DEF UnmaskedIsHandled
  <2>1. items \in Seq(MadtItem)
    BY InterruptsAssumption DEF InterruptsAssumption, RouteInv, MadtItem
  <2>2. CountEnds("so") /\ ovrds = Overrides /\ p = PinOf(0) /\ redtbl[p].vector = 34 /\ 34 \in gates
    BY DEF RouteInv, PIT_IDT_ENTRY
  <2>3. p = Wired(0)
    BY <2>1, <2>2, PinIsWired
  <2>4. QED
    BY <2>2, <2>3
<1>2. RouteInv /\ [IrqNext]_irq_vars => RouteInv'
  BY RouteNext
<1>3. QED
  BY <1>1, <1>2, RouteInit, PTL DEF IrqSpec
=============================================================================
