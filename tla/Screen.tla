------------------------------- MODULE Screen -------------------------------
(***************************************************************************)
(* The text screen of drivers/framebuffer.c as operators on a record       *)
(*    [x, y, ink]                                                          *)
(* x and y are screen_x and screen_y; ink is the set of cells that show    *)
(* anything else than the background, which is all find_last_char looks    *)
(* at.  A character is newline, backspace, tab, space or a visible glyph.  *)
(***************************************************************************)
EXTENDS Integers

CONSTANTS Cols, Rows   \* screen_num_cols, screen_num_rows

ASSUME ScreenAssumption == Cols \in Nat \ {0} /\ Rows \in Nat \ {0}

Blank == [x |-> 0, y |-> 0, ink |-> {}]

clear_screen(s) == Blank

putchar(s, c) ==
    [s EXCEPT !.ink = IF c = "glyph" THEN @ \cup {<<s.x, s.y>>} ELSE @ \ {<<s.x, s.y>>}]

\* The loop goes left over background until it meets a glyph or column 0.
Leftwards(s, x, y) ==
    CHOOSE i \in 0 .. x : /\ i = 0 \/ <<i, y>> \in s.ink
                          /\ \A j \in i + 1 .. x : <<j, y>> \notin s.ink

find_last_char(s) ==
    IF s.x = 0 /\ s.y = 0 THEN s
    ELSE LET y == IF s.x = 0 THEN s.y - 1 ELSE s.y
             x == IF s.x = 0 THEN Cols - 1 ELSE s.x - 1
         IN [s EXCEPT !.x = Leftwards(s, x, y), !.y = y]

\* The trailing check of fb_print_char.
Scrolled(s) == IF s.y >= Rows THEN clear_screen(s) ELSE s

Newline(s) == [s EXCEPT !.x = 0, !.y = @ + 1]

Put(s, c) ==
    LET p == putchar(s, c) IN
    Scrolled(IF p.x + 1 >= Cols THEN Newline(p) ELSE [p EXCEPT !.x = @ + 1])

\* Mutant of Erase: the character the cursor goes back to stays.
EraseNothing(s) == find_last_char(s)

Erase(s) == putchar(find_last_char(s), "space")

fb_print_char(s, c) ==
    CASE c = "newline" -> Scrolled(Newline(s))
      [] c = "backspace" -> Erase(s)
      [] c = "tab" -> Put(Put(Put(Put(s, "space"), "space"), "space"), "space")
      [] OTHER    -> Put(s, c)
=============================================================================
