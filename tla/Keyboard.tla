------------------------------ MODULE Keyboard ------------------------------
(***************************************************************************)
(* The keyboard driver (drivers/keyboard.c) between a PS/2 keyboard and    *)
(* the screen.  The controller translates to scan code set 1: a key sends  *)
(* its code when it goes down (again and again while it is held) and its   *)
(* code with KEY_RELEASE_MASK when it comes up, with EXTENDED_PREFIX in    *)
(* front if it is an extended one.  Every byte raises one interrupt.       *)
(***************************************************************************)
EXTENDS Screen, Sequences

CONSTANTS Keys,      \* the keys of the keyboard, as [code, extended]
          Config,    \* the controller's configuration byte
          MaxBytes   \* bound: bytes that wait in the controller

EXTENDED_PREFIX == 224
KEY_RELEASE_MASK == 128
KEYBOARD_ACK == 250
BACKSPACE == 14
TAB == 15
ENTER == 28
LEFT_CTRL == 29
LEFT_SHIFT == 42
RIGHT_SHIFT == 54
LEFT_ALT == 56
SPACE == 57
CAPS_LOCK == 58
SCROLL_LOCK == 70
KEYPAD_DOT == 83
LEFT_GUI == 91
RIGHT_GUI == 92
MAX_CODE == 96

ASSUME KeyboardAssumption ==
    /\ Keys \subseteq [code : 1 .. MAX_CODE - 1, extended : BOOLEAN]
    /\ Config \in 0 .. 255 /\ MaxBytes \in Nat

VARIABLES phase,               \* "boot", "ready" or "off"
          out,                 \* bytes on their way from the controller
          held,                \* modifier keys that are down
          current_modifiers, extended_read,
          screen,
          owed                 \* what the keys pressed so far have yet to print

vars == <<phase, out, held, current_modifiers, extended_read, screen, owed>>

\* The driver's state and the screen before init_keyboard.
Init ==
    /\ phase = "boot" /\ out = <<>> /\ held = {} /\ owed = <<>>
    /\ current_modifiers = {} /\ extended_read = FALSE /\ screen = Blank

-----------------------------------------------------------------------------
(* Tables *)

\* What the entry of a code is in keymap and in shift_keymap, which have
\* zeros, control characters and the space at the same places.
keymap(code) ==
    CASE code \in {0, 1, LEFT_CTRL, LEFT_SHIFT, RIGHT_SHIFT, LEFT_ALT}
                  \cup CAPS_LOCK .. SCROLL_LOCK -> "none"
      [] code = BACKSPACE -> "backspace" [] code = TAB -> "tab" [] code = ENTER -> "newline"
      [] code = SPACE -> "space"
      [] OTHER -> "glyph"

InTable(code) == code <= KEYPAD_DOT

\* Codes behind the end of the tables read whatever is there.
Chars(code) ==
    IF InTable(code) THEN {keymap(code)}
    ELSE {"none", "backspace", "tab", "newline", "space", "glyph"}

Modifier(code, extended) ==
    CASE code = LEFT_CTRL -> {IF extended THEN "right_ctrl" ELSE "left_ctrl"}
      [] code = LEFT_ALT -> {IF extended THEN "right_alt" ELSE "left_alt"}
      [] code = LEFT_GUI -> {"left_gui"} [] code = RIGHT_GUI -> {"right_gui"}
      [] code = LEFT_SHIFT -> {"left_shift"} [] code = RIGHT_SHIFT -> {"right_shift"}
      [] OTHER -> {}

Shifted(modifiers) == modifiers \cap {"left_shift", "right_shift"} # {}

-----------------------------------------------------------------------------
(* The driver *)

\* F5 empties the keyboard's queue and is acknowledged, as are F0, its
\* argument and F4; the third byte init_keyboard reads, which it takes for the
\* configuration, is the acknowledgement of the argument.
Replies == <<KEYBOARD_ACK, KEYBOARD_ACK, KEYBOARD_ACK, Config, KEYBOARD_ACK>>

init_keyboard ==
    /\ phase = "boot"
    /\ IF (Replies[3] \div 64) % 2 = 0
       THEN phase' = "off" /\ out' = <<Replies[4]>>
       ELSE phase' = "ready" /\ out' = <<Replies[5]>>
    /\ UNCHANGED <<held, current_modifiers, extended_read, screen, owed>>

\* Mutant of NextExtended: the flag is reset only by codes of plain keys.
StaysExtended(b) ==
    b = EXTENDED_PREFIX
        \/ (extended_read /\ Modifier(b % KEY_RELEASE_MASK, FALSE) # {})

\* translate sets extended_read for a prefix and resets it after a code.
NextExtended(b) == b = EXTENDED_PREFIX

update_modifiers(code, pressed) ==
    IF pressed THEN current_modifiers \cup Modifier(code, extended_read)
    ELSE current_modifiers \ Modifier(code, extended_read)

\* Notes a character that was not owed; no key has code 0.
WRONG == <<0, FALSE>>

\* What is owed after c, an entry for code, was printed: a character that was
\* not the next one owed is noted as wrong.
Settled(code, c) ==
    IF ~ InTable(code) \/ c = "none" THEN owed
    ELSE IF owed # <<>> /\ Head(owed) = <<code, Shifted(current_modifiers')>>
         THEN Tail(owed) ELSE Append(owed, WRONG)

\* Mutant of Prints: releases are not told from presses.
PrintsReleases(b) == b # EXTENDED_PREFIX

\* The early returns of keyboard_handler: for a prefix, and for a release.
Prints(b) == b # EXTENDED_PREFIX /\ b < KEY_RELEASE_MASK

\* Codes from MAX_CODE on are translated to 0.
keyboard_handler ==
    LET b == Head(out)
        code == b % KEY_RELEASE_MASK
        key == IF code < MAX_CODE THEN code ELSE 0 IN
    /\ phase = "ready" /\ out # <<>>
    /\ out' = Tail(out)
    /\ extended_read' = NextExtended(b)
    /\ current_modifiers' =
           IF b = EXTENDED_PREFIX THEN current_modifiers
           ELSE update_modifiers(code, b < KEY_RELEASE_MASK)
    /\ IF ~ Prints(b) THEN UNCHANGED <<screen, owed>>
       ELSE \E c \in Chars(key) :
                /\ screen' = IF c = "none" THEN screen ELSE fb_print_char(screen, c)
                /\ owed' = Settled(key, c)
    /\ UNCHANGED <<phase, held>>

-----------------------------------------------------------------------------
(* The keyboard *)

Send(k, code) ==
    out' = out \o (IF k.extended THEN <<EXTENDED_PREFIX, code>> ELSE <<code>>)

IsModifier(k) == Modifier(k.code, k.extended) # {}

Press(k) ==
    /\ phase = "ready" /\ Send(k, k.code) /\ Len(out') <= MaxBytes
    /\ held' = IF IsModifier(k) THEN held \cup {k} ELSE held
    /\ owed' = IF InTable(k.code) /\ keymap(k.code) # "none"
               THEN Append(owed, <<k.code, \E h \in held :
                                   Shifted(Modifier(h.code, h.extended))>>)
               ELSE owed
    /\ UNCHANGED <<phase, current_modifiers, extended_read, screen>>

Release(k) ==
    /\ phase = "ready" /\ (IsModifier(k) => k \in held)
    /\ Send(k, k.code + KEY_RELEASE_MASK) /\ Len(out') <= MaxBytes
    /\ held' = held \ {k}
    /\ UNCHANGED <<phase, current_modifiers, extended_read, screen, owed>>

Next ==
    \/ init_keyboard \/ keyboard_handler
    \/ \E k \in Keys : Press(k) \/ Release(k)

Spec == Init /\ [][Next]_vars

-----------------------------------------------------------------------------
(* Properties *)

\* The cursor is on the screen and no cell at or behind it shows anything, so
\* that what is printed next never overwrites text, however lines were
\* wrapped, erased across line ends or cleared (fb_print_char).
NothingAhead ==
    /\ screen.x \in 0 .. Cols - 1 /\ screen.y \in 0 .. Rows - 1
    /\ \A c \in screen.ink : c[2] < screen.y \/ (c[2] = screen.y /\ c[1] < screen.x)

\* When all bytes are handled, current_modifiers has exactly the modifier keys
\* that are down, left and right ones told apart by a prefix that came in an
\* earlier interrupt (translate).
ModifiersTrackKeys ==
    phase = "ready" /\ out = <<>> =>
        current_modifiers = UNION {Modifier(k.code, k.extended) : k \in held}

\* Every key prints the entry of its code once, in the order of typing, and
\* from shift_keymap exactly if a shift key was down when it was pressed, not
\* when the interrupt is handled (keyboard_handler, get_char).
TypedIsPrinted ==
    /\ \A i \in 1 .. Len(owed) : owed[i] # WRONG
    /\ out = <<>> => owed = <<>>
=============================================================================
