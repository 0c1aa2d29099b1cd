----------------------------- MODULE MCKeyboard -----------------------------
(***************************************************************************)
(* Keyboard for TLC.                                                       *)
(***************************************************************************)
EXTENDS Keyboard

Plain(code) == [code |-> code, extended |-> FALSE]
Extended(code) == [code |-> code, extended |-> TRUE]

\* The letter a, the control characters, both control keys, both shifts and a key
\* whose code is behind the end of the tables.
MCKeys ==
    {Plain(30), Plain(BACKSPACE), Plain(TAB), Plain(ENTER), Plain(LEFT_SHIFT),
     Plain(RIGHT_SHIFT), Plain(LEFT_CTRL), Extended(LEFT_CTRL), Extended(LEFT_GUI)}
=============================================================================
