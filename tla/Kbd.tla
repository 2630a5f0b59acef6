--------------------------------- MODULE Kbd ---------------------------------
(***************************************************************************)
(* kbd.c: what one byte from the keyboard does to the shift state, and the *)
(* character it stands for.  A byte is the E0 prefix, or a key that goes   *)
(* down or up; a key code has the prefix in it (the bit 0x80).  Characters *)
(* are classes, so that upper and lower case are the same.                 *)
(***************************************************************************)

CONSTANT charcode(_, _)   \* normalmap, shiftmap and ctlmap: by modifiers and key

Byte(key, up) == [e0 |-> FALSE, key |-> key, up |-> up]
E0 == [e0 |-> TRUE, key |-> "none", up |-> FALSE]

\* The modifier of a key code; the right Shift key has no prefix, and a
\* prefixed Shift is none.
shiftcode(code) ==
  CASE code.key = "ctl" -> {"CTL"}
    [] code.key = "alt" -> {"ALT"}
    [] code.key \in {"lshift", "rshift"} /\ ~code.ext -> {"SHIFT"}
    [] OTHER -> {}

\* NUMLOCK and SCROLLLOCK are toggled as well, and nothing reads them.
togglecode(code) == IF code.key = "caps" /\ ~code.ext THEN {"CAPSLOCK"} ELSE {}

\* The code of a released key.
Released(shift, key) == [key |-> key, ext |-> "E0ESC" \in shift]

Escaped(shift) == shift \ {"E0ESC"}

\* kbdgetc(): the new shift state.
kbdshift(shift, b) ==
  LET code == [key |-> b.key, ext |-> "E0ESC" \in shift]
      s == Escaped(shift) \cup shiftcode(code)
      t == togglecode(code)
  IN IF b.e0 THEN shift \cup {"E0ESC"}
     ELSE IF b.up THEN Escaped(shift) \ shiftcode(Released(shift, b.key))
     ELSE (s \ t) \cup (t \ s)

\* The character that kbdgetc() returns.
kbdchar(shift, b) ==
  IF b.e0 \/ b.up THEN "nul" ELSE charcode(kbdshift(shift, b) \cap {"CTL", "SHIFT"}, b.key)
=============================================================================
