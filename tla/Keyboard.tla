------------------------------ MODULE Keyboard -------------------------------
(***************************************************************************)
(* The keyboard (device/keyboard.c): the keys that are held down, the      *)
(* bytes the controller sends for them, and intr_keyboard_handler, which   *)
(* makes characters of them.                                               *)
(*                                                                         *)
(* A key is its make code, Ext + code for those that send 0xe0 first.  A   *)
(* character is the row of keymap it is in; which of the two columns it is *)
(* from matters to nobody but the short cuts of the control key, which are *)
(* made of small letters and are the negative rows.                        *)
(***************************************************************************)
EXTENDS Integers, Sequences, FiniteSets

CONSTANTS
  Key,     \* the keys of the keyboard
  MaxHeld  \* bound on the modifiers held at a time

Ext == 57344          \* 0xe000
Prefix == 224         \* 0xe0
Break == 128          \* 0x80

shift_l_make == 42
shift_r_make == 54
alt_l_make == 56
alt_r_make == Ext + 56
ctrl_l_make == 29
ctrl_r_make == Ext + 29
caps_lock_make == 58

Shifts == {shift_l_make, shift_r_make}
Ctrls == {ctrl_l_make, ctrl_r_make}
Alts == {alt_l_make, alt_r_make}

ASSUME KeyboardAssumption ==
  \A k \in Key : k \in (1..127) \ {96} \/ k - Ext \in (1..127) \ {96}

VARIABLES
  ctrl_status, shift_status, alt_status, caps_lock_status, ext_scancode,
  held,    \* the modifiers held down
  bytes    \* the byte of a key that is still to come

keyboardVars == <<ctrl_status, shift_status, alt_status, caps_lock_status, ext_scancode, held, bytes>>

\* The rows of keymap whose characters are 0: ctrl, shift, alt, caps lock
Invisible == {ctrl_l_make, shift_l_make, shift_r_make, alt_l_make, caps_lock_make}

Nul == 0
Key_l == 38
Key_u == 22
Enter == 28
Backspace == 14
Blank == 57
Ctrl_l == -Key_l     \* 'l' - 'a'
Ctrl_u == -Key_u     \* 'u' - 'a'

KeyboardInit ==
  /\ ctrl_status = FALSE /\ shift_status = FALSE /\ alt_status = FALSE
  /\ caps_lock_status = FALSE /\ ext_scancode = FALSE
  /\ held = {} /\ bytes = << >>

\* The handler gets byte b: the whole scancode, and what it tests of it
scancode(b) == IF ext_scancode THEN Ext + b ELSE b
break_code(b) == b >= Break
Known(code) == code \in 1..58 \/ code \in {alt_r_make, ctrl_r_make}

\* Whether a letter key stands for the capital
shift == shift_status # caps_lock_status

\* cur_char, with the two short cuts of the control key
cur_char(code) ==
  LET index == IF code >= Ext THEN code - Ext ELSE code IN
  IF index \in Invisible THEN << >>
  ELSE <<IF ctrl_status /\ ~shift /\ index \in {Key_l, Key_u} THEN -index ELSE index>>

\* The character byte b makes, if any
Typed(b) ==
  IF b = Prefix \/ break_code(b) \/ ~Known(scancode(b)) THEN << >> ELSE cur_char(scancode(b))

\* Mutant: the break code of the right control key is not known.
LeftOnly(code) ==
  /\ ctrl_status' = (ctrl_status /\ code # ctrl_l_make)
  /\ shift_status' = (shift_status /\ code \notin Shifts)
  /\ alt_status' = (alt_status /\ code \notin Alts)
  /\ UNCHANGED caps_lock_status

\* A break code of a modifier
Released(code) ==
  /\ ctrl_status' = (ctrl_status /\ code \notin Ctrls)
  /\ shift_status' = (shift_status /\ code \notin Shifts)
  /\ alt_status' = (alt_status /\ code \notin Alts)
  /\ UNCHANGED caps_lock_status

\* A make code of a key with no character
Pressed(code) ==
  /\ ctrl_status' = (ctrl_status \/ code \in Ctrls)
  /\ shift_status' = (shift_status \/ code \in Shifts)
  /\ alt_status' = (alt_status \/ code \in Alts)
  /\ caps_lock_status' = (caps_lock_status # (code = caps_lock_make))

\* intr_keyboard_handler, but for the queue (see Console)
intr_keyboard_handler(b) ==
  /\ ext_scancode' = (b = Prefix)
  /\ IF b # Prefix /\ break_code(b) THEN Released(scancode(b) - Break)
     ELSE IF b # Prefix /\ Known(scancode(b)) /\ Typed(b) = << >> THEN Pressed(scancode(b))
     ELSE UNCHANGED <<ctrl_status, shift_status, alt_status, caps_lock_status>>

\* The keyboard: a key is pressed (or held so long that it is sent again) or
\* let go, and its first byte is sent.  Only the modifiers in held are kept.
Modifier == Shifts \cup Ctrls \cup Alts
Bytes(code) == IF code >= Ext THEN <<Prefix, code - Ext>> ELSE <<code>>

press(k) ==
  /\ bytes = << >>
  /\ held' = held \cup ({k} \cap Modifier) /\ Cardinality(held') <= MaxHeld
  /\ bytes' = Tail(Bytes(k))

release(k) ==
  /\ bytes = << >> /\ (k \in Modifier => k \in held)
  /\ held' = held \ {k}
  /\ bytes' = Tail(Bytes(k + Break))

\* The second byte of a key
next_byte == bytes # << >> /\ bytes' = << >> /\ UNCHANGED held
-----------------------------------------------------------------------------
\* No modifier stays on when its keys are up: when all bytes were read, a
\* status is TRUE only while one of the two keys is held.  (It may be FALSE
\* then: letting go of one shift key clears the status of both.)
NoStuckModifier ==
  bytes = << >> =>
    /\ ~ext_scancode
    /\ ctrl_status => held \cap Ctrls # {}
    /\ shift_status => held \cap Shifts # {}
    /\ alt_status => held \cap Alts # {}
=============================================================================
