----------------------------- MODULE Keyboard -----------------------------
(***************************************************************************)
(* drivers/keyboard.c without its state: what a scancode does to the       *)
(* modifier keys, and the event the two keymaps give for it.               *)
(*                                                                         *)
(* A scancode is named after its key: "shift", "shift_up", "a", "up"...    *)
(* The keymaps are tables of 128 entries; here they are given at one key   *)
(* of each kind that the code or a program tells apart.                    *)
(***************************************************************************)

MOD_CTRL  == "ctrl"
MOD_SHIFT == "shift"
MOD_ALT   == "alt"

\* Characters with a name: the bytes that a terminal or a program treats in a
\* way of its own, and the byte 0xFF sent for backspace.
ESC    == "0x1B"
NL     == "newline"
CR     == "return"
BS     == "backspace char"
ERASE  == "0xFF"
SPACE  == " "

KBD_ASCII(c)    == [symbol_type |-> "KBD_ASCII", symbol |-> c]
KBD_NONASCII(k) == [symbol_type |-> "KBD_NONASCII", symbol |-> k]
NO_SYMBOL       == KBD_NONASCII("0")

\* Keys that give the same event in both tables.
Unshifted(key) ==
    CASE key = "esc"   -> KBD_NONASCII("KBD_ESC")
      [] key = "erase" -> KBD_NONASCII("KBD_BACKSPACE")
      [] key = "up"    -> KBD_NONASCII("KBD_ARROW_UP")
      [] key = "down"  -> KBD_NONASCII("KBD_ARROW_DOWN")
      [] key = "right" -> KBD_NONASCII("KBD_ARROW_RIGHT")
      [] key = "left"  -> KBD_NONASCII("KBD_ARROW_LEFT")
      [] key = "enter" -> KBD_ASCII(NL)
      [] key = "space" -> KBD_ASCII(SPACE)
      [] OTHER         -> NO_SYMBOL

keymap_no_modifiers(key) ==
    IF key \in {"1", "2", "3", "a", "d", "[", "'", ","} THEN KBD_ASCII(key) ELSE Unshifted(key)

keymap_shift(key) ==
    CASE key = "1" -> KBD_ASCII("!")
      [] key = "2" -> KBD_ASCII("\"")
      [] key = "3" -> KBD_ASCII("#")
      [] key = "a" -> KBD_ASCII("A")
      [] key = "d" -> KBD_ASCII("D")
      [] key = "[" -> KBD_ASCII("{")
      [] key = "'" -> KBD_ASCII("@")
      [] key = "," -> KBD_ASCII("<")
      [] OTHER     -> Unshifted(key)

\* The scancodes that change depressed_mod_keys.  The right-hand shift key
\* does not.
ModifierKeys == {"shift", "shift_up", "ctrl", "ctrl_up", "alt", "alt_up"}

ModsAfter(mods, key) ==
    CASE key = "shift"    -> mods \cup {MOD_SHIFT}
      [] key = "shift_up" -> mods \ {MOD_SHIFT}
      [] key = "ctrl"     -> mods \cup {MOD_CTRL}
      [] key = "ctrl_up"  -> mods \ {MOD_CTRL}
      [] key = "alt"      -> mods \cup {MOD_ALT}
      [] key = "alt_up"   -> mods \ {MOD_ALT}
      [] OTHER            -> mods

\* Ctrl with 1, 2 or 3: the terminal that is made active, or 0.
SwitchesTo(mods, key) ==
    CASE MOD_CTRL \in mods /\ key = "1" -> 1
      [] MOD_CTRL \in mods /\ key = "2" -> 2
      [] MOD_CTRL \in mods /\ key = "3" -> 3
      [] OTHER -> 0

\* The event of a key that is neither a modifier nor a switch.  Key-up codes
\* are ignored like keys without a symbol.
Event(mods, key) ==
    IF MOD_SHIFT \in mods THEN keymap_shift(key) ELSE keymap_no_modifiers(key)

\* vt_update_input: the characters the terminal gets for an event.
InputOf(event) ==
    IF event.symbol_type = "KBD_ASCII" THEN <<event.symbol>>
    ELSE CASE event.symbol = "KBD_ESC"         -> <<ESC>>
           [] event.symbol = "KBD_BACKSPACE"   -> <<ERASE>>
           [] event.symbol = "KBD_ARROW_UP"    -> <<ESC, "[", "A">>
           [] event.symbol = "KBD_ARROW_DOWN"  -> <<ESC, "[", "B">>
           [] event.symbol = "KBD_ARROW_RIGHT" -> <<ESC, "[", "C">>
           [] event.symbol = "KBD_ARROW_LEFT"  -> <<ESC, "[", "D">>
           [] OTHER -> <<>>
=============================================================================
