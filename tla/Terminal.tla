----------------------------- MODULE Terminal -----------------------------
(***************************************************************************)
(* drivers/tty.c and drivers/keyboard.c: three virtual terminals, of which *)
(* one is painted on the framebuffer and gets the keyboard's input.        *)
(*                                                                         *)
(* A terminal has an input ring between the keyboard interrupt and         *)
(* vt_read, and a grid of characters with a cursor, changed by vt_write    *)
(* and painted cell by cell where a repaint flag is set.  A cell of the    *)
(* framebuffer holds what its 16x16 pixels show: the glyph, whether the    *)
(* cursor's frame is around it, and the terminal whose background it has.  *)
(* System calls and the interrupt run with interrupts off, so each of them *)
(* is one step; vt_read yields between two looks at the ring.              *)
(***************************************************************************)
EXTENDS Keyboard, Integers, Sequences, SequencesExt

CONSTANTS
    Vts,                     \* the device numbers of the terminals, from 1
    terminal_width,
    terminal_height,
    VT_INPUT_BUFFER_LENGTH,  \* slots of the input ring
    Keys,                    \* the scancodes that arrive
    MaxKeys                  \* bound: how many scancodes arrive

\* There are three terminals; a smaller instance leaves some out, and with them
\* the keys that switch to them.
ASSUME TerminalAssumption ==
    /\ 1 \in Vts /\ Vts \subseteq {1, 2, 3}
    /\ ("2" \in Keys => 2 \in Vts) /\ ("3" \in Keys => 3 \in Vts)
    /\ terminal_width \in Nat \ {0} /\ terminal_height \in Nat \ {0}
    /\ VT_INPUT_BUFFER_LENGTH \in Nat /\ VT_INPUT_BUFFER_LENGTH > 1
    /\ MaxKeys \in Nat

VARIABLES
    vt,                  \* the struct vt_device of each terminal
    active_vt_device,
    framebuffer,
    depressed_mod_keys,
    keys                 \* how many scancodes have arrived

terminalVars == <<vt, active_vt_device, framebuffer, depressed_mod_keys, keys>>

Rows  == 0 .. terminal_height - 1
Cols  == 0 .. terminal_width - 1
Cells == Rows \X Cols

NUL == "0x00"
DESKTOP == [glyph |-> "desktop", cursor |-> FALSE, background |-> 0]

\* vt_device_init
vt_device_init ==
    [cursor_row |-> 0, cursor_column |-> 0, escape_state |-> "VT_ESCAPE_NONE",
     terminal_buffer |-> [x \in Cells |-> NUL], repaint_flags |-> Cells,
     input_rb_head_idx |-> 0, input_rb_tail_idx |-> 0,
     input_rb |-> [i \in 0 .. VT_INPUT_BUFFER_LENGTH - 1 |-> NUL]]

(***************************************************************************)
(* Painting.                                                               *)
(***************************************************************************)

\* Mutant of vt_set_cursor: the cell the cursor leaves is not flagged.
vt_set_cursor_mutant(d, row, column) ==
    [d EXCEPT !.cursor_row = row, !.cursor_column = column, !.repaint_flags = @ \cup {<<row, column>>}]

vt_set_cursor(d, row, column) ==
    [d EXCEPT !.cursor_row = row, !.cursor_column = column,
              !.repaint_flags = @ \cup {<<d.cursor_row, d.cursor_column>>, <<row, column>>}]

\* vt_set_char over some cells: new gives each of them its character.
vt_set_char(d, new) ==
    [d EXCEPT !.terminal_buffer = [x \in Cells |-> IF x \in DOMAIN new THEN new[x] ELSE @[x]],
              !.repaint_flags = @ \cup DOMAIN new]

\* Characters outside the font are shown as a space.
Glyph(c) == IF c \in {NUL, ESC, NL, CR, BS, ERASE} THEN SPACE ELSE c

vt_repaint_char(v, d, x) ==
    [glyph |-> Glyph(d.terminal_buffer[x]), cursor |-> x = <<d.cursor_row, d.cursor_column>>,
     background |-> v]

\* vt_repaint_terminal: the framebuffer after the flagged cells of d are painted.
vt_repaint_terminal(v, d, fb) ==
    [x \in Cells |-> IF x \in d.repaint_flags THEN vt_repaint_char(v, d, x) ELSE fb[x]]

\* set_active_vt: paint the desktop over everything, then all of terminal v.
set_active_vt(v) ==
    /\ active_vt_device' = v
    /\ framebuffer' = vt_repaint_terminal(v, [vt[v] EXCEPT !.repaint_flags = Cells],
                                          [x \in Cells |-> DESKTOP])
    /\ vt' = [vt EXCEPT ![v].repaint_flags = {}]

(***************************************************************************)
(* Output: vt_write, character by character.                               *)
(***************************************************************************)
vt_shift_rows(d) ==
    vt_set_char(d, [x \in Cells |-> IF x[1] < terminal_height - 1
                                    THEN d.terminal_buffer[<<x[1] + 1, x[2]>>] ELSE SPACE])

\* To the start of the next row, scrolling at the last one.
NextRow(d) ==
    IF d.cursor_row = terminal_height - 1
    THEN vt_shift_rows(vt_set_cursor(d, d.cursor_row, 0))
    ELSE vt_set_cursor(d, d.cursor_row + 1, 0)

\* The character after ESC [.
EscapeCode(d, c) ==
    LET r == d.cursor_row
        k == d.cursor_column
    IN CASE c = "A" /\ r # 0                   -> vt_set_cursor(d, r - 1, k)
         [] c = "B" /\ r # terminal_height - 1 -> vt_set_cursor(d, r + 1, k)
         [] c = "C" /\ k # terminal_width - 1  -> vt_set_cursor(d, r, k + 1)
         [] c = "D" /\ k # 0                   -> vt_set_cursor(d, r, k - 1)
         [] c = "K" -> vt_set_char(d, [x \in {r} \X (k .. terminal_width - 1) |-> SPACE])
         [] c = "H" -> vt_set_cursor(d, 0, 0)
         [] c = "J" -> vt_set_char(d, [x \in {y \in Cells : y[1] > r \/ (y[1] = r /\ y[2] >= k)} |-> SPACE])
         [] OTHER   -> d

\* A character outside an escape sequence.
PlainChar(d, c) ==
    CASE c = NL -> NextRow(d)
      [] c = CR -> vt_set_cursor(d, d.cursor_row, 0)
      [] c = BS -> IF d.cursor_column > 0 THEN vt_set_cursor(d, d.cursor_row, d.cursor_column - 1) ELSE d
      [] OTHER  -> LET e == vt_set_char(d, [x \in {<<d.cursor_row, d.cursor_column>>} |-> c])
                   IN IF d.cursor_column = terminal_width - 1 THEN NextRow(e)
                      ELSE vt_set_cursor(e, e.cursor_row, e.cursor_column + 1)

\* One turn of vt_write's loop.
PutChar(d, c) ==
    CASE d.escape_state = "VT_ESCAPE_ESC_PAREN" ->
           [EscapeCode(d, c) EXCEPT !.escape_state = "VT_ESCAPE_NONE"]
      [] d.escape_state = "VT_ESCAPE_ESC" ->
           [d EXCEPT !.escape_state = IF c = "[" THEN "VT_ESCAPE_ESC_PAREN" ELSE "VT_ESCAPE_NONE"]
      [] d.escape_state = "VT_ESCAPE_NONE" ->
           IF c = ESC THEN [d EXCEPT !.escape_state = "VT_ESCAPE_ESC"] ELSE PlainChar(d, c)

\* vt_write to terminal v, found in the state `from`.
vt_write(v, from, bytes) ==
    \E d \in {FoldLeft(PutChar, from, bytes)} :
       IF v = active_vt_device
       THEN /\ vt' = [vt EXCEPT ![v] = [d EXCEPT !.repaint_flags = {}]]
            /\ framebuffer' = vt_repaint_terminal(v, d, framebuffer)
       ELSE /\ vt' = [vt EXCEPT ![v] = d]
            /\ UNCHANGED framebuffer

(***************************************************************************)
(* Input.                                                                  *)
(***************************************************************************)
Ring(n) == n % VT_INPUT_BUFFER_LENGTH

\* How many characters wait in the ring.
Waiting(d) == Ring(VT_INPUT_BUFFER_LENGTH + d.input_rb_tail_idx - d.input_rb_head_idx)

\* The characters that wait in the ring, in the order vt_read takes them.
Input(d) == [i \in 1 .. Waiting(d) |-> d.input_rb[Ring(d.input_rb_head_idx + i - 1)]]

\* Mutant of vt_append_input_character: a full ring is not noticed.
vt_append_input_character_mutant(d, character) ==
    [d EXCEPT !.input_rb[d.input_rb_tail_idx] = character,
              !.input_rb_tail_idx = Ring(@ + 1)]

\* vt_append_input_character: dropped when the head is one ahead of the tail.
vt_append_input_character(d, character) ==
    IF Ring(VT_INPUT_BUFFER_LENGTH + d.input_rb_head_idx - d.input_rb_tail_idx) = 1 THEN d
    ELSE [d EXCEPT !.input_rb[d.input_rb_tail_idx] = character,
                   !.input_rb_tail_idx = Ring(@ + 1)]

vt_update_input(d, event) == FoldLeft(vt_append_input_character, d, InputOf(event))

\* One turn of the loop of keyboard_rb_fill; a longer run of it is several
\* of these, with no other step in between.
keyboard_rb_fill(key) ==
    /\ keys < MaxKeys
    /\ keys' = keys + 1
    /\ depressed_mod_keys' = ModsAfter(depressed_mod_keys, key)
    /\ LET to == SwitchesTo(depressed_mod_keys, key)
       IN \/ /\ key \in ModifierKeys
             /\ UNCHANGED <<vt, active_vt_device, framebuffer>>
          \/ /\ key \notin ModifierKeys /\ to # 0
             /\ set_active_vt(to)
          \/ /\ key \notin ModifierKeys /\ to = 0
             /\ vt' = [vt EXCEPT ![active_vt_device] =
                         vt_update_input(@, Event(depressed_mod_keys, key))]
             /\ UNCHANGED <<active_vt_device, framebuffer>>

\* One turn of vt_read, after task_yield: the characters taken when at most
\* `length` are still asked for, and the terminal without them.
vt_read(d, length) ==
    LET n == IF Waiting(d) < length THEN Waiting(d) ELSE length
    IN [chars |-> SubSeq(Input(d), 1, n),
        left  |-> [d EXCEPT !.input_rb_head_idx = Ring(@ + n)]]

\* terminal_init_1
terminal_init_1 ==
    LET d == [v \in Vts |-> vt_device_init]
    IN /\ active_vt_device = 1
       /\ framebuffer = vt_repaint_terminal(1, d[1], [x \in Cells |-> DESKTOP])
       /\ vt = [d EXCEPT ![1].repaint_flags = {}]
       /\ depressed_mod_keys = {}
       /\ keys = 0
=============================================================================
