------------------------------- MODULE Shell -------------------------------
(***************************************************************************)
(* userspace/src/shell.c on top of the terminals: an interactive shell on  *)
(* each terminal, its line editor drawing on the screen with escape        *)
(* sequences; or one shell that executes a script.                         *)
(*                                                                         *)
(* A system call that waits is a step boundary (read of the keyboard,      *)
(* waitpid); what the shell computes and writes between two of them is one *)
(* step, since a task keeps the CPU until it waits.  While the shell waits *)
(* others may write to its terminal.                                       *)
(***************************************************************************)
EXTENDS Terminal, ShellParse

CONSTANTS
    KEYBOARD_COMMAND_BUFFER_LENGTH,
    SCRIPT_BUFFER_LENGTH,
    Scripts,     \* contents of the script file given as the argument
    Outputs,     \* what a command writes to its standard output
    ExitCodes,   \* exit codes of commands
    EnterAtEnd,  \* TRUE: Enter is pressed with the cursor at the end of the line
    KernelMessages,    \* what printk writes to the first terminal
    MaxForeignWrites   \* bound: how often others write to the shells' terminals

\* The shell does not check that a line fits its buffer; nobody types more.
ASSUME ShellAssumption ==
    /\ KEYBOARD_COMMAND_BUFFER_LENGTH \in Nat /\ KEYBOARD_COMMAND_BUFFER_LENGTH >= MaxKeys
    /\ SCRIPT_BUFFER_LENGTH \in Nat \ {0}
    /\ Scripts \subseteq Seq(STRING) /\ Outputs \subseteq Seq(STRING)
    /\ ExitCodes \subseteq Nat
    /\ EnterAtEnd \in BOOLEAN
    /\ KernelMessages \subseteq Seq(STRING) /\ MaxForeignWrites \in Nat

VARIABLES
    shell,   \* the locals of main and the place it waits, for each terminal
    script,  \* the same for the shell that runs a script
    drawn,   \* history: nobody else has written to the terminal since its shell
             \* last drew its line; the code has no such variable, no step reads it
    foreign_writes   \* how often others have written

vars == <<terminalVars, shell, script, drawn, foreign_writes>>

command_prompt == <<"#", SPACE>>

ERROR_MESSAGE == <<"!", NL>>

Positions == 0 .. KEYBOARD_COMMAND_BUFFER_LENGTH - 1

Empty == [i \in Positions |-> NUL]

\* The line the user sees: the first keyboard_command_length characters.
LineOf(buffer, length) == [i \in 1 .. length |-> buffer[i - 1]]

(***************************************************************************)
(* exec_shell_line.                                                        *)
(***************************************************************************)

\* A word of the statement s does not fit the buffer it is expanded into.
WordTooLong(s) ==
    \E word \in Range(s.argv) \cup {r.word : r \in Range(s.redirects)} :
       Len(word) >= SCRIPT_BUFFER_LENGTH

\* What happens before a process is forked: none is, for a syntax error, an
\* empty command, a word that is too long (the shell itself exits) and exit.
ExecKind(line) ==
    LET Kind(s) == CASE ~ s.ok -> "syntax error"
                     [] s.ok /\ s.argv = <<>> -> "no-op"
                     [] s.ok /\ s.argv # <<>> ->
                          IF WordTooLong(s) THEN "word too long"
                          ELSE IF s.argv[1] = <<"e", "x", "i", "t">> THEN "exit" ELSE "fork"
    IN Kind(Statement(line))

\* The child: the redirects one by one, until one cannot be opened; then the
\* command, if it exists under its name or in bin/.  What appears on the
\* terminal, and the exit code.
ChildOutcomes(line) ==
    LET redirects == Statement(line).redirects
        Redirected == \E i \in DOMAIN redirects : redirects[i].fd = 1
        Failed  == {[text |-> ERROR_MESSAGE, code |-> 1]}
        Ran     == {[text |-> IF Redirected THEN <<>> ELSE o, code |-> c] : o \in Outputs, c \in ExitCodes}
    IN Failed \cup Ran

(***************************************************************************)
(* The line editor.                                                        *)
(***************************************************************************)
\* Mutant of rewrite_command_line: the row is not cleared first.
rewrite_command_line_mutant(buffer, length, offset) ==
    <<CR>> \o command_prompt \o LineOf(buffer, length)
      \o FlattenSeq([i \in 1 .. offset |-> <<ESC, "[", "D">>])

rewrite_command_line(buffer, length, offset) ==
    <<CR, ESC, "[", "K">> \o command_prompt \o LineOf(buffer, length)
      \o FlattenSeq([i \in 1 .. offset |-> <<ESC, "[", "D">>])

\* The shell s redraws its line on terminal v and reads on; d is the
\* terminal after the read.
Redraw(v, d, s) ==
    /\ vt_write(v, d, rewrite_command_line(s.keyboard_command_buffer, s.keyboard_command_length,
                                           s.cursor_end_offset))
    /\ shell' = [shell EXCEPT ![v] = [s EXCEPT !.pc = "read"]]
    /\ drawn' = [drawn EXCEPT ![v] = TRUE]

\* Nothing to draw.
Swallow(v, d, s) ==
    /\ vt' = [vt EXCEPT ![v] = d]
    /\ shell' = [shell EXCEPT ![v] = [s EXCEPT !.pc = "read"]]
    /\ UNCHANGED <<framebuffer, drawn>>

ArrowUp(v, d, s) ==
    Redraw(v, d, [s EXCEPT !.cursor_end_offset = 0,
                           !.keyboard_command_length = s.prev_keyboard_command_length,
                           !.keyboard_command_buffer = s.prev_keyboard_command_buffer,
                           !.prev_keyboard_command_length = s.keyboard_command_length,
                           !.prev_keyboard_command_buffer = s.keyboard_command_buffer])

ArrowRight(v, d, s) ==
    IF s.cursor_end_offset > 0 THEN Redraw(v, d, [s EXCEPT !.cursor_end_offset = @ - 1])
    ELSE Swallow(v, d, s)

\* Mutant of ArrowLeft: the cursor may leave the line.
ArrowLeft_mutant(v, d, s) == Redraw(v, d, [s EXCEPT !.cursor_end_offset = @ + 1])

ArrowLeft(v, d, s) ==
    IF s.cursor_end_offset < s.keyboard_command_length
    THEN Redraw(v, d, [s EXCEPT !.cursor_end_offset = @ + 1])
    ELSE Swallow(v, d, s)

\* The characters from position `from` on move one to the left.
CloseGap(buffer, from, length) ==
    [i \in Positions |-> IF i \in from .. length - 1 THEN buffer[i + 1] ELSE buffer[i]]

EraseKey(v, d, s) ==
    LET n == s.keyboard_command_length - 1
    IN Redraw(v, d, IF s.keyboard_command_length > s.cursor_end_offset
                    THEN [s EXCEPT !.keyboard_command_length = n,
                                   !.keyboard_command_buffer = CloseGap(@, n - s.cursor_end_offset, n)]
                    ELSE s)

\* Mutant of Insert: the characters after the cursor are not moved.
Insert_mutant(s, c) ==
    [s EXCEPT !.keyboard_command_length = @ + 1,
              !.keyboard_command_buffer[s.keyboard_command_length - s.cursor_end_offset] = c]

\* The characters after the cursor move one to the right and c goes before
\* them.  With the cursor at the end nothing moves and c is appended.
Insert(s, c) ==
    LET n == s.keyboard_command_length
        at == n - s.cursor_end_offset
    IN [s EXCEPT !.keyboard_command_length = n + 1,
                 !.keyboard_command_buffer =
                    [i \in Positions |-> CASE i = at -> c
                                           [] i \in at + 1 .. n -> @[i - 1]
                                           [] OTHER -> @[i]]]

TypeKey(v, d, s, c) ==
    IF s.cursor_end_offset > 0 THEN Redraw(v, d, Insert(s, c))
    ELSE /\ vt_write(v, d, <<c>>)
         /\ shell' = [shell EXCEPT ![v] = Insert(s, c)]
         /\ UNCHANGED drawn

\* After exec_shell_line has returned.
Prompt(s) ==
    [s EXCEPT !.keyboard_command_length = 0, !.keyboard_command_buffer = Empty, !.pc = "read"]

EnterKey(v, d, s) ==
    LET line == LineOf(s.keyboard_command_buffer, s.keyboard_command_length)
        t == [s EXCEPT !.prev_keyboard_command_buffer = s.keyboard_command_buffer,
                       !.prev_keyboard_command_length = s.keyboard_command_length]
    IN /\ EnterAtEnd => s.cursor_end_offset = 0
       /\ \E kind \in {ExecKind(line)} :
             /\ vt_write(v, d, <<NL>> \o CASE kind = "syntax error" -> ERROR_MESSAGE \o command_prompt
                                           [] kind = "no-op" -> command_prompt
                                           [] kind = "word too long" -> ERROR_MESSAGE
                                           [] kind \in {"exit", "fork"} -> <<>>)
             /\ shell' = [shell EXCEPT ![v] = CASE kind \in {"exit", "word too long"} ->
                                                    [t EXCEPT !.pc = "exited"]
                                                [] kind = "fork" -> [t EXCEPT !.pc = "waitpid"]
                                                [] OTHER -> Prompt(t)]
             /\ drawn' = [drawn EXCEPT ![v] = @ \/ kind \in {"syntax error", "no-op"}]

\* read(0, single_char_buffer, 1) returns a character, and what main does
\* with it up to its next system call that waits.
ReadKey(v) ==
    LET s == shell[v]
        r == vt_read(vt[v], 1)
        c == r.chars[1]
    IN /\ s.pc = "read"
       /\ r.chars # <<>>
       /\ CASE c = ESC   -> /\ vt' = [vt EXCEPT ![v] = r.left]
                            /\ shell' = [shell EXCEPT ![v].pc = "escape", ![v].arrow_code = <<>>]
                            /\ UNCHANGED <<framebuffer, drawn>>
            [] c = ERASE -> EraseKey(v, r.left, s)
            [] c = NL    -> EnterKey(v, r.left, s)
            [] OTHER     -> TypeKey(v, r.left, s, c)
       /\ UNCHANGED <<active_vt_device, depressed_mod_keys, keys, script, foreign_writes>>

\* read(0, arrow_code, 2): one turn of vt_read may find only the first of
\* the two characters.
ReadEscape(v) ==
    LET s == shell[v]
        r == vt_read(vt[v], 2 - Len(s.arrow_code))
        code == s.arrow_code \o r.chars
    IN /\ s.pc = "escape"
       /\ r.chars # <<>>
       /\ CASE Len(code) < 2        -> /\ vt' = [vt EXCEPT ![v] = r.left]
                                       /\ shell' = [shell EXCEPT ![v].arrow_code = code]
                                       /\ UNCHANGED <<framebuffer, drawn>>
            [] code = <<"[", "A">>  -> ArrowUp(v, r.left, s)
            [] code = <<"[", "C">>  -> ArrowRight(v, r.left, s)
            [] code = <<"[", "D">>  -> ArrowLeft(v, r.left, s)
            [] OTHER                -> Swallow(v, r.left, s)
       /\ UNCHANGED <<active_vt_device, depressed_mod_keys, keys, script, foreign_writes>>

\* The child has written its output and waitpid returns.
ChildDone(v) ==
    /\ shell[v].pc = "waitpid"
    /\ \E o \in ChildOutcomes(LineOf(shell[v].keyboard_command_buffer, shell[v].keyboard_command_length)) :
          vt_write(v, vt[v], o.text \o command_prompt)
    /\ shell' = [shell EXCEPT ![v] = Prompt(@)]
    /\ drawn' = [drawn EXCEPT ![v] = TRUE]
    /\ UNCHANGED <<active_vt_device, depressed_mod_keys, keys, script, foreign_writes>>

\* The shell of terminal v starts: main up to its first read.
StartShell(v) ==
    /\ shell[v].pc = "start"
    /\ vt_write(v, vt[v], command_prompt)
    /\ shell' = [shell EXCEPT ![v].pc = "read"]
    /\ drawn' = [drawn EXCEPT ![v] = TRUE]
    /\ UNCHANGED <<active_vt_device, depressed_mod_keys, keys, script, foreign_writes>>

\* What others write to terminal v: programs whose output is redirected to it
\* or which no shell waits for; and on the first terminal the kernel, which
\* reports the faults of every program there, whatever terminal it runs on.
ForeignTexts(v) == (Outputs \cup (IF v = 1 THEN KernelMessages ELSE {})) \ {<<>>}

\* Somebody else writes to terminal v while its shell waits.
ForeignWrite(v) ==
    /\ script.pc = "none" /\ foreign_writes < MaxForeignWrites
    /\ \E text \in ForeignTexts(v) : vt_write(v, vt[v], text)
    /\ drawn' = [drawn EXCEPT ![v] = FALSE]
    /\ foreign_writes' = foreign_writes + 1
    /\ UNCHANGED <<active_vt_device, depressed_mod_keys, keys, shell, script>>

KeyboardInterrupt(key) ==
    keyboard_rb_fill(key) /\ UNCHANGED <<shell, script, drawn, foreign_writes>>

(***************************************************************************)
(* Script mode.                                                            *)
(***************************************************************************)
ScriptExit(status) == script' = [script EXCEPT !.pc = "exited", !.status = status]

OpenScript ==
    /\ script.pc = "open"
    /\ \/ script' = [script EXCEPT !.pc = "read"]
       \/ ScriptExit("could not open script")
    /\ UNCHANGED <<terminalVars, shell, drawn, foreign_writes>>

\* Mutant of Rewind: the newline is counted among the bytes to read again.
Rewind_mutant(s) ==
    LET new_offset == s.file_offset - (s.bytes_read - Len(s.line))
    IN [s EXCEPT !.pc = "read", !.file_offset = new_offset, !.offset = new_offset]

\* The loop's end: go back to the byte after the line that was executed.
Rewind(s) ==
    LET rewind_bytes == s.bytes_read - (Len(s.line) + 1)
        new_offset == s.file_offset - rewind_bytes
    IN [s EXCEPT !.pc = "read", !.file_offset = new_offset, !.offset = new_offset]

\* Read a buffer, find the first line in it and start executing it.  (A line
\* found in the buffer has no word that is too long for one.)
ScriptRead ==
    LET n == Min({SCRIPT_BUFFER_LENGTH, Len(script.text) - script.offset})
        buffer == SubSeq(script.text, script.offset + 1, script.offset + n)
        newlines == {i \in DOMAIN buffer : buffer[i] = NL}
        line == SubSeq(buffer, 1, Min(newlines) - 1)
        s == [script EXCEPT !.offset = @ + n, !.file_offset = @ + n, !.bytes_read = n, !.line = line,
                            !.executed = Append(@, line)]
    IN /\ script.pc = "read"
       /\ \/ ScriptExit("read error")
          \/ n = 0 /\ ScriptExit("end of file")
          \/ n # 0 /\ newlines = {} /\ ScriptExit("incomplete line")
          \/ /\ newlines # {}
             /\ \E kind \in {ExecKind(line)} :
                   script' = CASE kind = "syntax error" ->
                                    [s EXCEPT !.pc = "exited", !.status = "child error"]
                               [] kind = "no-op" -> Rewind(s)
                               [] kind \in {"exit", "word too long"} ->
                                    [s EXCEPT !.pc = "exited", !.status = "exit"]
                               [] kind = "fork"  -> [s EXCEPT !.pc = "waitpid"]
       /\ UNCHANGED <<terminalVars, shell, drawn, foreign_writes>>

ScriptChildDone ==
    /\ script.pc = "waitpid"
    /\ \E o \in ChildOutcomes(script.line) :
          IF o.code # 0 THEN ScriptExit("child error") ELSE script' = Rewind(script)
    /\ UNCHANGED <<terminalVars, shell, drawn, foreign_writes>>

(***************************************************************************)
(* The system: interactive shells and no script, or a script alone.        *)
(***************************************************************************)
NewShell(pc) ==
    [pc |-> pc, keyboard_command_buffer |-> Empty, keyboard_command_length |-> 0,
     cursor_end_offset |-> 0, prev_keyboard_command_buffer |-> Empty,
     prev_keyboard_command_length |-> 0, arrow_code |-> <<>>]

NewScript(pc, text) ==
    [pc |-> pc, text |-> text, offset |-> 0, file_offset |-> 0, bytes_read |-> 0, line |-> <<>>,
     executed |-> <<>>, status |-> "running"]

Init ==
    /\ terminal_init_1
    /\ drawn = [v \in Vts |-> TRUE] /\ foreign_writes = 0
    /\ \/ /\ shell = [v \in Vts |-> NewShell("start")]
          /\ script = NewScript("none", <<>>)
       \/ /\ shell = [v \in Vts |-> NewShell("none")]
          /\ \E text \in Scripts : script = NewScript("open", text)

\* While a script runs nobody types.
Next ==
    \/ \E key \in Keys : script.pc = "none" /\ KeyboardInterrupt(key)
    \/ \E v \in Vts : StartShell(v) \/ ReadKey(v) \/ ReadEscape(v) \/ ChildDone(v) \/ ForeignWrite(v)
    \/ OpenScript \/ ScriptRead \/ ScriptChildDone

Spec == Init /\ [][Next]_vars

(***************************************************************************)
(* Properties.                                                             *)
(***************************************************************************)

\* Types of the terminals, the ring indices, the editors and the script.
TypeOK ==
    /\ active_vt_device \in Vts
    /\ depressed_mod_keys \subseteq {MOD_CTRL, MOD_SHIFT, MOD_ALT}
    /\ keys \in 0 .. MaxKeys
    /\ drawn \in [Vts -> BOOLEAN] /\ foreign_writes \in 0 .. MaxForeignWrites
    /\ DOMAIN framebuffer = Cells
    /\ \A v \in Vts :
          /\ vt[v].cursor_row \in Rows /\ vt[v].cursor_column \in Cols
          /\ vt[v].repaint_flags \subseteq Cells /\ DOMAIN vt[v].terminal_buffer = Cells
          /\ vt[v].input_rb_head_idx \in 0 .. VT_INPUT_BUFFER_LENGTH - 1
          /\ vt[v].input_rb_tail_idx \in 0 .. VT_INPUT_BUFFER_LENGTH - 1
          /\ shell[v].pc \in {"none", "start", "read", "escape", "waitpid", "exited"}
          /\ DOMAIN shell[v].keyboard_command_buffer = Positions
          /\ shell[v].keyboard_command_length \in 0 .. KEYBOARD_COMMAND_BUFFER_LENGTH
          /\ shell[v].cursor_end_offset \in 0 .. shell[v].keyboard_command_length
    /\ script.pc \in {"none", "open", "read", "waitpid", "exited"}
    /\ script.offset \in 0 .. Len(script.text)

\* The framebuffer shows the active terminal as it is: every cell its
\* character, the cursor's frame around one cell only, nothing left of the
\* terminal shown before, and no flag waits to be painted.  (Flags set by
\* output to a hidden terminal, and the switch that repaints it.)
ScreenFaithful ==
    LET d == vt[active_vt_device]
    IN /\ d.repaint_flags = {}
       /\ \A x \in Cells : framebuffer[x] = vt_repaint_char(active_vt_device, d, x)

\* A line that fits the screen is displayed as it is while the shell waits
\* for a key, unless somebody else has written to the terminal since the
\* shell drew the line: the prompt, the line and blanks on the cursor's row,
\* and the cursor where the next character will be inserted.  So what others
\* write, anywhere in a line, does not spoil the next drawing.  (The escape
\* sequences of rewrite_command_line, interpreted by vt_write.)
LineOnScreen ==
    \A v \in Vts :
       LET s == shell[v]
           d == vt[v]
           shown == command_prompt \o LineOf(s.keyboard_command_buffer, s.keyboard_command_length)
       IN s.pc \in {"read", "escape"} /\ drawn[v] /\ Len(shown) < terminal_width =>
             /\ d.cursor_column = Len(shown) - s.cursor_end_offset
             /\ \A k \in Cols : Glyph(d.terminal_buffer[<<d.cursor_row, k>>])
                                  = IF k < Len(shown) THEN shown[k + 1] ELSE SPACE

\* A key only adds behind the characters that wait in a ring, and a read
\* only takes from the front: at its limit the ring drops what is new and
\* never what waits.
WaitingInputKept ==
    [][\A v \in Vts : IF keys' # keys THEN IsPrefix(Input(vt[v]), Input(vt'[v]))
                      ELSE IsSuffix(Input(vt'[v]), Input(vt[v]))]_vars

\* The line a shell edits, split at its cursor, and the one before.
Editor(v) ==
    LET s == shell[v]
        line == LineOf(s.keyboard_command_buffer, s.keyboard_command_length)
        at == s.keyboard_command_length - s.cursor_end_offset
    IN [before |-> IF s.pc \in {"waitpid", "exited"} THEN <<>> ELSE SubSeq(line, 1, at),
        after  |-> IF s.pc \in {"waitpid", "exited"} THEN <<>> ELSE SubSeq(line, at + 1, Len(line)),
        history |-> LineOf(s.prev_keyboard_command_buffer, s.prev_keyboard_command_length)]

\* What can be typed.  A full ring may take the first characters of an arrow
\* key and drop the others: the shell then takes the next key for the rest,
\* and the letters of arrow keys for typed ones.
TypedChars == {"1", "2", "3", "!", "\"", "#", "a", "A", "B", "C", "d", "D", "[", "{", "'", "@", ",", "<", SPACE}

Editor1 == INSTANCE LineEditor WITH Chars <- TypedChars, before <- Editor(1).before,
                                    after <- Editor(1).after, history <- Editor(1).history

\* An interactive shell is a line editor: the buffers, lengths and offset of
\* main, changed in place by its loops, implement LineEditor.
EditsALine == Editor1!Spec

\* The recursive-descent parser and the reference automaton agree on every
\* line that a shell executes: on what is a syntax error, on the words with
\* their quotes removed, and on the redirects.
ParseMatchesReference ==
    script.executed # <<>> =>
       LET line == Last(script.executed)
           s == Statement(line)
           r == ReferenceStatement(line)
       IN s.ok = r.ok /\ (s.ok => s = r)

\* Where the newlines of a text are, and the k-th of them; 0 is before the text.
Newlines(text) == {i \in DOMAIN text : text[i] = NL}

LineEnd(text, k) ==
    IF k = 0 THEN 0
    ELSE CHOOSE i \in Newlines(text) : Cardinality({j \in Newlines(text) : j <= i}) = k

\* The lines of a text, without their newlines; what follows the last
\* newline is not a line.
LinesOf(text) ==
    [k \in 1 .. Cardinality(Newlines(text)) |->
        SubSeq(text, LineEnd(text, k - 1) + 1, LineEnd(text, k) - 1)]

\* A script's lines are executed in order, none skipped and none twice, and
\* the end of the file is only reached when all of them were.  (The script is
\* read in buffers and the descriptor moved back to the end of each line.)
ScriptInOrder ==
    /\ IsPrefix(script.executed, LinesOf(script.text))
    /\ script.status = "end of file" => script.executed = LinesOf(script.text)
=============================================================================
