---------------------------- MODULE ShellProof ----------------------------
(***************************************************************************)
(* Scripts of any length are executed line by line, whatever the size of   *)
(* the buffer they are read with; the screen shows the active terminal,    *)
(* whatever is written to it; a ring of any length keeps what waits in it; *)
(* and the interactive shell is a line editor whose lines fit its buffers. *)
(***************************************************************************)
EXTENDS Shell, TLAPS, WellFoundedInduction, FiniteSetTheorems, SequenceTheorems

-----------------------------------------------------------------------------
(* Natural numbers.                                                        *)

\* A set of natural numbers that is not empty has a least element: what the
\* searches for the first free id and the first matching entry rely on.
LEMMA LeastNatural ==
    ASSUME NEW T \in SUBSET Nat, T # {}
    PROVE  \E x \in T : \A y \in T : x <= y
<1>1. \E x \in T : \A y \in T : <<y, x>> \notin OpToRel(<, Nat)
    BY NatLessThanWellFounded, WFMin
<1>2. \A x, y \in Nat : y < x => <<y, x>> \in OpToRel(<, Nat)
    BY DEF OpToRel
<1>3. PICK R : /\ \E x \in T : \A y \in T : <<y, x>> \notin R
               /\ \A x, y \in Nat : y < x => <<y, x>> \in R
    BY <1>1, <1>2, Zenon
<1>4. PICK x \in T : \A y \in T : <<y, x>> \notin R
    BY <1>3
<1>5. ASSUME NEW y \in T PROVE x <= y
  <2>1. x \in Nat /\ y \in Nat /\ ~(y < x)
    BY <1>3, <1>4
  <2> QED
    BY <2>1
<1> QED
    BY <1>5

\* Division with remainder: an offset is in one cluster or page, at one place.
LEMMA DivMod ==
    ASSUME NEW x \in Nat, NEW c \in Nat \ {0}
    PROVE  /\ x \div c \in Nat /\ x % c \in 0 .. c - 1
           /\ x = (x \div c) * c + (x % c)
    OBVIOUS

\* Fewer bytes lie in fewer clusters.
LEMMA FewerMultiples ==
    ASSUME NEW a \in Int, NEW b \in Int, NEW c \in Nat \ {0}, a * c < b * c
    PROVE  a < b
<1> SUFFICES ASSUME a >= b PROVE FALSE
    OBVIOUS
<1>1. (a - b) * c >= 0
    OBVIOUS
<1>2. (a - b) * c = a * c - b * c
    OBVIOUS
<1>3. a * c \in Int /\ b * c \in Int
    OBVIOUS
<1> QED
    BY <1>1, <1>2, <1>3

\* The quotient and the remainder are unique.
LEMMA DivUnique ==
    ASSUME NEW c \in Nat \ {0}, NEW q \in Nat, NEW r \in 0 .. c - 1, NEW x, x = q * c + r
    PROVE  x \in Nat /\ x \div c = q /\ x % c = r
<1> DEFINE Q == x \div c
           R == x % c
<1>1. x \in Nat /\ q * c \in Nat
    OBVIOUS
<1>2. Q \in Nat /\ R \in 0 .. c - 1 /\ x = Q * c + R
    BY <1>1, DivMod
<1> HIDE DEF Q, R
<1>3. Q * c \in Nat /\ (Q + 1) * c = Q * c + c /\ (q + 1) * c = q * c + c
    BY <1>2
<1>4. Q * c < (q + 1) * c /\ q * c < (Q + 1) * c
    BY <1>1, <1>2, <1>3
<1>5. Q < q + 1 /\ q < Q + 1
    BY <1>2, <1>4, FewerMultiples
<1>6. Q = q
    BY <1>2, <1>5
<1> QED
    BY <1>1, <1>2, <1>6 DEF Q, R

-----------------------------------------------------------------------------
(* Scripts.                                                                *)

\* The newlines of the first p characters.
NewlinesUpTo(text, p) == {j \in Newlines(text) : j <= p}

\* The first k lines of the text, with their newlines, are its first p
\* characters.
AfterLines(text, p, k) ==
    /\ p \in 0 .. Len(text)
    /\ p # 0 => p \in Newlines(text)
    /\ Cardinality(NewlinesUpTo(text, p)) = k

\* The newlines of a text are finitely many positions.
LEMMA NewlinesFinite ==
    ASSUME NEW text \in Seq(STRING)
    PROVE  /\ Newlines(text) \in SUBSET (1 .. Len(text)) /\ Len(text) \in Nat
           /\ IsFiniteSet(Newlines(text)) /\ Cardinality(Newlines(text)) \in Nat
<1>1. Newlines(text) \in SUBSET (1 .. Len(text)) /\ Len(text) \in Nat
    BY DEF Newlines
<1>2. IsFiniteSet(1 .. Len(text))
    BY <1>1, FS_Interval
<1>3. IsFiniteSet(Newlines(text))
    BY <1>1, <1>2, FS_Subset
<1> QED
    BY <1>1, <1>3, FS_CardinalityType

\* And so are those up to some position.
LEMMA UpToFinite ==
    ASSUME NEW text \in Seq(STRING), NEW p
    PROVE  /\ NewlinesUpTo(text, p) \in SUBSET Newlines(text)
           /\ IsFiniteSet(NewlinesUpTo(text, p)) /\ Cardinality(NewlinesUpTo(text, p)) \in Nat
           /\ Cardinality(NewlinesUpTo(text, p)) <= Cardinality(Newlines(text))
<1>1. NewlinesUpTo(text, p) \in SUBSET Newlines(text)
    BY DEF NewlinesUpTo
<1>2. IsFiniteSet(NewlinesUpTo(text, p)) /\ Cardinality(NewlinesUpTo(text, p)) <= Cardinality(Newlines(text))
    BY <1>1, NewlinesFinite, FS_Subset
<1> QED
    BY <1>1, <1>2, FS_CardinalityType

\* Two newlines do not have the same number.
LEMMA NewlinesNumbered ==
    ASSUME NEW text \in Seq(STRING), NEW p \in Newlines(text), NEW q \in Newlines(text),
           Cardinality(NewlinesUpTo(text, p)) = Cardinality(NewlinesUpTo(text, q))
    PROVE  p = q
<1>1. ASSUME NEW a \in Newlines(text), NEW b \in Newlines(text), a < b
      PROVE  Cardinality(NewlinesUpTo(text, a)) # Cardinality(NewlinesUpTo(text, b))
  <2>1. NewlinesUpTo(text, a) \in SUBSET NewlinesUpTo(text, b)
    BY <1>1, NewlinesFinite DEF NewlinesUpTo
  <2>2. b \in NewlinesUpTo(text, b) /\ b \notin NewlinesUpTo(text, a)
    BY <1>1, NewlinesFinite DEF NewlinesUpTo
  <2>3. IsFiniteSet(NewlinesUpTo(text, b))
    BY UpToFinite
  <2> QED
    BY <2>1, <2>2, <2>3, FS_Subset
<1>2. p \in Int /\ q \in Int
    BY NewlinesFinite
<1> QED
    BY <1>1, <1>2

\* The position after k lines is the end of line k.
LEMMA AfterLinesEnd ==
    ASSUME NEW text \in Seq(STRING), NEW p, NEW k, AfterLines(text, p, k)
    PROVE  k \in Nat /\ p \in Nat /\ LineEnd(text, k) = p
<1>1. k \in Nat /\ p \in 0 .. Len(text) /\ p \in Nat
    BY UpToFinite, NewlinesFinite DEF AfterLines
<1>2. CASE p = 0
  <2>1. NewlinesUpTo(text, p) = {}
    BY <1>2, NewlinesFinite DEF NewlinesUpTo
  <2>2. k = 0
    BY <2>1, FS_EmptySet DEF AfterLines
  <2> QED
    BY <1>1, <1>2, <2>2 DEF LineEnd
<1>3. CASE p # 0
  <2>1. p \in Newlines(text) /\ Cardinality(NewlinesUpTo(text, p)) = k
    BY <1>3 DEF AfterLines
  <2>2. p \in NewlinesUpTo(text, p)
    BY <1>1, <2>1 DEF NewlinesUpTo
  <2>3. k # 0
    BY <1>1, <2>1, <2>2, UpToFinite, FS_EmptySet
  <2>4. LineEnd(text, k) = CHOOSE i \in Newlines(text) : Cardinality(NewlinesUpTo(text, i)) = k
    BY <2>3 DEF LineEnd, NewlinesUpTo
  <2>5. \A i \in Newlines(text) : Cardinality(NewlinesUpTo(text, i)) = k => i = p
    BY <2>1, NewlinesNumbered
  <2> QED
    BY <1>1, <2>1, <2>4, <2>5
<1> QED
    BY <1>2, <1>3

\* The next newline ends the next line.
LEMMA NextLine ==
    ASSUME NEW text \in Seq(STRING), NEW p, NEW k, AfterLines(text, p, k),
           NEW q \in Newlines(text), p < q, \A j \in Newlines(text) : p < j => q <= j
    PROVE  /\ AfterLines(text, q, k + 1)
           /\ k + 1 \in 1 .. Cardinality(Newlines(text))
           /\ LinesOf(text)[k + 1] = SubSeq(text, p + 1, q - 1)
<1>1. k \in Nat /\ p \in Nat /\ q \in 1 .. Len(text)
    BY AfterLinesEnd, NewlinesFinite
<1>2. NewlinesUpTo(text, q) = NewlinesUpTo(text, p) \cup {q}
    BY <1>1, NewlinesFinite DEF NewlinesUpTo
<1>3. q \notin NewlinesUpTo(text, p)
    BY <1>1 DEF NewlinesUpTo
<1>4. Cardinality(NewlinesUpTo(text, q)) = k + 1
    BY <1>1, <1>2, <1>3, UpToFinite, FS_AddElement DEF AfterLines
<1>5. AfterLines(text, q, k + 1)
    BY <1>1, <1>4, NewlinesFinite DEF AfterLines
<1>6. k + 1 \in 1 .. Cardinality(Newlines(text))
    BY <1>1, <1>4, NewlinesFinite, UpToFinite
<1>7. LineEnd(text, k) = p /\ LineEnd(text, k + 1) = q /\ (k + 1) - 1 = k
    BY <1>1, <1>5, AfterLinesEnd
<1> QED
    BY <1>5, <1>6, <1>7 DEF LinesOf

\* When all characters are in the first k lines there are no more.
LEMMA NoMoreLines ==
    ASSUME NEW text \in Seq(STRING), NEW k, AfterLines(text, Len(text), k)
    PROVE  k = Cardinality(Newlines(text))
<1>1. NewlinesUpTo(text, Len(text)) = Newlines(text)
    BY NewlinesFinite DEF NewlinesUpTo
<1> QED
    BY <1>1 DEF AfterLines

ScriptPcs == {"none", "open", "read", "waitpid", "exited"}

Statuses == {"running", "could not open script", "read error", "end of file",
             "incomplete line", "child error", "exit"}

ScriptType ==
    [pc : ScriptPcs, text : Seq(STRING), offset : Int, file_offset : Int, bytes_read : Int,
     line : Seq(STRING), executed : Seq(Seq(STRING)), status : Statuses]

\* What has been executed is the text's first lines, in order.
ExecutedFirst(s) ==
    /\ Len(s.executed) <= Cardinality(Newlines(s.text))
    /\ \A k \in 1 .. Len(s.executed) : s.executed[k] = LinesOf(s.text)[k]

\* Before a read the descriptor stands behind the lines executed; during a
\* command the loop's end will move it there.
AtLine(s) ==
    /\ s.pc \in {"none", "open"} => s.offset = 0 /\ s.file_offset = 0 /\ s.executed = <<>>
    /\ s.pc = "read" => /\ s.file_offset = s.offset
                        /\ AfterLines(s.text, s.offset, Len(s.executed))
    /\ s.pc = "waitpid" =>
         AfterLines(s.text, s.file_offset - (s.bytes_read - (Len(s.line) + 1)), Len(s.executed))

ScriptInv ==
    /\ script \in ScriptType
    /\ ExecutedFirst(script)
    /\ AtLine(script)
    /\ script.status = "end of file" =>
         script.pc = "exited" /\ Len(script.executed) = Cardinality(Newlines(script.text))

\* Initially nothing is executed.
LEMMA ScriptInitially == Init => ScriptInv
<1> SUFFICES ASSUME Init PROVE ScriptInv
    OBVIOUS
<1>1. \E text \in Seq(STRING), pc \in {"none", "open"} : script = NewScript(pc, text)
  <2>1. <<>> \in Seq(STRING)
    OBVIOUS
  <2> QED
    BY <2>1, ShellAssumption DEF Init
<1>2. PICK text \in Seq(STRING), pc \in {"none", "open"} : script = NewScript(pc, text)
    BY <1>1
<1>3. script \in ScriptType
    BY <1>2 DEF NewScript, ScriptType, ScriptPcs, Statuses
<1>4. script.executed = <<>> /\ script.offset = 0 /\ script.file_offset = 0 /\ script.pc = pc
      /\ script.text = text /\ script.status = "running"
    BY <1>2 DEF NewScript
<1>5. ExecutedFirst(script)
    BY <1>4, NewlinesFinite DEF ExecutedFirst
<1>6. AtLine(script)
    BY <1>4 DEF AtLine
<1> QED
    BY <1>3, <1>4, <1>5, <1>6 DEF ScriptInv

\* What exec_shell_line may do with a line.
LEMMA Kinds ==
    ASSUME NEW line
    PROVE  ExecKind(line) \in {"syntax error", "no-op", "word too long", "exit", "fork"}
    BY DEF ExecKind

\* The exit of the shell executes nothing more.
LEMMA ExitKeeps ==
    ASSUME ScriptInv, NEW status \in Statuses, ScriptExit(status),
           status = "end of file" => Len(script.executed) = Cardinality(Newlines(script.text))
    PROVE  ScriptInv'
<1>1. script' = [script EXCEPT !.pc = "exited", !.status = status] /\ script \in ScriptType
    BY DEF ScriptInv, ScriptExit
<1>2. /\ script' \in ScriptType
      /\ script'.pc = "exited" /\ script'.status = status
      /\ script'.text = script.text /\ script'.executed = script.executed
    BY <1>1 DEF ScriptType, ScriptPcs, Statuses
<1>3. ExecutedFirst(script)' /\ AtLine(script)'
    BY <1>2 DEF ScriptInv, ExecutedFirst, AtLine
<1> QED
    BY <1>2, <1>3 DEF ScriptInv

\* The end of the loop moves the descriptor to the next line.
LEMMA RewindMoves ==
    ASSUME NEW s \in ScriptType, ExecutedFirst(s),
           AfterLines(s.text, s.file_offset - (s.bytes_read - (Len(s.line) + 1)), Len(s.executed))
    PROVE  /\ Rewind(s) \in ScriptType
           /\ ExecutedFirst(Rewind(s)) /\ AtLine(Rewind(s))
           /\ Rewind(s).status = s.status /\ Rewind(s).pc = "read"
<1> DEFINE o == s.file_offset - (s.bytes_read - (Len(s.line) + 1))
<1>1. o \in Int
  <2>1. s.line \in Seq(STRING) /\ s.file_offset \in Int /\ s.bytes_read \in Int
    BY DEF ScriptType
  <2>2. Len(s.line) \in Nat
    BY <2>1
  <2> QED
    BY <2>1, <2>2
<1>2. Rewind(s) = [s EXCEPT !.pc = "read", !.file_offset = o, !.offset = o]
    BY DEF Rewind
<1>3. AfterLines(s.text, o, Len(s.executed))
    OBVIOUS
<1> HIDE DEF o
<1>4. /\ Rewind(s) \in ScriptType
      /\ Rewind(s).pc = "read" /\ Rewind(s).file_offset = o /\ Rewind(s).offset = o
      /\ Rewind(s).text = s.text /\ Rewind(s).executed = s.executed /\ Rewind(s).status = s.status
    BY <1>1, <1>2 DEF ScriptType, ScriptPcs, Statuses
<1> QED
    BY <1>3, <1>4 DEF ExecutedFirst, AtLine

\* How many bytes a read of the script returns.
ReadLength(s) == Min({SCRIPT_BUFFER_LENGTH, Len(s.text) - s.offset})

\* read returns nothing only at the end of the file.
LEMMA ReadLengthValue ==
    ASSUME NEW s \in ScriptType, s.offset \in 0 .. Len(s.text)
    PROVE  /\ ReadLength(s) \in 0 .. Len(s.text) - s.offset
           /\ ReadLength(s) = 0 => s.offset = Len(s.text)
<1>1. SCRIPT_BUFFER_LENGTH \in Nat \ {0} /\ Len(s.text) \in Nat /\ s.offset \in 0 .. Len(s.text)
    BY ShellAssumption DEF ScriptType
<1> DEFINE a == SCRIPT_BUFFER_LENGTH
           b == Len(s.text) - s.offset
<1>2. a \in Nat \ {0} /\ b \in Nat
    BY <1>1
<1>3. ReadLength(s) = Min({a, b})
    BY DEF ReadLength
<1> HIDE DEF a, b
<1>4. Min({a, b}) = IF a <= b THEN a ELSE b
    BY <1>2 DEF Min
<1>5. ReadLength(s) \in 0 .. b /\ (ReadLength(s) = 0 => b = 0)
    BY <1>2, <1>3, <1>4
<1> QED
    BY <1>1, <1>5 DEF b

\* The first line of a buffer, executed.
Line(s, m) == SubSeq(SubSeq(s.text, s.offset + 1, s.offset + ReadLength(s)), 1, m - 1)

Taken(s, line) ==
    [s EXCEPT !.offset = @ + ReadLength(s), !.file_offset = @ + ReadLength(s),
              !.bytes_read = ReadLength(s), !.line = line, !.executed = Append(@, line)]

\* The first newline in the buffer is that of the next line of the text.
LEMMA LineTaken ==
    ASSUME ScriptInv, script.pc = "read",
           NEW m \in 1 .. ReadLength(script),
           script.text[script.offset + m] = NL,
           \A i \in 1 .. ReadLength(script) : script.text[script.offset + i] = NL => m <= i
    PROVE  LET s == Taken(script, Line(script, m))
           IN /\ s \in ScriptType /\ ExecutedFirst(s)
              /\ AfterLines(s.text, s.file_offset - (s.bytes_read - (Len(s.line) + 1)), Len(s.executed))
              /\ s.status = script.status /\ s.text = script.text
<1> DEFINE text == script.text
           p == script.offset
           n == ReadLength(script)
           k == Len(script.executed)
           line == Line(script, m)
           s == Taken(script, line)
<1>1. /\ script \in ScriptType /\ text \in Seq(STRING) /\ script.executed \in Seq(Seq(STRING))
      /\ Len(text) \in Nat /\ k \in Nat
      /\ AfterLines(text, p, k) /\ p \in 0 .. Len(text)
      /\ script.file_offset = p
  <2>1. script \in ScriptType /\ script.file_offset = p /\ AfterLines(text, p, k)
    BY DEF ScriptInv, AtLine
  <2>2. text \in Seq(STRING) /\ script.executed \in Seq(Seq(STRING))
    BY <2>1 DEF ScriptType
  <2> QED
    BY <2>1, <2>2, LenProperties DEF AfterLines
<1>2. n \in 0 .. Len(text) - p
    BY <1>1, ReadLengthValue
<1>3. line \in Seq(STRING) /\ Len(line) = m - 1 /\ line = SubSeq(text, p + 1, (p + m) - 1)
  <2> DEFINE buffer == SubSeq(text, p + 1, p + n)
  <2>1. line = SubSeq(buffer, 1, m - 1)
    BY DEF Line
  <2>2. p \in Nat /\ n \in Nat /\ m \in 1 .. n /\ p + n <= Len(text)
    BY <1>1, <1>2
  <2> HIDE DEF n, p, text, line
  <2>3. buffer \in Seq(STRING) /\ Len(buffer) = n /\ \A i \in 1 .. n : buffer[i] = text[p + i]
    BY <1>1, <2>2, SubSeqProperties
  <2> HIDE DEF buffer
  <2>4. line \in Seq(STRING) /\ Len(line) = m - 1 /\ \A i \in 1 .. m - 1 : line[i] = text[p + i]
    BY <2>1, <2>2, <2>3, SubSeqProperties
  <2>5. SubSeq(text, p + 1, (p + m) - 1) \in Seq(STRING) /\ Len(SubSeq(text, p + 1, (p + m) - 1)) = m - 1
        /\ \A i \in 1 .. m - 1 : SubSeq(text, p + 1, (p + m) - 1)[i] = text[p + i]
    BY <1>1, <2>2, SubSeqProperties
  <2> QED
    BY <2>4, <2>5, SeqEqual
<1>4. /\ s \in ScriptType
      /\ s.text = text /\ s.status = script.status
      /\ s.file_offset = p + n /\ s.bytes_read = n /\ s.line = line
      /\ s.executed = Append(script.executed, line)
  <2>1. p \in Int /\ n \in Int /\ p + n \in Int
    BY <1>1, <1>2
  <2>2. Append(script.executed, line) \in Seq(Seq(STRING))
    BY <1>1, <1>3
  <2>3. s = [script EXCEPT !.offset = p + n, !.file_offset = p + n,
              !.bytes_read = n, !.line = line, !.executed = Append(script.executed, line)]
    BY <1>1 DEF Taken, ScriptType
  <2> HIDE DEF line, s, n
  <2> QED
    BY <1>1, <1>3, <2>1, <2>2, <2>3 DEF ScriptType, ScriptPcs, Statuses
<1>5. p + m \in Newlines(text) /\ p < p + m /\ \A j \in Newlines(text) : p < j => p + m <= j
  <2>1. Newlines(text) \in SUBSET (1 .. Len(text))
    BY <1>1, NewlinesFinite
  <2>2. p + m \in Newlines(text)
    BY <1>1, <1>2 DEF Newlines
  <2>3. ASSUME NEW j \in Newlines(text), p < j, j < p + m PROVE FALSE
    <3>1. j \in 1 .. Len(text) /\ text[j] = NL
      BY <2>1 DEF Newlines
    <3>2. j - p \in 1 .. n /\ text[p + (j - p)] = NL /\ j - p < m
      BY SMTT(30), <1>1, <1>2, <2>3, <3>1
    <3> QED
      BY <3>2, <1>2
  <2> QED
    BY <1>1, <1>2, <2>1, <2>2, <2>3
<1> HIDE DEF text, p, n, k, line, s
<1>6. /\ AfterLines(text, p + m, k + 1) /\ k + 1 \in 1 .. Cardinality(Newlines(text))
      /\ LinesOf(text)[k + 1] = line
  <2> DEFINE q == p + m
  <2>1. q \in Newlines(text) /\ p < q /\ \A j \in Newlines(text) : p < j => q <= j
    BY <1>5
  <2>2. line = SubSeq(text, p + 1, q - 1)
    BY <1>3
  <2> HIDE DEF q
  <2>3. /\ AfterLines(text, q, k + 1) /\ k + 1 \in 1 .. Cardinality(Newlines(text))
        /\ LinesOf(text)[k + 1] = SubSeq(text, p + 1, q - 1)
    <3>1. text \in Seq(STRING) /\ AfterLines(text, p, k)
      BY <1>1
    <3> QED
      BY <2>1, <3>1, NextLine
  <2> QED
    BY <2>2, <2>3 DEF q
<1>7. (p + n) - (n - (Len(line) + 1)) = p + m
    BY SMTT(30), <1>1, <1>2, <1>3
<1>8. Len(s.executed) = k + 1 /\ s.executed[k + 1] = line
      /\ \A i \in 1 .. k : s.executed[i] = script.executed[i]
  <2> DEFINE e == script.executed
  <2>1. e \in Seq(Seq(STRING)) /\ k = Len(e) /\ s.executed = Append(e, line)
    BY <1>1, <1>4 DEF k
  <2> HIDE DEF e
  <2>2. Len(Append(e, line)) = k + 1 /\ Append(e, line)[k + 1] = line
        /\ \A i \in 1 .. k : Append(e, line)[i] = e[i]
    BY SMTT(30), <1>3, <2>1, AppendProperties
  <2> QED
    BY <2>1, <2>2 DEF e
<1>9. ExecutedFirst(s)
  <2>1. \A i \in 1 .. k : script.executed[i] = LinesOf(text)[i]
    BY DEF ScriptInv, ExecutedFirst, k, text
  <2>2. \A i \in 1 .. k + 1 : i \in 1 .. k \/ i = k + 1
    BY <1>1
  <2>3. \A i \in 1 .. k + 1 : s.executed[i] = LinesOf(text)[i]
    BY <1>6, <1>8, <2>1, <2>2
  <2> QED
    BY <1>4, <1>6, <1>8, <2>3, NewlinesFinite, <1>1 DEF ExecutedFirst
<1> QED
    BY <1>4, <1>6, <1>7, <1>8, <1>9 DEF s, line, text

\* A read of the script, and the execution of the line it finds.
LEMMA ScriptReadPreserves == ScriptInv /\ ScriptRead => ScriptInv'
<1> SUFFICES ASSUME ScriptInv, ScriptRead PROVE ScriptInv'
    OBVIOUS
<1> DEFINE n == ReadLength(script)
           buffer == SubSeq(script.text, script.offset + 1, script.offset + n)
           newlines == {i \in DOMAIN buffer : buffer[i] = NL}
           line == Line(script, Min(newlines))
           s == Taken(script, line)
<1>1. /\ script.pc = "read" /\ script \in ScriptType
      /\ script.text \in Seq(STRING) /\ Len(script.text) \in Nat
      /\ AfterLines(script.text, script.offset, Len(script.executed))
      /\ script.offset \in 0 .. Len(script.text)
  <2>1. script.pc = "read" /\ script \in ScriptType
        /\ AfterLines(script.text, script.offset, Len(script.executed))
    BY DEF ScriptInv, AtLine, ScriptRead
  <2>2. script.text \in Seq(STRING)
    BY <2>1 DEF ScriptType
  <2> QED
    BY <2>1, <2>2, LenProperties DEF AfterLines
<1>2. n \in 0 .. Len(script.text) - script.offset /\ (n = 0 => script.offset = Len(script.text))
    BY <1>1, ReadLengthValue
<1>3. \/ ScriptExit("read error")
      \/ n = 0 /\ ScriptExit("end of file")
      \/ n # 0 /\ newlines = {} /\ ScriptExit("incomplete line")
      \/ /\ newlines # {}
         /\ \E kind \in {ExecKind(line)} :
               script' = CASE kind = "syntax error" -> [s EXCEPT !.pc = "exited", !.status = "child error"]
                           [] kind = "no-op" -> Rewind(s)
                           [] kind \in {"exit", "word too long"} ->
                                [s EXCEPT !.pc = "exited", !.status = "exit"]
                           [] kind = "fork"  -> [s EXCEPT !.pc = "waitpid"]
    BY DEF ScriptRead, ReadLength, Line, Taken
<1>4. CASE ScriptExit("read error") \/ ScriptExit("incomplete line")
    BY <1>4, ExitKeeps DEF Statuses
<1>5. CASE n = 0 /\ ScriptExit("end of file")
  <2>1. Len(script.executed) = Cardinality(Newlines(script.text))
    BY <1>1, <1>2, <1>5, NoMoreLines
  <2> QED
    BY <1>5, <2>1, ExitKeeps DEF Statuses
<1>6. ASSUME newlines # {}
      PROVE  /\ s \in ScriptType /\ ExecutedFirst(s)
             /\ AfterLines(s.text, s.file_offset - (s.bytes_read - (Len(s.line) + 1)), Len(s.executed))
             /\ s.status = script.status /\ s.text = script.text
  <2> DEFINE m == Min(newlines)
  <2>1. DOMAIN buffer = 1 .. n /\ \A i \in 1 .. n : buffer[i] = script.text[script.offset + i]
    <3>1. script.offset \in Nat /\ n \in Nat /\ script.offset + n <= Len(script.text)
      BY <1>1, <1>2
    <3> DEFINE text == script.text
               p == script.offset
    <3>2. text \in Seq(STRING) /\ p \in Nat /\ n \in Nat /\ p + n <= Len(text)
      BY <1>1, <3>1
    <3>3. buffer = SubSeq(text, p + 1, p + n)
      OBVIOUS
    <3> HIDE DEF n, text, p, buffer
    <3>4. Len(buffer) = n /\ buffer \in Seq(STRING) /\ \A i \in 1 .. n : buffer[i] = text[p + i]
      BY <3>2, <3>3, SubSeqProperties
    <3>5. DOMAIN buffer = 1 .. n
      BY <3>4, LenProperties
    <3> QED
      BY <3>4, <3>5 DEF text, p
  <2>2. newlines \in SUBSET Nat /\ newlines # {} /\ newlines \in SUBSET (1 .. n)
    <3>1. n \in Nat
      BY <1>1, <1>2
    <3> HIDE DEF n, buffer
    <3> QED
      BY <1>6, <2>1, <3>1
  <2>3. m \in newlines /\ \A i \in newlines : m <= i
    <3> HIDE DEF newlines
    <3>1. \E x \in newlines : \A y \in newlines : x <= y
      BY <2>2, LeastNatural
    <3> QED
      BY <3>1 DEF Min
  <2>4. m \in 1 .. n /\ script.text[script.offset + m] = NL
        /\ \A i \in 1 .. n : script.text[script.offset + i] = NL => m <= i
    <3>1. \A i \in 1 .. n : i \in newlines <=> script.text[script.offset + i] = NL
      BY <2>1
    <3> HIDE DEF newlines, m, n
    <3> QED
      BY <2>2, <2>3, <3>1
  <2> HIDE DEF m, newlines
  <2>5. s = Taken(script, Line(script, m))
    BY DEF m
  <2> HIDE DEF s
  <2> QED
    BY <1>1, <2>4, <2>5, LineTaken
<1>7. CASE newlines # {} /\ script' = Rewind(s)
  <2> HIDE DEF s
  <2>1. script' \in ScriptType /\ ExecutedFirst(script)' /\ AtLine(script)'
        /\ script'.status = script.status /\ script'.pc = "read"
    BY <1>6, <1>7, RewindMoves
  <2>2. script.status # "end of file"
    BY <1>1 DEF ScriptInv
  <2> QED
    BY <2>1, <2>2 DEF ScriptInv
<1>8. ASSUME newlines # {}, NEW st \in Statuses \ {"end of file"},
             script' = [s EXCEPT !.pc = "exited", !.status = st]
      PROVE  ScriptInv'
  <2>1. s \in ScriptType /\ ExecutedFirst(s)
    BY <1>6, <1>8
  <2> HIDE DEF s
  <2>2. /\ script' \in ScriptType /\ script'.pc = "exited" /\ script'.status = st
        /\ script'.executed = s.executed /\ script'.text = s.text
    BY <1>8, <2>1 DEF ScriptType, ScriptPcs, Statuses
  <2>3. ExecutedFirst(script)' /\ AtLine(script)'
    BY <2>1, <2>2 DEF ExecutedFirst, AtLine
  <2> QED
    BY <1>8, <2>2, <2>3 DEF ScriptInv
<1>9. CASE newlines # {} /\ script' = [s EXCEPT !.pc = "waitpid"]
  <2>1. /\ s \in ScriptType /\ ExecutedFirst(s) /\ s.status = script.status
        /\ AfterLines(s.text, s.file_offset - (s.bytes_read - (Len(s.line) + 1)), Len(s.executed))
    BY <1>6, <1>9
  <2> HIDE DEF s
  <2>2. /\ script' \in ScriptType /\ script'.pc = "waitpid" /\ script'.status = s.status
        /\ script'.executed = s.executed /\ script'.text = s.text /\ script'.file_offset = s.file_offset
        /\ script'.bytes_read = s.bytes_read /\ script'.line = s.line
    BY <1>9, <2>1 DEF ScriptType, ScriptPcs, Statuses
  <2>3. ExecutedFirst(script)' /\ AtLine(script)'
    BY <2>1, <2>2 DEF ExecutedFirst, AtLine
  <2>4. script.status # "end of file"
    BY <1>1 DEF ScriptInv
  <2> QED
    BY <2>1, <2>2, <2>3, <2>4 DEF ScriptInv
<1> HIDE DEF s, line, newlines
<1>10. \/ script' = Rewind(s) \/ script' = [s EXCEPT !.pc = "waitpid"]
       \/ \E st \in Statuses \ {"end of file"} : script' = [s EXCEPT !.pc = "exited", !.status = st]
       \/ newlines = {} \/ ScriptExit("read error") \/ ScriptExit("incomplete line")
       \/ n = 0 /\ ScriptExit("end of file")
    BY <1>3, Kinds DEF Statuses
<1> QED
    BY <1>3, <1>4, <1>5, <1>7, <1>8, <1>9, <1>10

\* Every step keeps the script's invariant.
LEMMA ScriptPreserved == ScriptInv /\ [Next]_vars => ScriptInv'
<1> SUFFICES ASSUME ScriptInv, [Next]_vars PROVE ScriptInv'
    OBVIOUS
<1>1. CASE UNCHANGED script
    BY <1>1 DEF ScriptInv, ExecutedFirst, AtLine
<1>2. CASE OpenScript
  <2>1. CASE ScriptExit("could not open script")
    BY <2>1, ExitKeeps DEF Statuses
  <2>2. CASE script' = [script EXCEPT !.pc = "read"]
    <3>1. script \in ScriptType /\ script.pc = "open" /\ script.offset = 0 /\ script.file_offset = 0
          /\ script.executed = <<>> /\ script.text \in Seq(STRING)
      BY <1>2 DEF ScriptInv, AtLine, OpenScript, ScriptType
    <3>2. /\ script' \in ScriptType /\ script'.pc = "read" /\ script'.status = script.status
          /\ script'.executed = script.executed /\ script'.text = script.text
          /\ script'.offset = 0 /\ script'.file_offset = 0
      BY <2>2, <3>1 DEF ScriptType, ScriptPcs
    <3>3. AfterLines(script.text, 0, 0)
      <4>1. NewlinesUpTo(script.text, 0) = {} /\ Len(script.text) \in Nat
        BY <3>1, NewlinesFinite DEF NewlinesUpTo
      <4>2. Cardinality(NewlinesUpTo(script.text, 0)) = 0
        BY <4>1, FS_EmptySet
      <4>3. 0 \in 0 .. Len(script.text)
        BY <4>1
      <4> QED
        BY <4>2, <4>3 DEF AfterLines
    <3>4. ExecutedFirst(script)'
      BY <3>2 DEF ScriptInv, ExecutedFirst
    <3>5. AtLine(script)'
      BY <3>1, <3>2, <3>3 DEF AtLine
    <3> QED
      BY <3>1, <3>2, <3>4, <3>5 DEF ScriptInv
  <2> QED
    BY <1>2, <2>1, <2>2 DEF OpenScript
<1>3. CASE ScriptChildDone
  <2>1. CASE ScriptExit("child error")
    BY <2>1, ExitKeeps DEF Statuses
  <2>2. CASE script' = Rewind(script)
    <3>1. script \in ScriptType /\ ExecutedFirst(script) /\ script.pc = "waitpid"
          /\ AfterLines(script.text, script.file_offset - (script.bytes_read - (Len(script.line) + 1)),
                        Len(script.executed))
      BY <1>3 DEF ScriptInv, AtLine, ScriptChildDone
    <3>2. script' \in ScriptType /\ ExecutedFirst(script)' /\ AtLine(script)'
          /\ script'.status = script.status
      BY <2>2, <3>1, RewindMoves
    <3> QED
      BY <3>1, <3>2 DEF ScriptInv
  <2> QED
    BY <1>3, <2>1, <2>2 DEF ScriptChildDone
<1>4. UNCHANGED vars => UNCHANGED script
    BY DEF vars
<1>5. ASSUME NEW key \in Keys, KeyboardInterrupt(key) PROVE UNCHANGED script
    BY <1>5 DEF KeyboardInterrupt
<1>6. ASSUME NEW v \in Vts,
             StartShell(v) \/ ReadKey(v) \/ ReadEscape(v) \/ ChildDone(v) \/ ForeignWrite(v)
      PROVE  UNCHANGED script
    BY <1>6 DEF StartShell, ReadKey, ReadEscape, ChildDone, ForeignWrite
<1> QED
    BY <1>1, <1>2, <1>3, <1>4, <1>5, <1>6, ScriptReadPreserves DEF Next

\* shell.c, script mode: for every text and every size of the buffer, the lines
\* are executed in order, none twice and none skipped; the end of the file is
\* only reached behind the last of them.
THEOREM ScriptsRunInOrder == Spec => []ScriptInOrder
<1>1. ScriptInv => ScriptInOrder
  <2> SUFFICES ASSUME ScriptInv PROVE ScriptInOrder
    OBVIOUS
  <2> DEFINE e == script.executed
             l == LinesOf(script.text)
             c == Cardinality(Newlines(script.text))
  <2>1. e \in Seq(Seq(STRING)) /\ script.text \in Seq(STRING)
    BY DEF ScriptInv, ScriptType
  <2>2. l = [k \in 1 .. c |-> l[k]] /\ c \in Nat
    BY <2>1, NewlinesFinite DEF LinesOf
  <2>3. Len(e) <= c /\ \A k \in 1 .. Len(e) : e[k] = l[k]
    BY DEF ScriptInv, ExecutedFirst
  <2>4. script.status = "end of file" => Len(e) = c
    BY DEF ScriptInv
  <2> HIDE DEF e, l, c
  <2>5. Len(e) \in Nat /\ e = [k \in 1 .. Len(e) |-> e[k]]
    BY <2>1
  <2>6. Len(l) = c /\ \A k \in 1 .. Len(e) : k \in 1 .. c
    BY <2>2, <2>3, <2>5
  <2>7. SubSeq(e, 1, Len(e)) = SubSeq(l, 1, Len(e))
    <3> DEFINE R == Seq(STRING) \cup {l[k] : k \in 1 .. c}
    <3>1. e \in Seq(R)
      BY <2>1, <2>5
    <3>2. l \in Seq(R)
      BY <2>2
    <3> HIDE DEF R
    <3>3. SubSeq(e, 1, Len(e)) \in Seq(R) /\ Len(SubSeq(e, 1, Len(e))) = Len(e)
          /\ \A k \in 1 .. Len(e) : SubSeq(e, 1, Len(e))[k] = e[k]
      BY <2>5, <3>1, SubSeqProperties
    <3>4. SubSeq(l, 1, Len(e)) \in Seq(R) /\ Len(SubSeq(l, 1, Len(e))) = Len(e)
          /\ \A k \in 1 .. Len(e) : SubSeq(l, 1, Len(e))[k] = l[k]
      BY <2>2, <2>3, <2>5, <2>6, <3>2, SubSeqProperties
    <3> QED
      BY <2>3, <3>3, <3>4, SeqEqual
  <2>8. Len(e) = c => e = l
    BY <2>2, <2>3, <2>5
  <2> QED
    BY <2>3, <2>4, <2>6, <2>7, <2>8 DEF ScriptInOrder, IsPrefix, e, l
<1> QED
    BY <1>1, ScriptInitially, ScriptPreserved, PTL DEF Spec

-----------------------------------------------------------------------------
(* Loops over a sequence of characters.                                    *)

\* A turn of the loop of vt_write, or of the one that fills the input ring.
Turn(loop, d, c) == IF loop = "output" THEN PutChar(d, c) ELSE vt_append_input_character(d, c)

\* g is the function that FoldLeft defines to fold such turns over n bytes.
FoldEq(loop, g, n, d, bytes) ==
    g = [s \in SUBSET (1 .. n) |-> IF s = {} THEN d ELSE Turn(loop, g[s \ {Max(s)}], bytes[Max(s)])]

\* The greatest element of a set that m bounds and is in.
LEMMA MaxOfSet ==
    ASSUME NEW m \in Nat, NEW s \in SUBSET (1 .. m), m \in s
    PROVE  Max(s) = m
<1>1. \A y \in s : m >= y
    OBVIOUS
<1>2. ASSUME NEW x \in s, \A y \in s : x >= y PROVE x = m
    BY <1>2
<1> QED
    BY <1>1, <1>2 DEF Max

\* Such a function exists.
LEMMA FoldExists ==
    ASSUME NEW loop, NEW d, NEW bytes, NEW n \in Nat
    PROVE  \E g : FoldEq(loop, g, n, d, bytes)
<1> DEFINE Bad == {k \in Nat : ~ \E g : FoldEq(loop, g, k, d, bytes)}
<1> SUFFICES ASSUME Bad # {} PROVE FALSE
    OBVIOUS
<1>1. PICK m \in Bad : \A k \in Bad : m <= k
    BY LeastNatural
<1>2. CASE m = 0
  <2> DEFINE g == [s \in SUBSET (1 .. 0) |-> d]
  <2>1. \A s \in SUBSET (1 .. 0) : s = {}
    OBVIOUS
  <2>2. FoldEq(loop, g, 0, d, bytes)
    BY <2>1 DEF FoldEq
  <2> QED
    BY <1>1, <1>2, <2>2
<1>3. CASE m # 0
  <2>1. m \in Nat /\ m - 1 \in Nat /\ m - 1 \notin Bad
    BY <1>1, <1>3
  <2>2. PICK g : FoldEq(loop, g, m - 1, d, bytes)
    BY <2>1
  <2> DEFINE h == [s \in SUBSET (1 .. m) |-> IF m \in s THEN Turn(loop, g[s \ {m}], bytes[m]) ELSE g[s]]
  <2>3. ASSUME NEW s \in SUBSET (1 .. m)
        PROVE  h[s] = IF s = {} THEN d ELSE Turn(loop, h[s \ {Max(s)}], bytes[Max(s)])
    <3>1. CASE m \in s
      <4>1. Max(s) = m /\ s # {}
        BY <2>1, <3>1, MaxOfSet
      <4>2. s \ {m} \in SUBSET (1 .. m) /\ m \notin s \ {m}
        OBVIOUS
      <4>3. h[s \ {m}] = g[s \ {m}]
        BY <4>2
      <4>4. h[s] = Turn(loop, g[s \ {m}], bytes[m])
        BY <3>1
      <4> HIDE DEF h
      <4> QED
        BY <4>1, <4>3, <4>4
    <3>2. CASE m \notin s
      <4>1. s \in SUBSET (1 .. m - 1)
        BY <2>1, <3>2
      <4>2. g[s] = IF s = {} THEN d ELSE Turn(loop, g[s \ {Max(s)}], bytes[Max(s)])
        BY <2>2, <4>1 DEF FoldEq
      <4>3. s \ {Max(s)} \in SUBSET (1 .. m) /\ m \notin s \ {Max(s)}
        BY <3>2
      <4>4. h[s \ {Max(s)}] = g[s \ {Max(s)}]
        BY <4>3
      <4>5. h[s] = g[s]
        BY <3>2
      <4> HIDE DEF h
      <4> QED
        BY <4>2, <4>4, <4>5
    <3> QED
      BY <3>1, <3>2
  <2>4. h = [s \in SUBSET (1 .. m) |-> h[s]]
    OBVIOUS
  <2> HIDE DEF h
  <2>5. FoldEq(loop, h, m, d, bytes)
    BY <2>3, <2>4 DEF FoldEq
  <2> QED
    BY <1>1, <2>5
<1> QED
    BY <1>2, <1>3

\* h[k] is the terminal d after k turns of the loop over the bytes.
Turns(loop, h, n, d, bytes) ==
    /\ h[0] = d
    /\ \A k \in 1 .. n : h[k] = Turn(loop, h[k - 1], bytes[k])

\* The function that FoldLeft defines goes through these turns.
LEMMA FoldGoes ==
    ASSUME NEW loop, NEW g, NEW d, NEW bytes, NEW n \in Nat, FoldEq(loop, g, n, d, bytes)
    PROVE  \E h : Turns(loop, h, n, d, bytes) /\ g[1 .. n] = h[n]
<1>1. g[{}] = d
    BY DEF FoldEq
<1>2. ASSUME NEW k \in 1 .. n PROVE g[1 .. k] = Turn(loop, g[1 .. k - 1], bytes[k])
  <2>1. 1 .. k \in SUBSET (1 .. n) /\ k \in 1 .. k /\ 1 .. k # {} /\ k \in Nat
    OBVIOUS
  <2>2. Max(1 .. k) = k
    BY <2>1, MaxOfSet
  <2>3. (1 .. k) \ {k} = 1 .. k - 1
    OBVIOUS
  <2> QED
    BY <2>1, <2>2, <2>3 DEF FoldEq
<1> DEFINE h == [k \in 0 .. n |-> g[1 .. k]]
<1>3. h[0] = d
  <2>1. 1 .. 0 = {}
    OBVIOUS
  <2> QED
    BY <1>1, <2>1
<1>4. ASSUME NEW k \in 1 .. n PROVE h[k] = Turn(loop, h[k - 1], bytes[k])
    BY <1>2
<1>5. h[n] = g[1 .. n]
    OBVIOUS
<1> HIDE DEF h
<1> QED
    BY <1>3, <1>4, <1>5 DEF Turns

\* FoldLeft over the turns of vt_write is this loop.
LEMMA OutputTurns ==
    ASSUME NEW d, NEW bytes, NEW n \in Nat, DOMAIN bytes = 1 .. n
    PROVE  \E h : Turns("output", h, n, d, bytes) /\ FoldLeft(PutChar, d, bytes) = h[n]
<1> DEFINE g == CHOOSE g : g = [s \in SUBSET (1 .. n) |->
                    IF s = {} THEN d ELSE PutChar(g[s \ {Max(s)}], bytes[Max(s)])]
<1>1. FoldLeft(PutChar, d, bytes) = g[1 .. n]
    BY DEF FoldLeft, MapThenFoldSet
<1>2. \E f : f = [s \in SUBSET (1 .. n) |->
                    IF s = {} THEN d ELSE PutChar(f[s \ {Max(s)}], bytes[Max(s)])]
  <2>1. PICK f : FoldEq("output", f, n, d, bytes)
    BY FoldExists
  <2>2. f = [s \in SUBSET (1 .. n) |-> IF s = {} THEN d ELSE PutChar(f[s \ {Max(s)}], bytes[Max(s)])]
    BY <2>1 DEF FoldEq, Turn
  <2> QED
    BY <2>2
<1>3. g = [s \in SUBSET (1 .. n) |-> IF s = {} THEN d ELSE PutChar(g[s \ {Max(s)}], bytes[Max(s)])]
    BY <1>2
<1> HIDE DEF g
<1>4. FoldEq("output", g, n, d, bytes)
    BY <1>3 DEF FoldEq, Turn
<1> QED
    BY <1>1, <1>4, FoldGoes

\* And so is FoldLeft over those that fill the ring.
LEMMA InputTurns ==
    ASSUME NEW d, NEW bytes, NEW n \in Nat, DOMAIN bytes = 1 .. n
    PROVE  \E h : Turns("input", h, n, d, bytes) /\ FoldLeft(vt_append_input_character, d, bytes) = h[n]
<1> DEFINE g == CHOOSE g : g = [s \in SUBSET (1 .. n) |->
                    IF s = {} THEN d ELSE vt_append_input_character(g[s \ {Max(s)}], bytes[Max(s)])]
<1>1. FoldLeft(vt_append_input_character, d, bytes) = g[1 .. n]
    BY DEF FoldLeft, MapThenFoldSet
<1>2. \E f : f = [s \in SUBSET (1 .. n) |->
                    IF s = {} THEN d ELSE vt_append_input_character(f[s \ {Max(s)}], bytes[Max(s)])]
  <2>1. PICK f : FoldEq("input", f, n, d, bytes)
    BY FoldExists
  <2>2. f = [s \in SUBSET (1 .. n) |-> IF s = {} THEN d ELSE vt_append_input_character(f[s \ {Max(s)}], bytes[Max(s)])]
    BY <2>1 DEF FoldEq, Turn
  <2> QED
    BY <2>2
<1>3. g = [s \in SUBSET (1 .. n) |->
             IF s = {} THEN d ELSE vt_append_input_character(g[s \ {Max(s)}], bytes[Max(s)])]
    BY <1>2
<1> HIDE DEF g
<1>4. FoldEq("input", g, n, d, bytes)
    BY <1>3 DEF FoldEq, Turn
<1> QED
    BY <1>1, <1>4, FoldGoes

-----------------------------------------------------------------------------
(* The screen.                                                             *)

DeviceFields == {"cursor_row", "cursor_column", "escape_state", "terminal_buffer", "repaint_flags",
                 "input_rb_head_idx", "input_rb_tail_idx", "input_rb"}

Escapes == {"VT_ESCAPE_NONE", "VT_ESCAPE_ESC", "VT_ESCAPE_ESC_PAREN"}

Device(d) == DeviceFields \subseteq DOMAIN d /\ d.escape_state \in Escapes

\* The input ring is the same.
SameRing(d, e) ==
    /\ e.input_rb_head_idx = d.input_rb_head_idx
    /\ e.input_rb_tail_idx = d.input_rb_tail_idx
    /\ e.input_rb = d.input_rb

\* Everything but the input ring is the same.
SameScreen(d, e) ==
    /\ e.cursor_row = d.cursor_row /\ e.cursor_column = d.cursor_column
    /\ e.terminal_buffer = d.terminal_buffer /\ e.repaint_flags = d.repaint_flags
    /\ e.escape_state = d.escape_state

CursorOf(d) == <<d.cursor_row, d.cursor_column>>

\* d has become e by drawing: what is not flagged in e looks as it did in d.
Draws(d, e) ==
    /\ Device(e) /\ SameRing(d, e)
    /\ d.repaint_flags \subseteq e.repaint_flags
    /\ \A x \in Cells : x \notin e.repaint_flags =>
          /\ e.terminal_buffer[x] = d.terminal_buffer[x]
          /\ x = CursorOf(e) <=> x = CursorOf(d)

\* Drawing nothing is drawing.
LEMMA DrawsNothing == ASSUME NEW d, Device(d) PROVE Draws(d, d)
    BY DEF Draws, SameRing

\* Drawing twice is drawing.
LEMMA DrawsTwice == ASSUME NEW d, NEW e, NEW f, Draws(d, e), Draws(e, f) PROVE Draws(d, f)
    BY DEF Draws, SameRing

\* vt_set_cursor flags the cell it leaves and the cell it enters.
LEMMA SetCursorDraws ==
    ASSUME NEW d, Device(d), NEW row, NEW column
    PROVE  Draws(d, vt_set_cursor(d, row, column))
<1> DEFINE e == vt_set_cursor(d, row, column)
<1>1. /\ DOMAIN e = DOMAIN d /\ e.escape_state = d.escape_state /\ SameRing(d, e)
      /\ e.terminal_buffer = d.terminal_buffer
      /\ e.cursor_row = row /\ e.cursor_column = column
      /\ e.repaint_flags = d.repaint_flags \cup {<<d.cursor_row, d.cursor_column>>, <<row, column>>}
    BY DEF vt_set_cursor, Device, DeviceFields, SameRing
<1> HIDE DEF e
<1>2. Draws(d, e)
    BY <1>1 DEF Draws, Device, CursorOf
<1> QED
    BY <1>2 DEF e

\* vt_set_char flags the cells it changes.
LEMMA SetCharDraws ==
    ASSUME NEW d, Device(d), NEW new
    PROVE  Draws(d, vt_set_char(d, new))
<1> DEFINE e == vt_set_char(d, new)
<1>1. /\ DOMAIN e = DOMAIN d /\ e.escape_state = d.escape_state /\ SameRing(d, e)
      /\ e.cursor_row = d.cursor_row /\ e.cursor_column = d.cursor_column
      /\ e.repaint_flags = d.repaint_flags \cup DOMAIN new
      /\ e.terminal_buffer = [x \in Cells |-> IF x \in DOMAIN new THEN new[x] ELSE d.terminal_buffer[x]]
    BY DEF vt_set_char, Device, DeviceFields, SameRing
<1> HIDE DEF e
<1>2. Draws(d, e)
    BY <1>1 DEF Draws, Device, CursorOf
<1> QED
    BY <1>2 DEF e

\* The state of the escape parser is not on the screen.
LEMMA EscapeDraws ==
    ASSUME NEW d, Device(d), NEW state \in Escapes
    PROVE  Draws(d, [d EXCEPT !.escape_state = state])
<1> DEFINE e == [d EXCEPT !.escape_state = state]
<1>1. /\ DOMAIN e = DOMAIN d /\ e.escape_state = state /\ SameRing(d, e)
      /\ e.cursor_row = d.cursor_row /\ e.cursor_column = d.cursor_column
      /\ e.repaint_flags = d.repaint_flags
      /\ e.terminal_buffer = d.terminal_buffer
    BY DEF Device, DeviceFields, SameRing
<1> HIDE DEF e
<1>2. Draws(d, e)
    BY <1>1 DEF Draws, Device, CursorOf
<1> QED
    BY <1>2 DEF e

\* To the next row, with or without scrolling.
LEMMA NextRowDraws == ASSUME NEW d, Device(d) PROVE Draws(d, NextRow(d))
<1>1. CASE d.cursor_row = terminal_height - 1
  <2> DEFINE e == vt_set_cursor(d, d.cursor_row, 0)
  <2>1. Draws(d, e) /\ Device(e)
    BY SetCursorDraws DEF Draws
  <2>2. NextRow(d) = vt_shift_rows(e)
    BY <1>1 DEF NextRow
  <2> HIDE DEF e
  <2>3. Draws(e, vt_shift_rows(e))
    BY <2>1, SetCharDraws DEF vt_shift_rows
  <2> QED
    BY <2>1, <2>2, <2>3, DrawsTwice
<1>2. CASE d.cursor_row # terminal_height - 1
    BY <1>2, SetCursorDraws DEF NextRow
<1> QED
    BY <1>1, <1>2

\* The character that ends an escape sequence.
LEMMA EscapeCodeDraws == ASSUME NEW d, Device(d), NEW c PROVE Draws(d, EscapeCode(d, c))
<1> DEFINE e == EscapeCode(d, c)
<1>1. \/ \E row, column : e = vt_set_cursor(d, row, column)
      \/ \E new : e = vt_set_char(d, new)
      \/ e = d
    BY DEF EscapeCode
<1> HIDE DEF e
<1>2. Draws(d, e)
    BY <1>1, SetCursorDraws, SetCharDraws, DrawsNothing
<1> QED
    BY <1>2 DEF e

\* A character outside an escape sequence.
LEMMA PlainCharDraws == ASSUME NEW d, Device(d), NEW c PROVE Draws(d, PlainChar(d, c))
<1> DEFINE e == vt_set_char(d, [x \in {<<d.cursor_row, d.cursor_column>>} |-> c])
<1>1. Draws(d, e) /\ Device(e)
    BY SetCharDraws DEF Draws
<1>2. \/ PlainChar(d, c) = NextRow(d) \/ PlainChar(d, c) = d
      \/ \E row, column : PlainChar(d, c) = vt_set_cursor(d, row, column)
      \/ PlainChar(d, c) = NextRow(e)
      \/ \E row, column : PlainChar(d, c) = vt_set_cursor(e, row, column)
    BY DEF PlainChar
<1> HIDE DEF e
<1> QED
    BY <1>1, <1>2, NextRowDraws, SetCursorDraws, DrawsNothing, DrawsTwice

\* One turn of the loop of vt_write.
LEMMA PutCharDraws == ASSUME NEW d, Device(d), NEW c PROVE Draws(d, PutChar(d, c))
<1>1. CASE d.escape_state = "VT_ESCAPE_ESC_PAREN"
  <2>1. Draws(d, EscapeCode(d, c)) /\ Device(EscapeCode(d, c))
    BY EscapeCodeDraws DEF Draws
  <2>2. PutChar(d, c) = [EscapeCode(d, c) EXCEPT !.escape_state = "VT_ESCAPE_NONE"]
    BY <1>1 DEF PutChar
  <2>3. Draws(EscapeCode(d, c), PutChar(d, c))
    BY <2>1, <2>2, EscapeDraws DEF Escapes
  <2> QED
    BY <2>1, <2>3, DrawsTwice
<1>2. CASE d.escape_state = "VT_ESCAPE_ESC"
  <2>1. \E state \in Escapes : PutChar(d, c) = [d EXCEPT !.escape_state = state]
    BY <1>2 DEF PutChar, Escapes
  <2> QED
    BY <2>1, EscapeDraws
<1>3. CASE d.escape_state = "VT_ESCAPE_NONE"
  <2>1. PutChar(d, c) = [d EXCEPT !.escape_state = "VT_ESCAPE_ESC"] \/ PutChar(d, c) = PlainChar(d, c)
    BY <1>3 DEF PutChar
  <2>2. "VT_ESCAPE_ESC" \in Escapes
    BY DEF Escapes
  <2> QED
    BY <2>1, <2>2, EscapeDraws, PlainCharDraws
<1> QED
    BY <1>1, <1>2, <1>3 DEF Device, Escapes

\* The whole loop.
LEMMA WriteDraws ==
    ASSUME NEW d, Device(d), NEW bytes, NEW n \in Nat, DOMAIN bytes = 1 .. n
    PROVE  Draws(d, FoldLeft(PutChar, d, bytes))
<1>1. PICK h : Turns("output", h, n, d, bytes) /\ FoldLeft(PutChar, d, bytes) = h[n]
    BY OutputTurns
<1> DEFINE Bad == {k \in 0 .. n : ~ Draws(d, h[k])}
<1>2. Bad = {}
  <2> SUFFICES ASSUME Bad # {} PROVE FALSE
    OBVIOUS
  <2>1. Bad \in SUBSET Nat
    OBVIOUS
  <2>2. PICK m \in Bad : \A k \in Bad : m <= k
    BY <2>1, LeastNatural
  <2>3. m # 0
    BY <1>1, <2>2, DrawsNothing DEF Turns
  <2>4. m \in 1 .. n /\ m - 1 \in 0 .. n /\ Draws(d, h[m - 1])
    BY <2>2, <2>3
  <2>5. Device(h[m - 1]) /\ h[m] = PutChar(h[m - 1], bytes[m])
    BY <1>1, <2>4 DEF Turns, Turn, Draws
  <2>6. Draws(h[m - 1], h[m])
    BY <2>5, PutCharDraws
  <2> QED
    BY <2>2, <2>4, <2>6, DrawsTwice
<1>3. n \in 0 .. n
    OBVIOUS
<1> QED
    BY <1>1, <1>2, <1>3

-----------------------------------------------------------------------------
(* What the shells write.                                                  *)

Sequence(s) == \E S : s \in Seq(S)

\* A sequence is a function on 1 to its length.
LEMMA SequenceDomain ==
    ASSUME NEW s, Sequence(s)
    PROVE  Len(s) \in Nat /\ DOMAIN s = 1 .. Len(s)
    BY LenProperties DEF Sequence

\* One sequence after the other.
LEMMA SequenceConcat ==
    ASSUME NEW s, NEW t, Sequence(s), Sequence(t)
    PROVE  Sequence(s \o t) /\ Len(s \o t) = Len(s) + Len(t)
<1>1. PICK S : s \in Seq(S)
    BY DEF Sequence
<1>2. PICK T : t \in Seq(T)
    BY DEF Sequence
<1>3. s \in Seq(S \cup T) /\ t \in Seq(S \cup T)
  <2>1. Len(s) \in Nat /\ s \in [1 .. Len(s) -> S \cup T]
    BY <1>1, LenProperties
  <2>2. Len(t) \in Nat /\ t \in [1 .. Len(t) -> S \cup T]
    BY <1>2, LenProperties
  <2> QED
    BY <2>1, <2>2
<1> QED
    BY <1>3, ConcatProperties DEF Sequence

\* A function on 1 to n, and a part of one.
LEMMA SequenceOf ==
    ASSUME NEW n \in Nat, NEW f, f = [i \in 1 .. n |-> f[i]]
    PROVE  Sequence(f) /\ Len(f) = n
<1>1. f \in Seq({f[i] : i \in 1 .. n}) /\ Len(f) = n
    OBVIOUS
<1> QED
    BY <1>1 DEF Sequence

\* The first m elements of a sequence.
LEMMA SequencePart ==
    ASSUME NEW s, NEW m \in Nat
    PROVE  Sequence(SubSeq(s, 1, m)) /\ Len(SubSeq(s, 1, m)) = m
           /\ \A i \in 1 .. m : SubSeq(s, 1, m)[i] = s[i]
<1> DEFINE S == {s[i] : i \in 1 .. m}
<1>1. \A i \in 1 .. m : s[i] \in S
    OBVIOUS
<1> HIDE DEF S
<1>2. SubSeq(s, 1, m) \in Seq(S) /\ Len(SubSeq(s, 1, m)) = (IF 1 <= m THEN m - 1 + 1 ELSE 0)
      /\ \A i \in 1 .. m - 1 + 1 : SubSeq(s, 1, m)[i] = s[1 + i - 1]
    BY <1>1, SubSeqProperties
<1> QED
    BY <1>2 DEF Sequence

\* f is the function that FlattenSeq defines for the first n of the sequences.
FlatEq(f, n, seqs) == f = [i \in 1 .. n |-> IF i = 1 THEN seqs[i] ELSE f[i - 1] \o seqs[i]]

\* Such a function exists.
LEMMA FlatExists ==
    ASSUME NEW seqs, NEW n \in Nat
    PROVE  \E f : FlatEq(f, n, seqs)
<1> DEFINE Bad == {k \in Nat : ~ \E f : FlatEq(f, k, seqs)}
<1> SUFFICES ASSUME Bad # {} PROVE FALSE
    OBVIOUS
<1>1. PICK m \in Bad : \A k \in Bad : m <= k
    BY LeastNatural
<1>2. CASE m = 0
  <2> DEFINE f == [i \in 1 .. 0 |-> seqs[i]]
  <2>1. FlatEq(f, 0, seqs)
    BY DEF FlatEq
  <2> QED
    BY <1>1, <1>2, <2>1
<1>3. CASE m # 0
  <2>1. m \in Nat /\ m - 1 \in Nat /\ m - 1 \notin Bad
    BY <1>1, <1>3
  <2>2. PICK f : FlatEq(f, m - 1, seqs)
    BY <2>1
  <2> DEFINE g == [i \in 1 .. m |-> IF i = m THEN IF m = 1 THEN seqs[m] ELSE f[m - 1] \o seqs[m]
                                    ELSE f[i]]
  <2>3. ASSUME NEW i \in 1 .. m
        PROVE  g[i] = IF i = 1 THEN seqs[i] ELSE g[i - 1] \o seqs[i]
    <3>1. i # 1 => i - 1 \in 1 .. m - 1 /\ g[i - 1] = f[i - 1]
      BY <2>1
    <3>2. i # m => i \in 1 .. m - 1 /\ g[i] = f[i]
      BY <2>1
    <3>3. i # m => f[i] = IF i = 1 THEN seqs[i] ELSE f[i - 1] \o seqs[i]
      BY <2>2, <3>2 DEF FlatEq
    <3>4. i = m => g[i] = IF m = 1 THEN seqs[m] ELSE f[m - 1] \o seqs[m]
      OBVIOUS
    <3> HIDE DEF g
    <3> QED
      BY <3>1, <3>2, <3>3, <3>4
  <2>4. g = [i \in 1 .. m |-> g[i]]
    OBVIOUS
  <2> HIDE DEF g
  <2>5. FlatEq(g, m, seqs)
    BY <2>3, <2>4 DEF FlatEq
  <2> QED
    BY <1>1, <2>5
<1> QED
    BY <1>2, <1>3

\* Sequences, one after the other, make a sequence.
LEMMA FlattenSequence ==
    ASSUME NEW n \in Nat, NEW S, NEW seqs \in Seq(Seq(S)), Len(seqs) = n
    PROVE  Sequence(FlattenSeq(seqs))
<1>1. CASE n = 0
    BY <1>1 DEF FlattenSeq, Sequence
<1>2. CASE n # 0
  <2> DEFINE f == CHOOSE f : FlatEq(f, n, seqs)
             Bad == {k \in 1 .. n : f[k] \notin Seq(S)}
  <2>1. FlattenSeq(seqs) = f[n]
    BY <1>2 DEF FlattenSeq, FlatEq
  <2>2. FlatEq(f, n, seqs)
    BY FlatExists
  <2> HIDE DEF f
  <2>3. ASSUME Bad # {} PROVE FALSE
    <3>1. Bad \in SUBSET Nat
      OBVIOUS
    <3>2. PICK m \in Bad : \A k \in Bad : m <= k
      BY <2>3, <3>1, LeastNatural
    <3>3. m \in 1 .. n /\ seqs[m] \in Seq(S)
      BY LenProperties
    <3>4. f[m] = IF m = 1 THEN seqs[m] ELSE f[m - 1] \o seqs[m]
      BY <2>2, <3>3 DEF FlatEq
    <3>5. m # 1 => f[m - 1] \in Seq(S)
      BY <3>2, <3>3
    <3>6. f[m] \in Seq(S)
      BY <3>3, <3>4, <3>5, ConcatProperties
    <3> QED
      BY <3>2, <3>6
  <2>4. n \in 1 .. n
    BY <1>2
  <2>5. f[n] \in Seq(S)
    BY <2>3, <2>4
  <2> QED
    BY <2>1, <2>5 DEF Sequence
<1> QED
    BY <1>1, <1>2

\* What rewrite_command_line writes.
LEMMA LineSequence ==
    ASSUME NEW buffer, NEW length \in Nat, NEW offset \in Nat
    PROVE  Sequence(LineOf(buffer, length)) /\ Sequence(rewrite_command_line(buffer, length, offset))
<1>1. Sequence(LineOf(buffer, length))
  <2> DEFINE f == LineOf(buffer, length)
  <2>1. f = [i \in 1 .. length |-> f[i]]
    BY DEF LineOf
  <2> HIDE DEF f
  <2>2. Sequence(f)
    BY <2>1, SequenceOf
  <2> QED
    BY <2>2 DEF f
<1>2. Sequence(FlattenSeq([i \in 1 .. offset |-> <<ESC, "[", "D">>]))
  <2> DEFINE seqs == [i \in 1 .. offset |-> <<ESC, "[", "D">>]
             S == {ESC, "[", "D"}
  <2>1. seqs \in Seq(Seq(S)) /\ Len(seqs) = offset
    OBVIOUS
  <2> HIDE DEF seqs, S
  <2>2. Sequence(FlattenSeq(seqs))
    BY <2>1, FlattenSequence
  <2> QED
    BY <2>2 DEF seqs
<1>3. Sequence(<<CR, ESC, "[", "K">>) /\ Sequence(command_prompt)
  <2>1. <<CR, ESC, "[", "K">> \in Seq({CR, ESC, "[", "K"}) /\ <<"#", SPACE>> \in Seq({"#", SPACE})
    OBVIOUS
  <2> QED
    BY <2>1 DEF Sequence, command_prompt
<1> QED
    BY <1>1, <1>2, <1>3, SequenceConcat DEF rewrite_command_line

\* What the other writes write.
LEMMA MessagesAreSequences ==
    /\ Sequence(command_prompt) /\ Sequence(ERROR_MESSAGE) /\ Sequence(<<NL>>) /\ Sequence(<<>>)
    /\ \A c : Sequence(<<c>>)
    /\ \A o \in Outputs \cup KernelMessages : Sequence(o)
<1>1. <<"#", SPACE>> \in Seq({"#", SPACE}) /\ <<"!", NL>> \in Seq({"!", NL}) /\ <<>> \in Seq({})
    OBVIOUS
<1>2. \A c : <<c>> \in Seq({c})
    OBVIOUS
<1>3. \A o \in Outputs \cup KernelMessages : o \in Seq(STRING)
    BY ShellAssumption
<1> QED
    BY <1>1, <1>2, <1>3 DEF Sequence, command_prompt, ERROR_MESSAGE

-----------------------------------------------------------------------------
(* What a step does to a terminal.                                         *)

Slots == 0 .. VT_INPUT_BUFFER_LENGTH - 1

RingOK(d) ==
    /\ d.input_rb_head_idx \in Slots /\ d.input_rb_tail_idx \in Slots
    /\ DOMAIN d.input_rb = Slots

ShellFields == {"pc", "keyboard_command_buffer", "keyboard_command_length", "cursor_end_offset",
                "prev_keyboard_command_buffer", "prev_keyboard_command_length", "arrow_code"}

Editing(s) ==
    /\ ShellFields \subseteq DOMAIN s
    /\ s.keyboard_command_length \in Nat /\ s.prev_keyboard_command_length \in Nat
    /\ s.cursor_end_offset \in Nat
    /\ Sequence(s.arrow_code) /\ Len(s.arrow_code) < 2

ShellsInv == DOMAIN shell = Vts /\ \A v \in Vts : Editing(shell[v])

DevicesInv ==
    /\ active_vt_device \in Vts /\ keys \in Nat
    /\ DOMAIN vt = Vts /\ \A v \in Vts : Device(vt[v]) /\ RingOK(vt[v])

\* e is d after n characters were taken out of its ring.
Taking(d, e, n) == n \in 0 .. Waiting(d) /\ e = [d EXCEPT !.input_rb_head_idx = Ring(@ + n)]

TakenOut(d, e) == e = d \/ \E n : Taking(d, e, n)

\* Terminal v gives some characters to its shell, which may write to it.
ShellStep(v) ==
    /\ UNCHANGED <<active_vt_device, keys>>
    /\ \E from : /\ TakenOut(vt[v], from)
                 /\ \/ \E bytes : Sequence(bytes) /\ vt_write(v, from, bytes)
                    \/ vt' = [vt EXCEPT ![v] = from] /\ UNCHANGED framebuffer

\* A position in the ring.
LEMMA RingValue == ASSUME NEW n \in Int PROVE Ring(n) \in Slots
    BY TerminalAssumption DEF Ring, Slots

\* How many characters wait.
LEMMA WaitingValue == ASSUME NEW d, RingOK(d) PROVE Waiting(d) \in Slots
<1>1. (VT_INPUT_BUFFER_LENGTH + d.input_rb_tail_idx - d.input_rb_head_idx) \in Int
    BY TerminalAssumption DEF RingOK, Slots
<1> QED
    BY <1>1, RingValue DEF Waiting

\* vt_read takes what waits, and no more than was asked for.
LEMMA ReadTakes ==
    ASSUME NEW d, RingOK(d), NEW length \in Nat
    PROVE  /\ TakenOut(d, vt_read(d, length).left)
           /\ Sequence(vt_read(d, length).chars)
<1> DEFINE n == IF Waiting(d) < length THEN Waiting(d) ELSE length
<1>1. n \in Nat /\ n \in 0 .. Waiting(d)
    BY WaitingValue, TerminalAssumption DEF Slots
<1>2. /\ vt_read(d, length).chars = SubSeq(Input(d), 1, n)
      /\ vt_read(d, length).left = [d EXCEPT !.input_rb_head_idx = Ring(@ + n)]
    BY DEF vt_read
<1> HIDE DEF n
<1> QED
    BY <1>1, <1>2, SequencePart DEF TakenOut, Taking

\* One shell changes.
LEMMA ShellChanges ==
    ASSUME ShellsInv, NEW v \in Vts, NEW s, Editing(s), shell' = [shell EXCEPT ![v] = s]
    PROVE  ShellsInv'
    BY DEF ShellsInv

\* A shell redraws its line, or swallows what it read.
LEMMA RedrawStep ==
    ASSUME ShellsInv, NEW v \in Vts, NEW d, NEW s, Editing(s), TakenOut(vt[v], d),
           UNCHANGED <<active_vt_device, keys>>,
           Redraw(v, d, s) \/ Swallow(v, d, s)
    PROVE  ShellStep(v) /\ ShellsInv'
<1> DEFINE t == [s EXCEPT !.pc = "read"]
<1>1. Editing(t)
    BY DEF Editing, ShellFields
<1>2. shell' = [shell EXCEPT ![v] = t]
    BY DEF Redraw, Swallow
<1> HIDE DEF t
<1>3. ShellsInv'
    BY <1>1, <1>2, ShellChanges
<1> DEFINE bytes == rewrite_command_line(s.keyboard_command_buffer, s.keyboard_command_length,
                                         s.cursor_end_offset)
<1>4. Sequence(bytes)
    BY LineSequence DEF Editing
<1>5. vt_write(v, d, bytes) \/ (vt' = [vt EXCEPT ![v] = d] /\ UNCHANGED framebuffer)
    BY DEF Redraw, Swallow
<1> HIDE DEF bytes
<1>6. \/ \E b : Sequence(b) /\ vt_write(v, d, b)
      \/ vt' = [vt EXCEPT ![v] = d] /\ UNCHANGED framebuffer
    BY <1>4, <1>5
<1>7. \E from : /\ TakenOut(vt[v], from)
                /\ \/ \E b : Sequence(b) /\ vt_write(v, from, b)
                   \/ vt' = [vt EXCEPT ![v] = from] /\ UNCHANGED framebuffer
    BY <1>6
<1> QED
    BY <1>3, <1>7 DEF ShellStep

\* The shell writes something else.
LEMMA WriteStep ==
    ASSUME ShellsInv, NEW v \in Vts, NEW d, NEW s, Editing(s), TakenOut(vt[v], d),
           UNCHANGED <<active_vt_device, keys>>, NEW bytes, Sequence(bytes), vt_write(v, d, bytes),
           shell' = [shell EXCEPT ![v] = s]
    PROVE  ShellStep(v) /\ ShellsInv'
<1>1. ShellsInv'
    BY ShellChanges
<1>2. \E from : /\ TakenOut(vt[v], from)
                /\ \E b : Sequence(b) /\ vt_write(v, from, b)
    OBVIOUS
<1> QED
    BY <1>1, <1>2 DEF ShellStep

\* The erase key.
LEMMA EraseStep ==
    ASSUME ShellsInv, NEW v \in Vts, NEW d, NEW s, Editing(s), TakenOut(vt[v], d),
           UNCHANGED <<active_vt_device, keys>>, EraseKey(v, d, s)
    PROVE  ShellStep(v) /\ ShellsInv'
<1> DEFINE n == s.keyboard_command_length - 1
           b == CloseGap(s.keyboard_command_buffer, n - s.cursor_end_offset, n)
           t == [s EXCEPT !.keyboard_command_length = n, !.keyboard_command_buffer = b]
<1>1. s.keyboard_command_length > s.cursor_end_offset => n \in Nat
    BY DEF Editing
<1>2. Redraw(v, d, s) \/ (n \in Nat /\ Redraw(v, d, t))
    BY <1>1 DEF EraseKey
<1> HIDE DEF n, b
<1>3. n \in Nat => Editing(t)
    BY DEF Editing, ShellFields
<1> HIDE DEF t
<1> QED
    BY <1>2, <1>3, RedrawStep

\* The arrow keys.
LEMMA ArrowStep ==
    ASSUME ShellsInv, NEW v \in Vts, NEW d, NEW s, Editing(s), TakenOut(vt[v], d),
           UNCHANGED <<active_vt_device, keys>>,
           ArrowUp(v, d, s) \/ ArrowRight(v, d, s) \/ ArrowLeft(v, d, s) \/ Swallow(v, d, s)
    PROVE  ShellStep(v) /\ ShellsInv'
<1>1. CASE ArrowUp(v, d, s)
  <2> DEFINE t == [s EXCEPT !.cursor_end_offset = 0,
                            !.keyboard_command_length = s.prev_keyboard_command_length,
                            !.keyboard_command_buffer = s.prev_keyboard_command_buffer,
                            !.prev_keyboard_command_length = s.keyboard_command_length,
                            !.prev_keyboard_command_buffer = s.keyboard_command_buffer]
  <2>1. Redraw(v, d, t)
    BY <1>1 DEF ArrowUp
  <2>2. Editing(t)
    BY DEF Editing, ShellFields
  <2> HIDE DEF t
  <2> QED
    BY <2>1, <2>2, RedrawStep
<1>2. ASSUME NEW o \in Nat, Redraw(v, d, [s EXCEPT !.cursor_end_offset = o])
      PROVE  ShellStep(v) /\ ShellsInv'
  <2> DEFINE t == [s EXCEPT !.cursor_end_offset = o]
  <2>1. Editing(t)
    BY DEF Editing, ShellFields
  <2>2. Redraw(v, d, t)
    BY <1>2
  <2> HIDE DEF t
  <2> QED
    BY <2>1, <2>2, RedrawStep
<1>3. CASE ArrowRight(v, d, s) /\ s.cursor_end_offset > 0
  <2>1. s.cursor_end_offset - 1 \in Nat
    BY <1>3 DEF Editing
  <2>2. Redraw(v, d, [s EXCEPT !.cursor_end_offset = s.cursor_end_offset - 1])
    BY <1>3 DEF ArrowRight
  <2> QED
    BY <1>2, <2>1, <2>2
<1>4. CASE ArrowLeft(v, d, s) /\ s.cursor_end_offset < s.keyboard_command_length
  <2>1. s.cursor_end_offset + 1 \in Nat
    BY DEF Editing
  <2>2. Redraw(v, d, [s EXCEPT !.cursor_end_offset = s.cursor_end_offset + 1])
    BY <1>4 DEF ArrowLeft
  <2> QED
    BY <1>2, <2>1, <2>2
<1>5. CASE Swallow(v, d, s)
    BY <1>5, RedrawStep
<1> QED
    BY <1>1, <1>3, <1>4, <1>5 DEF ArrowRight, ArrowLeft

\* A character is typed.
LEMMA TypeStep ==
    ASSUME ShellsInv, NEW v \in Vts, NEW d, NEW s, Editing(s), TakenOut(vt[v], d),
           UNCHANGED <<active_vt_device, keys>>, NEW c, TypeKey(v, d, s, c)
    PROVE  ShellStep(v) /\ ShellsInv'
<1>1. Editing(Insert(s, c))
  <2>1. s.keyboard_command_length + 1 \in Nat
    BY DEF Editing
  <2> DEFINE b == [i \in Positions |->
                     CASE i = s.keyboard_command_length - s.cursor_end_offset -> c
                       [] i \in (s.keyboard_command_length - s.cursor_end_offset) + 1 .. s.keyboard_command_length ->
                            s.keyboard_command_buffer[i - 1]
                       [] OTHER -> s.keyboard_command_buffer[i]]
  <2>2. Insert(s, c) = [s EXCEPT !.keyboard_command_length = s.keyboard_command_length + 1,
                                 !.keyboard_command_buffer = b]
    BY DEF Insert
  <2> HIDE DEF b
  <2> QED
    BY <2>1, <2>2 DEF Editing, ShellFields
<1>2. Redraw(v, d, Insert(s, c)) \/ (vt_write(v, d, <<c>>) /\ shell' = [shell EXCEPT ![v] = Insert(s, c)])
    BY DEF TypeKey
<1>3. Sequence(<<c>>)
    BY MessagesAreSequences
<1> QED
    BY <1>1, <1>2, <1>3, RedrawStep, WriteStep

\* The shell after a command.
LEMMA PromptEdits == ASSUME NEW s, Editing(s) PROVE Editing(Prompt(s))
    BY DEF Prompt, Editing, ShellFields

\* Enter.
LEMMA EnterStep ==
    ASSUME ShellsInv, NEW v \in Vts, NEW d, NEW s, Editing(s), TakenOut(vt[v], d),
           UNCHANGED <<active_vt_device, keys>>, EnterKey(v, d, s)
    PROVE  ShellStep(v) /\ ShellsInv'
<1> DEFINE line == LineOf(s.keyboard_command_buffer, s.keyboard_command_length)
           t == [s EXCEPT !.prev_keyboard_command_buffer = s.keyboard_command_buffer,
                          !.prev_keyboard_command_length = s.keyboard_command_length]
           kind == ExecKind(line)
           text == CASE kind = "syntax error" -> ERROR_MESSAGE \o command_prompt
                     [] kind = "no-op" -> command_prompt
                     [] kind = "word too long" -> ERROR_MESSAGE
                     [] kind \in {"exit", "fork"} -> <<>>
           u == CASE kind \in {"exit", "word too long"} -> [t EXCEPT !.pc = "exited"]
                  [] kind = "fork" -> [t EXCEPT !.pc = "waitpid"]
                  [] OTHER -> Prompt(t)
<1>1. vt_write(v, d, <<NL>> \o text) /\ shell' = [shell EXCEPT ![v] = u]
    BY DEF EnterKey
<1>2. Editing(t)
    BY DEF Editing, ShellFields
<1>3. Editing(u)
  <2> HIDE DEF t, kind
  <2>1. Editing([t EXCEPT !.pc = "exited"]) /\ Editing([t EXCEPT !.pc = "waitpid"])
    BY <1>2 DEF Editing, ShellFields
  <2> QED
    BY <1>2, <2>1, PromptEdits
<1>4. Sequence(<<NL>> \o text)
  <2>1. kind \in {"syntax error", "no-op", "word too long", "exit", "fork"}
    BY Kinds
  <2> HIDE DEF kind
  <2>2. Sequence(text)
    BY <2>1, MessagesAreSequences, SequenceConcat
  <2> HIDE DEF text
  <2> QED
    BY <2>2, MessagesAreSequences, SequenceConcat
<1> HIDE DEF text, u
<1> QED
    BY <1>1, <1>3, <1>4, WriteStep

\* What others write is neither empty nor anything but a sequence.
LEMMA ForeignText ==
    ASSUME NEW v \in Vts, ForeignWrite(v)
    PROVE  /\ \E text \in Outputs \cup KernelMessages : text # <<>> /\ vt_write(v, vt[v], text)
           /\ UNCHANGED <<active_vt_device, keys, shell>>
           /\ drawn' = [drawn EXCEPT ![v] = FALSE]
<1>1. ForeignTexts(v) \subseteq (Outputs \cup KernelMessages) \ {<<>>}
    BY DEF ForeignTexts
<1>2. \E text \in ForeignTexts(v) : vt_write(v, vt[v], text)
    BY DEF ForeignWrite
<1>3. PICK text \in ForeignTexts(v) : vt_write(v, vt[v], text)
    BY <1>2
<1>4. text \in Outputs \cup KernelMessages /\ text # <<>>
    BY <1>1, <1>3
<1>5. UNCHANGED <<active_vt_device, keys, shell>> /\ drawn' = [drawn EXCEPT ![v] = FALSE]
    BY DEF ForeignWrite
<1> QED
    BY <1>3, <1>4, <1>5

\* Whatever a shell does, it takes characters from the front of its ring and
\* writes to its terminal; others only write to it.
LEMMA ShellsStep ==
    ASSUME ShellsInv, DevicesInv, NEW v \in Vts,
           StartShell(v) \/ ReadKey(v) \/ ReadEscape(v) \/ ChildDone(v) \/ ForeignWrite(v)
    PROVE  ShellStep(v) /\ ShellsInv'
<1> DEFINE s == shell[v]
<1>1. Editing(s) /\ DOMAIN shell = Vts /\ RingOK(vt[v]) /\ TakenOut(vt[v], vt[v])
    BY DEF ShellsInv, DevicesInv, TakenOut
<1>2. UNCHANGED <<active_vt_device, keys>>
    BY DEF StartShell, ReadKey, ReadEscape, ChildDone, ForeignWrite
<1>8. CASE ForeignWrite(v)
  <2>1. PICK text \in Outputs \cup KernelMessages : vt_write(v, vt[v], text)
    BY <1>8, ForeignText
  <2>2. Sequence(text)
    BY MessagesAreSequences
  <2>3. shell' = shell
    BY <1>8, ForeignText
  <2>4. ShellsInv'
    BY <2>3 DEF ShellsInv
  <2> QED
    BY <1>1, <1>2, <2>1, <2>2, <2>4 DEF ShellStep
<1>3. CASE StartShell(v)
  <2> DEFINE t == [s EXCEPT !.pc = "read"]
  <2>1. Editing(t)
    BY <1>1 DEF Editing, ShellFields
  <2>2. vt_write(v, vt[v], command_prompt) /\ shell' = [shell EXCEPT ![v] = t]
    BY <1>3 DEF StartShell
  <2> HIDE DEF t
  <2> QED
    BY <1>1, <1>2, <2>1, <2>2, MessagesAreSequences, WriteStep
<1>4. CASE ChildDone(v)
  <2> DEFINE line == LineOf(s.keyboard_command_buffer, s.keyboard_command_length)
             t == Prompt(s)
  <2>1. Editing(t)
    BY <1>1, PromptEdits
  <2>2. PICK o \in ChildOutcomes(line) : vt_write(v, vt[v], o.text \o command_prompt)
    BY <1>4 DEF ChildDone
  <2>3. shell' = [shell EXCEPT ![v] = t]
    BY <1>4 DEF ChildDone
  <2>4. o.text = ERROR_MESSAGE \/ o.text = <<>> \/ o.text \in Outputs
    BY <2>2 DEF ChildOutcomes
  <2>5. Sequence(o.text \o command_prompt)
    BY <2>4, MessagesAreSequences, SequenceConcat
  <2> HIDE DEF t
  <2> QED
    BY <1>1, <1>2, <2>1, <2>2, <2>3, <2>5, WriteStep
<1>5. ASSUME NEW d, TakenOut(vt[v], d), NEW t, Editing(t), vt' = [vt EXCEPT ![v] = d],
             shell' = [shell EXCEPT ![v] = t], UNCHANGED framebuffer
      PROVE  ShellStep(v) /\ ShellsInv'
  <2>1. ShellsInv'
    BY <1>5, ShellChanges
  <2> QED
    BY <1>2, <1>5, <2>1 DEF ShellStep
<1>6. CASE ReadKey(v)
  <2> DEFINE r == vt_read(vt[v], 1)
             c == r.chars[1]
             d == r.left
             t == [s EXCEPT !.pc = "escape", !.arrow_code = <<>>]
  <2>1. TakenOut(vt[v], d)
    BY <1>1, ReadTakes
  <2>2. \/ vt' = [vt EXCEPT ![v] = d] /\ shell' = [shell EXCEPT ![v].pc = "escape", ![v].arrow_code = <<>>]
             /\ UNCHANGED framebuffer
        \/ EraseKey(v, d, s) \/ EnterKey(v, d, s) \/ TypeKey(v, d, s, c)
    BY <1>6 DEF ReadKey
  <2>3. Editing(t)
    <3>1. Sequence(<<>>) /\ Len(<<>>) = 0
      BY MessagesAreSequences
    <3> QED
      BY <1>1, <3>1 DEF Editing, ShellFields
  <2>4. [shell EXCEPT ![v].pc = "escape", ![v].arrow_code = <<>>] = [shell EXCEPT ![v] = t]
    BY <1>1
  <2> HIDE DEF d, c, t, s
  <2> QED
    BY <1>1, <1>2, <1>5, <2>1, <2>2, <2>3, <2>4, EraseStep, EnterStep, TypeStep
<1>7. CASE ReadEscape(v)
  <2> DEFINE r == vt_read(vt[v], 2 - Len(s.arrow_code))
             d == r.left
             code == s.arrow_code \o r.chars
             t == [s EXCEPT !.arrow_code = code]
  <2>1. Sequence(s.arrow_code) /\ Len(s.arrow_code) \in Nat /\ 2 - Len(s.arrow_code) \in Nat
    BY <1>1, SequenceDomain DEF Editing
  <2>2. TakenOut(vt[v], d) /\ Sequence(r.chars)
    BY <1>1, <2>1, ReadTakes
  <2>3. Sequence(code)
    BY <2>1, <2>2, SequenceConcat
  <2>4. \/ Len(code) < 2 /\ vt' = [vt EXCEPT ![v] = d] /\ shell' = [shell EXCEPT ![v].arrow_code = code]
             /\ UNCHANGED framebuffer
        \/ ArrowUp(v, d, s) \/ ArrowRight(v, d, s) \/ ArrowLeft(v, d, s) \/ Swallow(v, d, s)
    BY <1>7 DEF ReadEscape
  <2>5. shell' = [shell EXCEPT ![v].arrow_code = code] => shell' = [shell EXCEPT ![v] = t]
    OBVIOUS
  <2> HIDE DEF code, r
  <2>6. Len(code) < 2 => Editing(t)
    BY <1>1, <2>3 DEF Editing, ShellFields
  <2> HIDE DEF d, t, s
  <2> QED
    BY <1>1, <1>2, <1>5, <2>2, <2>4, <2>5, <2>6, ArrowStep
<1> QED
    BY <1>3, <1>4, <1>6, <1>7, <1>8

-----------------------------------------------------------------------------
(* The input ring.                                                         *)

\* The remainder, one turn of the ring at most away.
LEMMA RingNear ==
    ASSUME NEW n \in Int, 0 <= n, n < 2 * VT_INPUT_BUFFER_LENGTH
    PROVE  Ring(n) = IF n < VT_INPUT_BUFFER_LENGTH THEN n ELSE n - VT_INPUT_BUFFER_LENGTH
<1>1. VT_INPUT_BUFFER_LENGTH \in Nat /\ VT_INPUT_BUFFER_LENGTH > 1
    BY TerminalAssumption
<1>2. CASE n < VT_INPUT_BUFFER_LENGTH
    BY <1>1, <1>2 DEF Ring
<1>3. CASE n >= VT_INPUT_BUFFER_LENGTH
  <2> DEFINE c == VT_INPUT_BUFFER_LENGTH
             r == n - c
  <2>1. c \in Nat \ {0} /\ r \in 0 .. c - 1 /\ n = 1 * c + r
    BY <1>1, <1>3
  <2> HIDE DEF c, r
  <2>2. n % c = r
    BY <2>1, DivUnique
  <2> QED
    BY <1>1, <1>3, <2>2 DEF Ring, c, r
<1> QED
    BY <1>1, <1>2, <1>3

\* How many characters are between the indices, without a division.
LEMMA WaitingNear ==
    ASSUME NEW d, RingOK(d)
    PROVE  LET h == d.input_rb_head_idx
               t == d.input_rb_tail_idx
           IN Waiting(d) = IF h <= t THEN t - h ELSE (t - h) + VT_INPUT_BUFFER_LENGTH
<1> DEFINE h == d.input_rb_head_idx
           t == d.input_rb_tail_idx
           n == VT_INPUT_BUFFER_LENGTH + (t - h)
<1>1. VT_INPUT_BUFFER_LENGTH \in Nat /\ h \in 0 .. VT_INPUT_BUFFER_LENGTH - 1
      /\ t \in 0 .. VT_INPUT_BUFFER_LENGTH - 1
    BY TerminalAssumption DEF RingOK, Slots
<1>2. Waiting(d) = Ring(n)
    BY DEF Waiting
<1> HIDE DEF h, t
<1>3. n \in Int /\ 0 <= n /\ n < 2 * VT_INPUT_BUFFER_LENGTH
    BY <1>1
<1> HIDE DEF n
<1>4. Waiting(d) = IF n < VT_INPUT_BUFFER_LENGTH THEN n ELSE n - VT_INPUT_BUFFER_LENGTH
    BY <1>2, <1>3, RingNear
<1>5. Waiting(d) = IF h <= t THEN t - h ELSE (t - h) + VT_INPUT_BUFFER_LENGTH
    BY <1>1, <1>4 DEF n
<1> QED
    BY <1>5 DEF h, t

\* The waiting characters are a sequence.
LEMMA InputSequence ==
    ASSUME NEW d, RingOK(d)
    PROVE  /\ Sequence(Input(d)) /\ Len(Input(d)) = Waiting(d) /\ Waiting(d) \in Nat
           /\ \A i \in 1 .. Waiting(d) : Input(d)[i] = d.input_rb[Ring(d.input_rb_head_idx + (i - 1))]
<1>1. Waiting(d) \in Nat
    BY WaitingValue, TerminalAssumption DEF Slots
<1> DEFINE f == Input(d)
<1>2. f = [i \in 1 .. Waiting(d) |-> f[i]]
      /\ \A i \in 1 .. Waiting(d) : f[i] = d.input_rb[Ring(d.input_rb_head_idx + (i - 1))]
    BY DEF Input
<1> HIDE DEF f
<1>3. Sequence(f) /\ Len(f) = Waiting(d)
    BY <1>1, <1>2, SequenceOf
<1> QED
    BY <1>1, <1>2, <1>3 DEF f

\* e is d with characters added behind those that wait.
Adds(d, e) ==
    /\ Device(e) /\ RingOK(e) /\ SameScreen(d, e)
    /\ Waiting(d) <= Waiting(e)
    /\ \A i \in 1 .. Waiting(d) : Input(e)[i] = Input(d)[i]

\* Adding nothing is adding.
LEMMA AddsNothing == ASSUME NEW d, Device(d), RingOK(d) PROVE Adds(d, d)
<1>1. Waiting(d) \in Nat
    BY InputSequence
<1> QED
    BY <1>1 DEF Adds, SameScreen

\* Adding twice is adding.
LEMMA AddsTwice ==
    ASSUME NEW d, NEW e, NEW f, RingOK(d), Adds(d, e), Adds(e, f)
    PROVE  Adds(d, f)
<1>1. Waiting(d) \in Nat /\ Waiting(e) \in Nat /\ Waiting(f) \in Nat
    BY InputSequence DEF Adds
<1>2. Waiting(d) <= Waiting(e) /\ Waiting(e) <= Waiting(f)
    BY DEF Adds
<1>3. \A i \in 1 .. Waiting(d) : i \in 1 .. Waiting(e)
    BY <1>1, <1>2
<1>4. \A i \in 1 .. Waiting(d) : Input(f)[i] = Input(d)[i]
    BY <1>3 DEF Adds
<1>5. Waiting(d) <= Waiting(f)
    BY <1>1, <1>2
<1> QED
    BY <1>4, <1>5 DEF Adds, SameScreen

Full(d) == Ring(VT_INPUT_BUFFER_LENGTH + d.input_rb_head_idx - d.input_rb_tail_idx) = 1

\* e is d with c added behind what waits.
Extends(d, e, c) ==
    /\ Device(e) /\ RingOK(e) /\ SameScreen(d, e) /\ DOMAIN e = DOMAIN d
    /\ Waiting(e) = Waiting(d) + 1 /\ Input(e)[Waiting(e)] = c
    /\ \A i \in 1 .. Waiting(d) : Input(e)[i] = Input(d)[i]

\* vt_append_input_character: a full ring drops the character.
LEMMA AppendExtends ==
    ASSUME NEW d, Device(d), RingOK(d), NEW c
    PROVE  IF Full(d) THEN vt_append_input_character(d, c) = d
           ELSE Extends(d, vt_append_input_character(d, c), c)
<1> DEFINE N == VT_INPUT_BUFFER_LENGTH
           h == d.input_rb_head_idx
           t == d.input_rb_tail_idx
           e == [d EXCEPT !.input_rb[d.input_rb_tail_idx] = c, !.input_rb_tail_idx = Ring(@ + 1)]
<1>1. N \in Nat /\ N > 1 /\ h \in 0 .. N - 1 /\ t \in 0 .. N - 1 /\ DOMAIN d.input_rb = 0 .. N - 1
    BY TerminalAssumption DEF RingOK, Slots
<1>2. vt_append_input_character(d, c) = IF Full(d) THEN d ELSE e
    BY DEF vt_append_input_character, Full
<1>3. Full(d) <=> Ring(N + (h - t)) = 1
    BY <1>1 DEF Full
<1>4. ASSUME Ring(N + (h - t)) # 1 PROVE Extends(d, e, c)
  <2>1. /\ DOMAIN e = DOMAIN d /\ e.escape_state = d.escape_state /\ SameScreen(d, e)
        /\ e.input_rb_head_idx = h
        /\ e.input_rb_tail_idx = Ring(t + 1)
        /\ e.input_rb = [d.input_rb EXCEPT ![t] = c]
    BY DEF Device, DeviceFields, SameScreen
  <2> HIDE DEF e, h, t, N
  <2>2. Ring(t + 1) = IF t + 1 < N THEN t + 1 ELSE 0
    BY <1>1, RingNear DEF N
  <2>3. (IF h >= t THEN h - t ELSE (h - t) + N) # 1
    <3> DEFINE n == N + (h - t)
    <3>1. n \in Int /\ 0 <= n /\ n < 2 * N
      BY <1>1
    <3> HIDE DEF n
    <3>2. Ring(n) = IF n < N THEN n ELSE n - N
      BY <3>1, RingNear DEF N
    <3> QED
      BY <1>1, <1>4, <3>2 DEF n
  <2>4. RingOK(e)
    BY <1>1, <2>1, <2>2 DEF RingOK, Slots, N
  <2>5. Waiting(d) = IF h <= t THEN t - h ELSE (t - h) + N
    BY WaitingNear DEF h, t, N
  <2>6. Waiting(e) = IF h <= Ring(t + 1) THEN Ring(t + 1) - h ELSE (Ring(t + 1) - h) + N
    BY <2>1, <2>4, WaitingNear DEF N
  <2>7. Waiting(e) = Waiting(d) + 1 /\ Waiting(d) \in Nat
    BY <1>1, <2>2, <2>3, <2>5, <2>6
  <2>8. ASSUME NEW i \in 1 .. Waiting(d) PROVE Input(e)[i] = Input(d)[i]
    <3> DEFINE m == h + (i - 1)
    <3>1. i \in Int /\ 1 <= i /\ i <= Waiting(d)
      BY <2>7
    <3>2. m \in Int /\ 0 <= m /\ m < 2 * N
      BY <1>1, <2>5, <3>1
    <3>3. Ring(m) = IF m < N THEN m ELSE m - N
      BY <3>2, RingNear DEF N
    <3>4. Ring(m) # t /\ Ring(m) \in 0 .. N - 1
      BY <1>1, <2>5, <3>1, <3>3
    <3>5. i \in 1 .. Waiting(e)
      BY <2>7, <3>1
    <3>6. Input(d)[i] = d.input_rb[Ring(m)]
      BY InputSequence DEF h
    <3>7. Input(e)[i] = e.input_rb[Ring(m)]
      BY <2>1, <2>4, <3>5, InputSequence
    <3> HIDE DEF m
    <3> QED
      BY <1>1, <2>1, <3>4, <3>6, <3>7
  <2>9. Input(e)[Waiting(e)] = c
    <3> DEFINE m == h + (Waiting(e) - 1)
    <3>1. m \in Int /\ 0 <= m /\ m < 2 * N /\ Waiting(e) \in 1 .. Waiting(e)
      BY <1>1, <2>5, <2>7
    <3>2. Ring(m) = IF m < N THEN m ELSE m - N
      BY <3>1, RingNear DEF N
    <3>3. Ring(m) = t
      BY <1>1, <2>5, <2>7, <3>2
    <3>4. Input(e)[Waiting(e)] = e.input_rb[Ring(m)]
      BY <2>1, <2>4, <3>1, InputSequence
    <3> HIDE DEF m
    <3> QED
      BY <1>1, <2>1, <3>3, <3>4
  <2>10. Device(e)
    BY <2>1 DEF Device
  <2> QED
    BY <2>1, <2>4, <2>7, <2>8, <2>9, <2>10 DEF Extends
<1> HIDE DEF e
<1> QED
    BY <1>2, <1>3, <1>4

\* So vt_append_input_character adds.
LEMMA AppendAdds ==
    ASSUME NEW d, Device(d), RingOK(d), NEW c
    PROVE  Adds(d, vt_append_input_character(d, c))
<1> DEFINE e == vt_append_input_character(d, c)
<1>1. IF Full(d) THEN e = d ELSE Extends(d, e, c)
    BY AppendExtends
<1> HIDE DEF e
<1>2. Waiting(d) \in Nat
    BY InputSequence
<1>3. Extends(d, e, c) => Adds(d, e)
    BY <1>2 DEF Extends, Adds
<1> QED
    BY <1>1, <1>3, AddsNothing DEF e

\* All characters of an event.
LEMMA UpdateAdds ==
    ASSUME NEW d, Device(d), RingOK(d), NEW bytes, NEW n \in Nat, DOMAIN bytes = 1 .. n
    PROVE  Adds(d, FoldLeft(vt_append_input_character, d, bytes))
<1>1. PICK h : Turns("input", h, n, d, bytes) /\ FoldLeft(vt_append_input_character, d, bytes) = h[n]
    BY InputTurns
<1> DEFINE Bad == {k \in 0 .. n : ~ Adds(d, h[k])}
<1>2. Bad = {}
  <2> SUFFICES ASSUME Bad # {} PROVE FALSE
    OBVIOUS
  <2>1. Bad \in SUBSET Nat
    OBVIOUS
  <2>2. PICK m \in Bad : \A k \in Bad : m <= k
    BY <2>1, LeastNatural
  <2>3. m # 0
    BY <1>1, <2>2, AddsNothing DEF Turns
  <2>4. m \in 1 .. n /\ m - 1 \in 0 .. n /\ Adds(d, h[m - 1])
    BY <2>2, <2>3
  <2>5. Device(h[m - 1]) /\ RingOK(h[m - 1]) /\ h[m] = vt_append_input_character(h[m - 1], bytes[m])
    BY <1>1, <2>4 DEF Turns, Turn, Adds
  <2>6. Adds(h[m - 1], h[m])
    BY <2>5, AppendAdds
  <2> QED
    BY <2>2, <2>4, <2>6, AddsTwice
<1>3. n \in 0 .. n
    OBVIOUS
<1> QED
    BY <1>1, <1>2, <1>3

\* The characters of an event are a sequence.
LEMMA InputOfSequence == ASSUME NEW event PROVE Sequence(InputOf(event))
<1>1. \A a, b, c : <<a, b, c>> \in Seq({a, b, c})
    OBVIOUS
<1>2. \A a, b, c : Sequence(<<a, b, c>>)
    BY <1>1 DEF Sequence
<1> QED
    BY <1>2, MessagesAreSequences DEF InputOf

\* vt_read moves the front of the queue.
LEMMA TakingRing ==
    ASSUME NEW d, Device(d), RingOK(d), NEW n, NEW e, Taking(d, e, n)
    PROVE  /\ Device(e) /\ RingOK(e) /\ SameScreen(d, e)
           /\ Waiting(e) = Waiting(d) - n
           /\ \A i \in 1 .. Waiting(e) : Input(e)[i] = Input(d)[i + n]
<1> DEFINE N == VT_INPUT_BUFFER_LENGTH
           h == d.input_rb_head_idx
           t == d.input_rb_tail_idx
           g == Ring(h + n)
<1>1. N \in Nat /\ N > 1 /\ h \in 0 .. N - 1 /\ t \in 0 .. N - 1
    BY TerminalAssumption DEF RingOK, Slots
<1>2. /\ DOMAIN e = DOMAIN d /\ e.escape_state = d.escape_state /\ SameScreen(d, e)
      /\ e.input_rb_head_idx = g /\ e.input_rb_tail_idx = t /\ e.input_rb = d.input_rb
    BY DEF Device, DeviceFields, SameScreen, Taking
<1>3. Waiting(d) \in Nat /\ n \in 0 .. Waiting(d) /\ Waiting(d) = IF h <= t THEN t - h ELSE (t - h) + N
    BY WaitingNear, InputSequence DEF Taking
<1> HIDE DEF h, t, N
<1>4. h + n \in Int /\ 0 <= h + n /\ h + n < 2 * N
    BY <1>1, <1>3
<1>5. g = IF h + n < N THEN h + n ELSE (h + n) - N
    BY <1>4, RingNear DEF N
<1> HIDE DEF g
<1>6. g \in 0 .. N - 1
    BY <1>1, <1>4, <1>5
<1>7. RingOK(e)
    BY <1>1, <1>2, <1>6 DEF RingOK, Slots, N
<1>8. Waiting(e) = IF g <= t THEN t - g ELSE (t - g) + N
    BY <1>2, <1>7, WaitingNear DEF N
<1>9. Waiting(e) = Waiting(d) - n
    BY <1>1, <1>3, <1>5, <1>8
<1>10. ASSUME NEW i \in 1 .. Waiting(e) PROVE Input(e)[i] = Input(d)[i + n]
  <2>1. i \in Int /\ 1 <= i /\ i <= Waiting(d) - n
    BY <1>3, <1>9
  <2>2. i + n \in 1 .. Waiting(d) /\ n \in Int /\ 0 <= n
    BY <1>3, <2>1
  <2>3. Input(e)[i] = d.input_rb[Ring(g + (i - 1))]
    BY <1>2, <1>7, InputSequence
  <2>4. Input(d)[i + n] = d.input_rb[Ring(h + ((i + n) - 1))]
    BY <2>2, InputSequence DEF h
  <2> DEFINE x == g + (i - 1)
             y == h + ((i + n) - 1)
  <2>5. x \in Int /\ y \in Int /\ 0 <= x /\ x < 2 * N /\ 0 <= y /\ y < 2 * N /\ (y = x \/ y = x + N)
    BY <1>1, <1>3, <1>5, <1>6, <2>1, <2>2
  <2> HIDE DEF x, y
  <2>6. Ring(x) = (IF x < N THEN x ELSE x - N) /\ Ring(y) = (IF y < N THEN y ELSE y - N)
    BY <2>5, RingNear DEF N
  <2>7. Ring(x) = Ring(y)
    BY <1>1, <2>5, <2>6
  <2> QED
    BY <2>3, <2>4, <2>7 DEF x, y
<1>11. Device(e)
    BY <1>2 DEF Device
<1> QED
    BY <1>2, <1>7, <1>9, <1>10, <1>11

\* Sequences are equal when their elements are.
LEMMA SequenceEqual ==
    ASSUME NEW s, NEW t, Sequence(s), Sequence(t), Len(s) = Len(t), \A i \in 1 .. Len(s) : s[i] = t[i]
    PROVE  s = t
<1>1. PICK S : s \in Seq(S)
    BY DEF Sequence
<1>2. PICK T : t \in Seq(T)
    BY DEF Sequence
<1>3. s = [i \in 1 .. Len(s) |-> s[i]] /\ t = [i \in 1 .. Len(t) |-> t[i]]
    BY <1>1, <1>2, LenProperties
<1> QED
    BY <1>3

\* Beginning with the same elements.
LEMMA PrefixOf ==
    ASSUME NEW s, NEW t, Sequence(s), Sequence(t), Len(s) <= Len(t), \A i \in 1 .. Len(s) : s[i] = t[i]
    PROVE  IsPrefix(s, t)
<1> DEFINE m == Len(s)
           a == SubSeq(s, 1, m)
           b == SubSeq(t, 1, m)
<1>1. m \in Nat
    BY SequenceDomain
<1>2. /\ Sequence(a) /\ Len(a) = m /\ \A i \in 1 .. m : a[i] = s[i]
      /\ Sequence(b) /\ Len(b) = m /\ \A i \in 1 .. m : b[i] = t[i]
    BY <1>1, SequencePart
<1> HIDE DEF a, b
<1>3. a = b
    BY <1>2, SequenceEqual
<1> QED
    BY <1>3 DEF IsPrefix, a, b

\* Ending with the same elements.
LEMMA SuffixOf ==
    ASSUME NEW s, NEW t, Sequence(s), Sequence(t), NEW n \in Nat, Len(t) = Len(s) + n,
           \A i \in 1 .. Len(s) : s[i] = t[i + n]
    PROVE  IsSuffix(s, t)
<1> DEFINE a == Reverse(s)
           b == Reverse(t)
           k == Len(s)
           l == Len(t)
<1>1. k \in Nat /\ l \in Nat
    BY SequenceDomain
<1>2. /\ a = [i \in 1 .. k |-> a[i]] /\ \A i \in 1 .. k : a[i] = s[(k - i) + 1]
      /\ b = [i \in 1 .. l |-> b[i]] /\ \A i \in 1 .. l : b[i] = t[(l - i) + 1]
    BY DEF Reverse
<1> HIDE DEF a, b
<1>3. Sequence(a) /\ Len(a) = k /\ Sequence(b) /\ Len(b) = l
    BY <1>1, <1>2, SequenceOf
<1>4. ASSUME NEW i \in 1 .. k PROVE a[i] = b[i]
  <2>1. (k - i) + 1 \in 1 .. k /\ i \in 1 .. l /\ ((k - i) + 1) + n = (l - i) + 1
    BY <1>1
  <2>2. s[(k - i) + 1] = t[((k - i) + 1) + n]
    BY <2>1
  <2> QED
    BY <1>2, <2>1, <2>2
<1>5. IsPrefix(a, b)
    BY <1>1, <1>3, <1>4, PrefixOf
<1> QED
    BY <1>5 DEF IsSuffix, a, b

\* What waits is behind itself, and behind what was taken.
LEMMA TakenOutKeeps ==
    ASSUME NEW d, Device(d), RingOK(d), NEW e, TakenOut(d, e)
    PROVE  /\ Device(e) /\ RingOK(e) /\ SameScreen(d, e)
           /\ IsSuffix(Input(e), Input(d))
<1>1. CASE e = d
  <2>1. \A i \in 1 .. Len(Input(d)) : Input(d)[i] = Input(d)[i + 0]
    BY InputSequence
  <2>2. Len(Input(d)) = Len(Input(d)) + 0 /\ 0 \in Nat
    BY InputSequence
  <2>3. IsSuffix(Input(d), Input(d))
    BY <2>1, <2>2, SuffixOf, InputSequence
  <2> QED
    BY <1>1, <2>3 DEF SameScreen
<1>2. ASSUME NEW n, Taking(d, e, n)
      PROVE  /\ Device(e) /\ RingOK(e) /\ SameScreen(d, e)
             /\ IsSuffix(Input(e), Input(d))
  <2>1. /\ Device(e) /\ RingOK(e) /\ SameScreen(d, e)
        /\ Waiting(e) = Waiting(d) - n
        /\ \A i \in 1 .. Waiting(e) : Input(e)[i] = Input(d)[i + n]
    BY <1>2, TakingRing
  <2>2. /\ Sequence(Input(d)) /\ Len(Input(d)) = Waiting(d) /\ Waiting(d) \in Nat
        /\ Sequence(Input(e)) /\ Len(Input(e)) = Waiting(e) /\ Waiting(e) \in Nat
    BY <2>1, InputSequence
  <2>3. n \in Nat /\ Len(Input(d)) = Len(Input(e)) + n
    BY <1>2, <2>1, <2>2 DEF Taking
  <2>4. IsSuffix(Input(e), Input(d))
    BY <2>1, <2>2, <2>3, SuffixOf
  <2> QED
    BY <2>1, <2>4
<1> QED
    BY <1>1, <1>2 DEF TakenOut

\* The ring decides what waits.
LEMMA SameRingInput ==
    ASSUME NEW d, NEW e, RingOK(d), SameRing(d, e)
    PROVE  RingOK(e) /\ Input(e) = Input(d)
<1>1. Waiting(e) = Waiting(d)
    BY DEF SameRing, Waiting
<1> QED
    BY <1>1 DEF SameRing, RingOK, Input

\* A cell that looks the same is painted the same.
LEMMA SamePaint ==
    ASSUME NEW v, NEW d, NEW e, NEW x, e.terminal_buffer[x] = d.terminal_buffer[x],
           x = CursorOf(e) <=> x = CursorOf(d)
    PROVE  vt_repaint_char(v, e, x) = vt_repaint_char(v, d, x)
<1>1. (x = <<e.cursor_row, e.cursor_column>>) = (x = <<d.cursor_row, d.cursor_column>>)
    BY DEF CursorOf
<1> QED
    BY <1>1 DEF vt_repaint_char

\* A step of a shell keeps the screen faithful, and the rings.
LEMMA ShellStepKeeps ==
    ASSUME DevicesInv, ScreenFaithful, NEW v \in Vts, ShellStep(v)
    PROVE  /\ DevicesInv' /\ ScreenFaithful'
           /\ \A w \in Vts : IsSuffix(Input(vt'[w]), Input(vt[w]))
<1> DEFINE a == active_vt_device
<1>1. /\ a \in Vts /\ active_vt_device' = a /\ keys' = keys /\ keys \in Nat
      /\ DOMAIN vt = Vts /\ \A w \in Vts : Device(vt[w]) /\ RingOK(vt[w])
    BY DEF DevicesInv, ShellStep
<1>2. PICK from : /\ TakenOut(vt[v], from)
                  /\ \/ \E bytes : Sequence(bytes) /\ vt_write(v, from, bytes)
                     \/ vt' = [vt EXCEPT ![v] = from] /\ UNCHANGED framebuffer
    BY DEF ShellStep
<1>3. Device(from) /\ RingOK(from) /\ SameScreen(vt[v], from) /\ IsSuffix(Input(from), Input(vt[v]))
    BY <1>1, <1>2, TakenOutKeeps
<1>4. \A w \in Vts : IsSuffix(Input(vt[w]), Input(vt[w]))
    BY <1>1, TakenOutKeeps DEF TakenOut
<1>5. /\ vt[a].repaint_flags = {}
      /\ \A x \in Cells : framebuffer[x] = vt_repaint_char(a, vt[a], x)
    BY DEF ScreenFaithful
<1>6. ASSUME NEW e, Device(e), SameRing(from, e), vt' = [vt EXCEPT ![v] = e]
      PROVE  /\ DevicesInv'
             /\ \A w \in Vts : IsSuffix(Input(vt'[w]), Input(vt[w]))
             /\ vt'[v] = e /\ \A w \in Vts : w # v => vt'[w] = vt[w]
  <2>1. vt'[v] = e /\ (\A w \in Vts : w # v => vt'[w] = vt[w]) /\ DOMAIN vt' = Vts
    BY <1>1, <1>6
  <2>2. RingOK(e) /\ Input(e) = Input(from)
    BY <1>3, <1>6, SameRingInput
  <2>3. \A w \in Vts : Device(vt'[w]) /\ RingOK(vt'[w])
    BY <1>1, <1>6, <2>1, <2>2
  <2>4. \A w \in Vts : IsSuffix(Input(vt'[w]), Input(vt[w]))
    BY <1>3, <1>4, <2>1, <2>2
  <2>5. DevicesInv'
    BY <1>1, <2>1, <2>3 DEF DevicesInv
  <2> QED
    BY <2>1, <2>4, <2>5
<1>7. ASSUME NEW e, e.repaint_flags = {}, vt'[v] = e, \A w \in Vts : w # v => vt'[w] = vt[w],
             v = a => \A x \in Cells : framebuffer'[x] = vt_repaint_char(v, e, x),
             v # a => framebuffer' = framebuffer
      PROVE  ScreenFaithful'
  <2>1. CASE v = a
    BY <1>1, <1>7, <2>1 DEF ScreenFaithful
  <2>2. CASE v # a
    BY <1>1, <1>5, <1>7, <2>2 DEF ScreenFaithful
  <2> QED
    BY <2>1, <2>2
<1>8. CASE vt' = [vt EXCEPT ![v] = from] /\ UNCHANGED framebuffer
  <2>1. SameRing(from, from)
    BY DEF SameRing
  <2>2. /\ DevicesInv'
        /\ \A w \in Vts : IsSuffix(Input(vt'[w]), Input(vt[w]))
        /\ vt'[v] = from /\ \A w \in Vts : w # v => vt'[w] = vt[w]
    BY <1>3, <1>6, <1>8, <2>1
  <2>3. CASE v = a
    <3>1. from.repaint_flags = {} /\ \A x \in Cells : vt_repaint_char(v, from, x) = vt_repaint_char(v, vt[v], x)
      BY <1>3, <1>5, <2>3, SamePaint DEF SameScreen, CursorOf
    <3>2. \A x \in Cells : framebuffer'[x] = vt_repaint_char(v, from, x)
      BY <1>5, <1>8, <2>3, <3>1
    <3> QED
      BY <1>1, <2>2, <2>3, <3>1, <3>2 DEF ScreenFaithful
  <2>4. CASE v # a
    BY <1>1, <1>5, <1>8, <2>2, <2>4 DEF ScreenFaithful
  <2> QED
    BY <2>2, <2>3, <2>4
<1>9. ASSUME NEW bytes, Sequence(bytes), vt_write(v, from, bytes)
      PROVE  /\ DevicesInv' /\ ScreenFaithful'
             /\ \A w \in Vts : IsSuffix(Input(vt'[w]), Input(vt[w]))
  <2> DEFINE d == FoldLeft(PutChar, from, bytes)
             e == [d EXCEPT !.repaint_flags = {}]
  <2>1. Draws(from, d)
    BY <1>3, <1>9, SequenceDomain, WriteDraws
  <2>2. IF v = a
        THEN vt' = [vt EXCEPT ![v] = e] /\ framebuffer' = vt_repaint_terminal(v, d, framebuffer)
        ELSE vt' = [vt EXCEPT ![v] = d] /\ framebuffer' = framebuffer
    BY <1>9 DEF vt_write
  <2> HIDE DEF d
  <2>3. CASE v = a
    <3>1. /\ Device(e) /\ SameRing(from, e) /\ e.repaint_flags = {}
          /\ \A x \in Cells : vt_repaint_char(v, e, x) = vt_repaint_char(v, d, x)
      <4>1. /\ DOMAIN e = DOMAIN d /\ e.escape_state = d.escape_state /\ SameRing(d, e)
            /\ e.repaint_flags = {} /\ e.terminal_buffer = d.terminal_buffer
            /\ e.cursor_row = d.cursor_row /\ e.cursor_column = d.cursor_column
        BY <2>1 DEF Draws, Device, DeviceFields, SameRing
      <4> HIDE DEF e
      <4>2. \A x \in Cells : vt_repaint_char(v, e, x) = vt_repaint_char(v, d, x)
        BY <4>1, SamePaint DEF CursorOf
      <4> QED
        BY <2>1, <4>1, <4>2 DEF Draws, Device, SameRing
    <3>2. ASSUME NEW x \in Cells PROVE framebuffer'[x] = vt_repaint_char(v, d, x)
      <4>1. framebuffer'[x] = IF x \in d.repaint_flags THEN vt_repaint_char(v, d, x) ELSE framebuffer[x]
        BY <2>2, <2>3 DEF vt_repaint_terminal
      <4>2. CASE x \notin d.repaint_flags
        <5>1. /\ d.terminal_buffer[x] = from.terminal_buffer[x]
              /\ x = CursorOf(d) <=> x = CursorOf(from)
          BY <2>1, <4>2 DEF Draws
        <5>2. /\ from.terminal_buffer = vt[v].terminal_buffer
              /\ CursorOf(from) = CursorOf(vt[v])
          BY <1>3 DEF SameScreen, CursorOf
        <5>3. vt_repaint_char(v, d, x) = vt_repaint_char(v, vt[v], x)
          BY <5>1, <5>2, SamePaint
        <5> QED
          BY <1>5, <2>3, <4>1, <4>2, <5>3
      <4> QED
        BY <4>1, <4>2
    <3> HIDE DEF e
    <3>3. /\ DevicesInv'
          /\ \A w \in Vts : IsSuffix(Input(vt'[w]), Input(vt[w]))
          /\ vt'[v] = e /\ \A w \in Vts : w # v => vt'[w] = vt[w]
      BY <1>6, <2>2, <2>3, <3>1
    <3>4. ScreenFaithful'
      BY <1>7, <2>3, <3>1, <3>2, <3>3
    <3> QED
      BY <3>3, <3>4
  <2>4. CASE v # a
    <3>1. Device(d) /\ SameRing(from, d)
      BY <2>1 DEF Draws
    <3>2. /\ DevicesInv'
          /\ \A w \in Vts : IsSuffix(Input(vt'[w]), Input(vt[w]))
          /\ vt'[v] = d /\ \A w \in Vts : w # v => vt'[w] = vt[w]
      BY <1>6, <2>2, <2>4, <3>1
    <3>3. ScreenFaithful'
      BY <1>1, <1>5, <2>2, <2>4, <3>2 DEF ScreenFaithful
    <3> QED
      BY <3>2, <3>3
  <2> QED
    BY <2>3, <2>4
<1> QED
    BY <1>2, <1>8, <1>9

\* What waits is kept in front by the keyboard interrupt, and a switch of
\* terminals paints the whole screen.
LEMMA KeyKeeps ==
    ASSUME DevicesInv, ScreenFaithful, NEW key \in Keys, keyboard_rb_fill(key)
    PROVE  /\ DevicesInv' /\ ScreenFaithful' /\ keys' # keys
           /\ \A w \in Vts : IsPrefix(Input(vt[w]), Input(vt'[w]))
<1> DEFINE a == active_vt_device
           to == SwitchesTo(depressed_mod_keys, key)
<1>1. /\ a \in Vts /\ keys' = keys + 1 /\ keys \in Nat
      /\ DOMAIN vt = Vts /\ \A w \in Vts : Device(vt[w]) /\ RingOK(vt[w])
    BY DEF DevicesInv, keyboard_rb_fill
<1>2. keys' # keys /\ keys' \in Nat
    BY <1>1
<1>3. ASSUME NEW d, NEW e, RingOK(d), Adds(d, e) PROVE IsPrefix(Input(d), Input(e))
  <2>1. /\ Sequence(Input(d)) /\ Len(Input(d)) = Waiting(d)
        /\ Sequence(Input(e)) /\ Len(Input(e)) = Waiting(e)
    BY <1>3, InputSequence DEF Adds
  <2> QED
    BY <1>3, <2>1, PrefixOf DEF Adds
<1>4. \A w \in Vts : IsPrefix(Input(vt[w]), Input(vt[w]))
    BY <1>1, <1>3, AddsNothing
<1>5. CASE UNCHANGED <<vt, active_vt_device, framebuffer>>
  <2>1. vt' = vt /\ active_vt_device' = active_vt_device /\ framebuffer' = framebuffer
    BY <1>5
  <2> QED
    BY <1>1, <1>2, <1>4, <2>1 DEF DevicesInv, ScreenFaithful
<1>6. CASE to # 0 /\ set_active_vt(to)
  <2>1. to \in Vts
    BY <1>6, TerminalAssumption DEF SwitchesTo
  <2> HIDE DEF to
  <2> DEFINE e == [vt[to] EXCEPT !.repaint_flags = {}]
             f == [vt[to] EXCEPT !.repaint_flags = Cells]
  <2>2. /\ active_vt_device' = to
        /\ framebuffer' = vt_repaint_terminal(to, f, [x \in Cells |-> DESKTOP])
        /\ vt' = [vt EXCEPT ![to] = e]
    BY <1>6 DEF set_active_vt
  <2>3. /\ DOMAIN e = DOMAIN vt[to] /\ e.escape_state = vt[to].escape_state /\ SameRing(vt[to], e)
        /\ e.repaint_flags = {} /\ f.repaint_flags = Cells
        /\ e.terminal_buffer = f.terminal_buffer
        /\ e.cursor_row = f.cursor_row /\ e.cursor_column = f.cursor_column
    BY <1>1, <2>1 DEF Device, DeviceFields, SameRing
  <2> HIDE DEF e, f
  <2>4. vt'[to] = e /\ DOMAIN vt' = Vts /\ \A w \in Vts : w # to => vt'[w] = vt[w]
    BY <1>1, <2>1, <2>2
  <2>5. Device(e) /\ RingOK(e) /\ Input(e) = Input(vt[to])
    <3>1. Device(e)
      BY <1>1, <2>1, <2>3 DEF Device
    <3> QED
      BY <1>1, <2>1, <2>3, <3>1, SameRingInput
  <2>6. \A w \in Vts : Device(vt'[w]) /\ RingOK(vt'[w])
    BY <1>1, <2>4, <2>5
  <2>7. \A w \in Vts : IsPrefix(Input(vt[w]), Input(vt'[w]))
    BY <1>4, <2>4, <2>5
  <2>8. ASSUME NEW x \in Cells PROVE framebuffer'[x] = vt_repaint_char(to, e, x)
    <3>1. framebuffer'[x] = vt_repaint_char(to, f, x)
      BY <2>2, <2>3 DEF vt_repaint_terminal
    <3> QED
      BY <2>3, <3>1, SamePaint DEF CursorOf
  <2>9. ScreenFaithful'
    BY <2>2, <2>3, <2>4, <2>8 DEF ScreenFaithful
  <2>10. DevicesInv'
    BY <1>2, <2>1, <2>2, <2>4, <2>6 DEF DevicesInv
  <2> QED
    BY <1>2, <2>7, <2>9, <2>10
<1>7. CASE /\ vt' = [vt EXCEPT ![active_vt_device] =
                       vt_update_input(@, Event(depressed_mod_keys, key))]
           /\ UNCHANGED <<active_vt_device, framebuffer>>
  <2> DEFINE bytes == InputOf(Event(depressed_mod_keys, key))
             e == FoldLeft(vt_append_input_character, vt[a], bytes)
  <2>1. vt' = [vt EXCEPT ![a] = e] /\ active_vt_device' = a /\ framebuffer' = framebuffer
    BY <1>7 DEF vt_update_input
  <2>2. Adds(vt[a], e)
    <3>1. Sequence(bytes)
      BY InputOfSequence
    <3> HIDE DEF bytes
    <3> QED
      BY <1>1, <3>1, SequenceDomain, UpdateAdds
  <2> HIDE DEF e
  <2>3. vt'[a] = e /\ DOMAIN vt' = Vts /\ \A w \in Vts : w # a => vt'[w] = vt[w]
    BY <1>1, <2>1
  <2>4. \A w \in Vts : Device(vt'[w]) /\ RingOK(vt'[w])
    BY <1>1, <2>2, <2>3 DEF Adds
  <2>5. \A w \in Vts : IsPrefix(Input(vt[w]), Input(vt'[w]))
    BY <1>1, <1>3, <1>4, <2>2, <2>3
  <2>6. e.repaint_flags = {} /\ \A x \in Cells : framebuffer'[x] = vt_repaint_char(a, e, x)
    <3>1. SameScreen(vt[a], e)
      BY <2>2 DEF Adds
    <3>2. vt[a].repaint_flags = {} /\ \A x \in Cells : framebuffer[x] = vt_repaint_char(a, vt[a], x)
      BY DEF ScreenFaithful
    <3>3. \A x \in Cells : vt_repaint_char(a, e, x) = vt_repaint_char(a, vt[a], x)
      BY <3>1, SamePaint DEF SameScreen, CursorOf
    <3> QED
      BY <2>1, <3>1, <3>2, <3>3 DEF SameScreen
  <2>7. ScreenFaithful'
    BY <2>1, <2>3, <2>6 DEF ScreenFaithful
  <2>8. DevicesInv'
    BY <1>1, <1>2, <2>1, <2>3, <2>4 DEF DevicesInv
  <2> QED
    BY <1>2, <2>5, <2>7, <2>8
<1> QED
    BY <1>5, <1>6, <1>7 DEF keyboard_rb_fill

\* What holds of the terminals and of the shells' locals in every reachable
\* state.
TerminalInv == DevicesInv /\ ShellsInv /\ ScreenFaithful

InputKept ==
    \A v \in Vts : IF keys' # keys THEN IsPrefix(Input(vt[v]), Input(vt'[v]))
                   ELSE IsSuffix(Input(vt'[v]), Input(vt[v]))

\* Every step keeps it, and keeps what waits in the rings.
LEMMA TerminalPreserved == TerminalInv /\ [Next]_vars => TerminalInv' /\ [InputKept]_vars
<1> SUFFICES ASSUME TerminalInv, [Next]_vars PROVE TerminalInv' /\ [InputKept]_vars
    OBVIOUS
<1>1. DevicesInv /\ ShellsInv /\ ScreenFaithful
    BY DEF TerminalInv
<1>2. CASE UNCHANGED <<terminalVars, shell>>
  <2>1. /\ vt' = vt /\ active_vt_device' = active_vt_device /\ framebuffer' = framebuffer
        /\ keys' = keys /\ shell' = shell
    BY <1>2 DEF terminalVars
  <2>2. TerminalInv'
    BY <1>1, <2>1 DEF TerminalInv, DevicesInv, ShellsInv, ScreenFaithful
  <2>3. \A v \in Vts : IsSuffix(Input(vt[v]), Input(vt[v]))
    BY <1>1, TakenOutKeeps DEF DevicesInv, TakenOut
  <2> QED
    BY <2>1, <2>2, <2>3 DEF InputKept
<1>3. ASSUME NEW key \in Keys, KeyboardInterrupt(key) PROVE TerminalInv' /\ InputKept
  <2>1. keyboard_rb_fill(key) /\ shell' = shell
    BY <1>3 DEF KeyboardInterrupt
  <2>2. ShellsInv'
    BY <1>1, <2>1 DEF ShellsInv
  <2>3. /\ DevicesInv' /\ ScreenFaithful' /\ keys' # keys
        /\ \A w \in Vts : IsPrefix(Input(vt[w]), Input(vt'[w]))
    BY <1>1, <2>1, KeyKeeps
  <2> QED
    BY <2>2, <2>3 DEF TerminalInv, InputKept
<1>4. ASSUME NEW v \in Vts,
             StartShell(v) \/ ReadKey(v) \/ ReadEscape(v) \/ ChildDone(v) \/ ForeignWrite(v)
      PROVE  TerminalInv' /\ InputKept
  <2>1. ShellStep(v) /\ ShellsInv'
    BY <1>1, <1>4, ShellsStep
  <2>2. /\ DevicesInv' /\ ScreenFaithful'
        /\ \A w \in Vts : IsSuffix(Input(vt'[w]), Input(vt[w]))
    BY <1>1, <2>1, ShellStepKeeps
  <2>3. keys' = keys
    BY <2>1 DEF ShellStep
  <2> QED
    BY <2>1, <2>2, <2>3 DEF TerminalInv, InputKept
<1>5. OpenScript \/ ScriptRead \/ ScriptChildDone \/ UNCHANGED vars => UNCHANGED <<terminalVars, shell>>
    BY DEF OpenScript, ScriptRead, ScriptChildDone, vars
<1> QED
    BY <1>2, <1>3, <1>4, <1>5 DEF Next

\* Initially every cell of the first terminal is painted.
LEMMA TerminalInitially == Init => TerminalInv
<1> SUFFICES ASSUME Init PROVE TerminalInv
    OBVIOUS
<1> DEFINE d == vt_device_init
           e == [d EXCEPT !.repaint_flags = {}]
           all == [v \in Vts |-> d]
<1>1. /\ active_vt_device = 1 /\ keys = 0
      /\ framebuffer = vt_repaint_terminal(1, all[1], [x \in Cells |-> DESKTOP])
      /\ vt = [all EXCEPT ![1].repaint_flags = {}]
    BY DEF Init, terminal_init_1
<1>2. 1 \in Vts /\ VT_INPUT_BUFFER_LENGTH \in Nat /\ VT_INPUT_BUFFER_LENGTH > 1
    BY TerminalAssumption
<1>3. DOMAIN vt = Vts /\ vt[1] = e /\ all[1] = d /\ \A v \in Vts : v # 1 => vt[v] = d
    BY <1>1, <1>2
<1>4. Device(d) /\ RingOK(d) /\ d.repaint_flags = Cells
    BY <1>2 DEF vt_device_init, Device, DeviceFields, Escapes, RingOK, Slots
<1> HIDE DEF d
<1>5. /\ DOMAIN e = DOMAIN d /\ e.escape_state = d.escape_state /\ SameRing(d, e)
      /\ e.repaint_flags = {} /\ e.terminal_buffer = d.terminal_buffer
      /\ e.cursor_row = d.cursor_row /\ e.cursor_column = d.cursor_column
    BY <1>4 DEF Device, DeviceFields, SameRing
<1> HIDE DEF e
<1>6. Device(e) /\ RingOK(e)
    BY <1>4, <1>5 DEF Device, SameRing, RingOK
<1>7. DevicesInv
    BY <1>1, <1>2, <1>3, <1>4, <1>6 DEF DevicesInv
<1>8. \A x \in Cells : framebuffer[x] = vt_repaint_char(1, d, x)
    BY <1>1, <1>3, <1>4 DEF vt_repaint_terminal
<1>9. \A x \in Cells : vt_repaint_char(1, e, x) = vt_repaint_char(1, d, x)
    BY <1>5, SamePaint DEF CursorOf
<1>10. ScreenFaithful
    BY <1>1, <1>3, <1>5, <1>8, <1>9 DEF ScreenFaithful
<1>11. ShellsInv
  <2>1. \E pc : shell = [v \in Vts |-> NewShell(pc)]
    BY DEF Init
  <2>2. PICK pc : shell = [v \in Vts |-> NewShell(pc)]
    BY <2>1
  <2>3. Sequence(<<>>) /\ Len(<<>>) = 0
    BY MessagesAreSequences
  <2>4. Editing(NewShell(pc))
    BY <2>3 DEF Editing, ShellFields, NewShell
  <2> QED
    BY <2>2, <2>4 DEF ShellsInv
<1> QED
    BY <1>7, <1>10, <1>11 DEF TerminalInv

\* tty.c: the framebuffer shows the active terminal as it is, whatever programs
\* write, escape sequences torn or not, and whenever terminals are switched; for
\* screens of any size.
THEOREM ScreenStaysFaithful == Spec => []ScreenFaithful
<1>1. TerminalInv => ScreenFaithful
    BY DEF TerminalInv
<1>2. TerminalInv /\ [Next]_vars => TerminalInv'
    BY TerminalPreserved
<1> QED
    BY <1>1, <1>2, TerminalInitially, PTL DEF Spec

\* vt_append_input_character and vt_read: no character that waits in a ring is
\* overwritten or overtaken, for rings of any length.
THEOREM InputStaysInOrder == Spec => WaitingInputKept
<1>1. TerminalInv /\ [Next]_vars => TerminalInv' /\ [InputKept]_vars
    BY TerminalPreserved
<1>2. TerminalInv /\ [Next]_vars =>
        [\A v \in Vts : IF keys' # keys THEN IsPrefix(Input(vt[v]), Input(vt'[v]))
                        ELSE IsSuffix(Input(vt'[v]), Input(vt[v]))]_vars
    BY <1>1 DEF InputKept
<1> QED
    BY <1>1, <1>2, TerminalInitially, PTL DEF Spec, WaitingInputKept

-----------------------------------------------------------------------------
(* The cursor stays on the screen.                                          *)

\* The cursor is on the screen, and every cell has a character.
ScreenOK(d) ==
    /\ d.cursor_row \in Rows /\ d.cursor_column \in Cols
    /\ DOMAIN d.terminal_buffer = Cells /\ d.repaint_flags \subseteq Cells

\* vt_set_cursor to a cell of the screen.
LEMMA SetCursorFits ==
    ASSUME NEW d, Device(d), ScreenOK(d), NEW row \in Rows, NEW column \in Cols
    PROVE  ScreenOK(vt_set_cursor(d, row, column))
<1> DEFINE e == vt_set_cursor(d, row, column)
<1>1. /\ e.terminal_buffer = d.terminal_buffer
      /\ e.cursor_row = row /\ e.cursor_column = column
      /\ e.repaint_flags = d.repaint_flags \cup {<<d.cursor_row, d.cursor_column>>, <<row, column>>}
    BY DEF vt_set_cursor, Device, DeviceFields
<1> HIDE DEF e
<1>2. ScreenOK(e)
    BY <1>1 DEF ScreenOK, Cells
<1> QED
    BY <1>2 DEF e

\* vt_set_char of cells of the screen.
LEMMA SetCharFits ==
    ASSUME NEW d, Device(d), ScreenOK(d), NEW new, DOMAIN new \subseteq Cells
    PROVE  ScreenOK(vt_set_char(d, new))
<1> DEFINE e == vt_set_char(d, new)
<1>1. /\ e.cursor_row = d.cursor_row /\ e.cursor_column = d.cursor_column
      /\ e.repaint_flags = d.repaint_flags \cup DOMAIN new
      /\ e.terminal_buffer = [x \in Cells |-> IF x \in DOMAIN new THEN new[x] ELSE d.terminal_buffer[x]]
    BY DEF vt_set_char, Device, DeviceFields
<1> HIDE DEF e
<1>2. ScreenOK(e)
    BY <1>1 DEF ScreenOK
<1> QED
    BY <1>2 DEF e

\* The first row and column, and the next ones.
LEMMA ScreenEdges ==
    /\ 0 \in Rows /\ 0 \in Cols
    /\ \A r \in Rows : /\ r # terminal_height - 1 => r + 1 \in Rows
                       /\ r # 0 => r - 1 \in Rows
    /\ \A k \in Cols : /\ k # terminal_width - 1 => k + 1 \in Cols
                       /\ k > 0 => k - 1 \in Cols
                       /\ k # 0 => k > 0
                       /\ k .. terminal_width - 1 \subseteq Cols
    BY TerminalAssumption DEF Rows, Cols

\* The cursor does not leave the screen at the last row: the screen scrolls.
LEMMA NextRowFits == ASSUME NEW d, Device(d), ScreenOK(d) PROVE ScreenOK(NextRow(d))
<1>1. CASE d.cursor_row = terminal_height - 1
  <2> DEFINE e == vt_set_cursor(d, d.cursor_row, 0)
  <2>1. Device(e) /\ ScreenOK(e)
    BY SetCursorDraws, SetCursorFits, ScreenEdges DEF Draws, ScreenOK
  <2>2. NextRow(d) = vt_shift_rows(e)
    BY <1>1 DEF NextRow
  <2> HIDE DEF e
  <2> QED
    BY <2>1, <2>2, SetCharFits DEF vt_shift_rows
<1>2. CASE d.cursor_row # terminal_height - 1
    BY <1>2, SetCursorFits, ScreenEdges DEF NextRow, ScreenOK
<1> QED
    BY <1>1, <1>2

\* Nor by an escape sequence, whose arguments the code clamps.
LEMMA EscapeCodeFits == ASSUME NEW d, Device(d), ScreenOK(d), NEW c PROVE ScreenOK(EscapeCode(d, c))
<1> DEFINE e == EscapeCode(d, c)
<1>1. d.cursor_row \in Rows /\ d.cursor_column \in Cols
    BY DEF ScreenOK
<1>2. \/ \E row \in Rows, column \in Cols : e = vt_set_cursor(d, row, column)
      \/ \E new : DOMAIN new \subseteq Cells /\ e = vt_set_char(d, new)
      \/ e = d
  <2> DEFINE row == [x \in {d.cursor_row} \X (d.cursor_column .. terminal_width - 1) |-> SPACE]
             rest == [x \in {y \in Cells : \/ y[1] > d.cursor_row
                                           \/ y[1] = d.cursor_row /\ y[2] >= d.cursor_column} |-> SPACE]
  <2>1. DOMAIN row \subseteq Cells /\ DOMAIN rest \subseteq Cells
    BY <1>1, ScreenEdges DEF Cells
  <2>2. c = "K" => e = vt_set_char(d, row)
    BY DEF EscapeCode
  <2>3. c = "J" => e = vt_set_char(d, rest)
    BY DEF EscapeCode
  <2> HIDE DEF row, rest
  <2>4. c \notin {"K", "J"} => \/ \E r \in Rows, k \in Cols : e = vt_set_cursor(d, r, k)
                              \/ e = d
    BY <1>1, ScreenEdges DEF EscapeCode
  <2> QED
    BY <2>1, <2>2, <2>3, <2>4
<1> HIDE DEF e
<1>3. ScreenOK(e)
    BY <1>2, SetCursorFits, SetCharFits
<1> QED
    BY <1>3 DEF e

\* Nor by a character, which moves it to the next cell or the next row.
LEMMA PlainCharFits == ASSUME NEW d, Device(d), ScreenOK(d), NEW c PROVE ScreenOK(PlainChar(d, c))
<1> DEFINE one == [x \in {<<d.cursor_row, d.cursor_column>>} |-> c]
           e == vt_set_char(d, one)
<1>1. d.cursor_row \in Rows /\ d.cursor_column \in Cols
    BY DEF ScreenOK
<1>2. DOMAIN one \subseteq Cells
    BY <1>1 DEF Cells
<1>3. PlainChar(d, c) \in {NextRow(d), vt_set_cursor(d, d.cursor_row, 0), d}
      \/ (d.cursor_column > 0 /\ PlainChar(d, c) = vt_set_cursor(d, d.cursor_row, d.cursor_column - 1))
      \/ PlainChar(d, c) = NextRow(e)
      \/ (d.cursor_column # terminal_width - 1
          /\ PlainChar(d, c) = vt_set_cursor(e, e.cursor_row, e.cursor_column + 1))
    BY DEF PlainChar
<1> HIDE DEF one
<1>4. Device(e) /\ ScreenOK(e) /\ e.cursor_row = d.cursor_row /\ e.cursor_column = d.cursor_column
  <2>1. Draws(d, e) /\ ScreenOK(e)
    BY <1>2, SetCharDraws, SetCharFits
  <2>2. e.cursor_row = d.cursor_row /\ e.cursor_column = d.cursor_column
    BY DEF vt_set_char, Device, DeviceFields
  <2> QED
    BY <2>1, <2>2 DEF Draws
<1> HIDE DEF e
<1>5. ScreenOK(NextRow(d)) /\ ScreenOK(NextRow(e)) /\ ScreenOK(vt_set_cursor(d, d.cursor_row, 0))
    BY <1>1, <1>4, NextRowFits, SetCursorFits, ScreenEdges
<1>6. d.cursor_column > 0 => ScreenOK(vt_set_cursor(d, d.cursor_row, d.cursor_column - 1))
    BY <1>1, SetCursorFits, ScreenEdges
<1>7. d.cursor_column # terminal_width - 1 => ScreenOK(vt_set_cursor(e, e.cursor_row, e.cursor_column + 1))
    BY <1>1, <1>4, SetCursorFits, ScreenEdges
<1> QED
    BY <1>3, <1>5, <1>6, <1>7

\* One turn of the loop of vt_write, and the whole of it.
LEMMA PutCharFits == ASSUME NEW d, Device(d), ScreenOK(d), NEW c PROVE ScreenOK(PutChar(d, c))
<1>1. ASSUME NEW f, Device(f), ScreenOK(f), NEW state PROVE ScreenOK([f EXCEPT !.escape_state = state])
  <2> DEFINE e == [f EXCEPT !.escape_state = state]
  <2>1. /\ e.cursor_row = f.cursor_row /\ e.cursor_column = f.cursor_column
        /\ e.repaint_flags = f.repaint_flags /\ e.terminal_buffer = f.terminal_buffer
    BY <1>1 DEF Device, DeviceFields
  <2> HIDE DEF e
  <2>2. ScreenOK(e)
    BY <1>1, <2>1 DEF ScreenOK
  <2> QED
    BY <2>2 DEF e
<1>2. CASE d.escape_state = "VT_ESCAPE_ESC_PAREN"
  <2>1. Device(EscapeCode(d, c)) /\ ScreenOK(EscapeCode(d, c))
    BY EscapeCodeDraws, EscapeCodeFits DEF Draws
  <2>2. PutChar(d, c) = [EscapeCode(d, c) EXCEPT !.escape_state = "VT_ESCAPE_NONE"]
    BY <1>2 DEF PutChar
  <2> QED
    BY <1>1, <2>1, <2>2
<1>3. CASE d.escape_state = "VT_ESCAPE_ESC"
  <2>1. \E state : PutChar(d, c) = [d EXCEPT !.escape_state = state]
    BY <1>3 DEF PutChar
  <2> QED
    BY <1>1, <2>1
<1>4. CASE d.escape_state = "VT_ESCAPE_NONE"
  <2>1. (\E state : PutChar(d, c) = [d EXCEPT !.escape_state = state]) \/ PutChar(d, c) = PlainChar(d, c)
    BY <1>4 DEF PutChar
  <2> QED
    BY <1>1, <2>1, PlainCharFits
<1> QED
    BY <1>2, <1>3, <1>4 DEF Device, Escapes

\* vt_write, whatever it writes.
LEMMA WriteFits ==
    ASSUME NEW d, Device(d), ScreenOK(d), NEW bytes, NEW n \in Nat, DOMAIN bytes = 1 .. n
    PROVE  ScreenOK(FoldLeft(PutChar, d, bytes))
<1>1. PICK h : Turns("output", h, n, d, bytes) /\ FoldLeft(PutChar, d, bytes) = h[n]
    BY OutputTurns
<1> DEFINE Bad == {k \in 0 .. n : ~ (Device(h[k]) /\ ScreenOK(h[k]))}
<1>2. Bad = {}
  <2> SUFFICES ASSUME Bad # {} PROVE FALSE
    OBVIOUS
  <2>1. Bad \in SUBSET Nat
    OBVIOUS
  <2>2. PICK m \in Bad : \A k \in Bad : m <= k
    BY <2>1, LeastNatural
  <2>3. m # 0
    BY <1>1, <2>2 DEF Turns
  <2>4. m \in 1 .. n /\ m - 1 \in 0 .. n /\ Device(h[m - 1]) /\ ScreenOK(h[m - 1])
    BY <2>2, <2>3
  <2>5. h[m] = PutChar(h[m - 1], bytes[m])
    BY <1>1, <2>4 DEF Turns, Turn
  <2>6. Device(h[m]) /\ ScreenOK(h[m])
    BY <2>4, <2>5, PutCharDraws, PutCharFits DEF Draws
  <2> QED
    BY <2>2, <2>6
<1>3. n \in 0 .. n
    OBVIOUS
<1> QED
    BY <1>1, <1>2, <1>3

-----------------------------------------------------------------------------
(* The line editor.                                                        *)

Waits(s) == s.pc \in {"waitpid", "exited"}

\* The locals of main fit each other.
LineOK(s) ==
    /\ Editing(s)
    /\ s.pc \in {"none", "start", "read", "escape", "waitpid", "exited"}
    /\ DOMAIN s.keyboard_command_buffer = Positions
    /\ DOMAIN s.prev_keyboard_command_buffer = Positions
    /\ s.cursor_end_offset <= s.keyboard_command_length
    /\ Waits(s) => s.cursor_end_offset = 0 /\ s.keyboard_command_length = s.prev_keyboard_command_length

\* The text of Editor(v), of a shell's locals.
TextBefore(s) ==
    IF Waits(s) THEN <<>>
    ELSE SubSeq(LineOf(s.keyboard_command_buffer, s.keyboard_command_length), 1,
                s.keyboard_command_length - s.cursor_end_offset)

TextAfter(s) ==
    IF Waits(s) THEN <<>>
    ELSE LET line == LineOf(s.keyboard_command_buffer, s.keyboard_command_length)
         IN SubSeq(line, s.keyboard_command_length - s.cursor_end_offset + 1, Len(line))

TextHistory(s) == LineOf(s.prev_keyboard_command_buffer, s.prev_keyboard_command_length)

\* Append, Tail, Front and concatenation, element by element.
LEMMA AppendElements ==
    ASSUME NEW s, Sequence(s), NEW c
    PROVE  /\ Sequence(Append(s, c)) /\ Len(Append(s, c)) = Len(s) + 1
           /\ \A i \in 1 .. Len(s) : Append(s, c)[i] = s[i]
           /\ Append(s, c)[Len(s) + 1] = c
<1>1. PICK S : s \in Seq(S)
    BY DEF Sequence
<1>2. s \in Seq(S \cup {c}) /\ c \in S \cup {c}
  <2>1. Len(s) \in Nat /\ s \in [1 .. Len(s) -> S \cup {c}]
    BY <1>1, LenProperties
  <2> QED
    BY <2>1
<1> DEFINE T == S \cup {c}
<1> HIDE DEF T
<1>3. s \in Seq(T) /\ c \in T
    BY <1>2 DEF T
<1> QED
    BY <1>3, AppendProperties DEF Sequence

\* Head and Tail, element by element.
LEMMA TailElements ==
    ASSUME NEW s, Sequence(s), Len(s) > 0
    PROVE  /\ Sequence(Tail(s)) /\ Len(Tail(s)) = Len(s) - 1 /\ Head(s) = s[1]
           /\ \A i \in 1 .. Len(s) - 1 : Tail(s)[i] = s[i + 1]
<1>1. PICK S : s \in Seq(S)
    BY DEF Sequence
<1>2. s # <<>>
    BY <1>1
<1>3. Tail(s) \in Seq(S) /\ Len(Tail(s)) = Len(s) - 1
      /\ \A i \in 1 .. Len(Tail(s)) : Tail(s)[i] = s[i + 1]
    BY <1>1, <1>2, HeadTailProperties
<1>4. Head(s) = s[1]
    BY <1>1, <1>2
<1> QED
    BY <1>3, <1>4 DEF Sequence

\* Two sequences behind each other, element by element.
LEMMA ConcatElements ==
    ASSUME NEW s, NEW t, Sequence(s), Sequence(t)
    PROVE  /\ Sequence(s \o t) /\ Len(s \o t) = Len(s) + Len(t)
           /\ \A i \in 1 .. Len(s) : (s \o t)[i] = s[i]
           /\ \A i \in 1 .. Len(t) : (s \o t)[Len(s) + i] = t[i]
<1>1. PICK S : s \in Seq(S)
    BY DEF Sequence
<1>2. PICK T : t \in Seq(T)
    BY DEF Sequence
<1> DEFINE R == S \cup T
<1>3. s \in Seq(R) /\ t \in Seq(R)
  <2>1. Len(s) \in Nat /\ s \in [1 .. Len(s) -> R]
    BY <1>1, LenProperties
  <2>2. Len(t) \in Nat /\ t \in [1 .. Len(t) -> R]
    BY <1>2, LenProperties
  <2> QED
    BY <2>1, <2>2
<1> HIDE DEF R
<1>4. Len(s) \in Nat /\ Len(t) \in Nat
    BY SequenceDomain
<1>5. /\ s \o t \in Seq(R) /\ Len(s \o t) = Len(s) + Len(t)
      /\ \A i \in 1 .. Len(s) + Len(t) : (s \o t)[i] = IF i <= Len(s) THEN s[i] ELSE t[i - Len(s)]
    BY <1>3, ConcatProperties
<1>6. ASSUME NEW i \in 1 .. Len(s) PROVE (s \o t)[i] = s[i]
    BY <1>4, <1>5
<1>7. ASSUME NEW i \in 1 .. Len(t) PROVE (s \o t)[Len(s) + i] = t[i]
  <2>1. Len(s) + i \in 1 .. Len(s) + Len(t) /\ ~ (Len(s) + i <= Len(s)) /\ (Len(s) + i) - Len(s) = i
    BY <1>4
  <2> QED
    BY <1>5, <2>1
<1> QED
    BY <1>5, <1>6, <1>7 DEF Sequence

\* The line, element by element.
LEMMA LineElements ==
    ASSUME NEW buffer, NEW length \in Nat
    PROVE  /\ Sequence(LineOf(buffer, length)) /\ Len(LineOf(buffer, length)) = length
           /\ \A i \in 1 .. length : LineOf(buffer, length)[i] = buffer[i - 1]
<1> DEFINE f == LineOf(buffer, length)
<1>1. f = [i \in 1 .. length |-> f[i]] /\ \A i \in 1 .. length : f[i] = buffer[i - 1]
    BY DEF LineOf
<1> HIDE DEF f
<1>2. Sequence(f) /\ Len(f) = length
    BY <1>1, SequenceOf
<1> QED
    BY <1>1, <1>2 DEF f

\* The text, in terms of the buffer.
LEMMA TextElements ==
    ASSUME NEW s, LineOK(s), ~ Waits(s)
    PROVE  LET n == s.keyboard_command_length
               at == n - s.cursor_end_offset
               b == s.keyboard_command_buffer
           IN /\ Sequence(TextBefore(s)) /\ Len(TextBefore(s)) = at
              /\ \A i \in 1 .. at : TextBefore(s)[i] = b[i - 1]
              /\ Sequence(TextAfter(s)) /\ Len(TextAfter(s)) = s.cursor_end_offset
              /\ \A i \in 1 .. s.cursor_end_offset : TextAfter(s)[i] = b[at + (i - 1)]
<1> DEFINE n == s.keyboard_command_length
           o == s.cursor_end_offset
           at == n - o
           b == s.keyboard_command_buffer
           line == LineOf(b, n)
<1>1. n \in Nat /\ o \in Nat /\ at \in Nat /\ o <= n
    BY DEF LineOK, Editing
<1>2. Len(line) = n /\ \A i \in 1 .. n : line[i] = b[i - 1]
    BY <1>1, LineElements
<1>3. TextBefore(s) = SubSeq(line, 1, at) /\ TextAfter(s) = SubSeq(line, at + 1, n)
    BY <1>2 DEF TextBefore, TextAfter
<1> HIDE DEF line
<1>4. /\ Sequence(TextBefore(s)) /\ Len(TextBefore(s)) = at
      /\ \A i \in 1 .. at : TextBefore(s)[i] = b[i - 1]
  <2>1. \A i \in 1 .. at : i \in 1 .. n
    BY <1>1
  <2> HIDE DEF at
  <2> QED
    BY <1>1, <1>2, <1>3, <2>1, SequencePart
<1>5. /\ Sequence(TextAfter(s)) /\ Len(TextAfter(s)) = o
      /\ \A i \in 1 .. o : TextAfter(s)[i] = b[at + (i - 1)]
  <2> DEFINE S == {line[i] : i \in at + 1 .. n}
  <2>1. \A i \in at + 1 .. n : line[i] \in S
    OBVIOUS
  <2> HIDE DEF S
  <2>2. at + 1 \in Int /\ n \in Int /\ n - (at + 1) + 1 = o /\ (at + 1 <= n <=> o > 0)
    BY <1>1
  <2>3. /\ SubSeq(line, at + 1, n) \in Seq(S)
        /\ Len(SubSeq(line, at + 1, n)) = IF at + 1 <= n THEN n - (at + 1) + 1 ELSE 0
        /\ \A i \in 1 .. n - (at + 1) + 1 : SubSeq(line, at + 1, n)[i] = line[at + 1 + i - 1]
    BY <2>1, <2>2, SubSeqProperties
  <2>4. ASSUME NEW i \in 1 .. o PROVE TextAfter(s)[i] = b[at + (i - 1)]
    <3>1. at + 1 + i - 1 \in 1 .. n /\ (at + 1 + i - 1) - 1 = at + (i - 1)
      BY <1>1
    <3>2. TextAfter(s)[i] = line[at + 1 + i - 1]
      BY <1>3, <2>2, <2>3
    <3> QED
      BY <1>2, <3>1, <3>2
  <2>5. Len(TextAfter(s)) = o
    BY <1>1, <1>3, <2>2, <2>3
  <2> QED
    BY <1>3, <2>3, <2>4, <2>5 DEF Sequence
<1> QED
    BY <1>4, <1>5

\* The text of two states with the same buffer and cursor is the same.
LEMMA SameLocals ==
    ASSUME NEW s, NEW t, Waits(s) <=> Waits(t),
           t.keyboard_command_buffer = s.keyboard_command_buffer,
           t.keyboard_command_length = s.keyboard_command_length,
           t.cursor_end_offset = s.cursor_end_offset
    PROVE  TextBefore(t) = TextBefore(s) /\ TextAfter(t) = TextAfter(s)
<1>1. CASE Waits(s)
    BY <1>1 DEF TextBefore, TextAfter
<1>2. CASE ~ Waits(s)
    BY <1>2 DEF TextBefore, TextAfter
<1> QED
    BY <1>1, <1>2

\* Nor the history, to shells with the same previous line.
LEMMA SameHistory ==
    ASSUME NEW s, NEW t, t.prev_keyboard_command_buffer = s.prev_keyboard_command_buffer,
           t.prev_keyboard_command_length = s.prev_keyboard_command_length
    PROVE  TextHistory(t) = TextHistory(s)
    BY DEF TextHistory

\* The whole line.
LEMMA WholeLine ==
    ASSUME NEW s, LineOK(s), ~ Waits(s)
    PROVE  TextBefore(s) \o TextAfter(s) = LineOf(s.keyboard_command_buffer, s.keyboard_command_length)
<1> DEFINE n == s.keyboard_command_length
           o == s.cursor_end_offset
           at == n - o
           b == s.keyboard_command_buffer
           p == TextBefore(s)
           q == TextAfter(s)
           line == LineOf(b, n)
<1>1. n \in Nat /\ o \in Nat /\ at \in Nat /\ o <= n
    BY DEF LineOK, Editing
<1>2. /\ Sequence(p) /\ Len(p) = at /\ \A i \in 1 .. at : p[i] = b[i - 1]
      /\ Sequence(q) /\ Len(q) = o /\ \A i \in 1 .. o : q[i] = b[at + (i - 1)]
    BY TextElements
<1>3. Sequence(line) /\ Len(line) = n /\ \A i \in 1 .. n : line[i] = b[i - 1]
    BY <1>1, LineElements
<1> HIDE DEF p, q, line
<1>4. /\ Sequence(p \o q) /\ Len(p \o q) = Len(p) + Len(q)
      /\ \A i \in 1 .. Len(p) : (p \o q)[i] = p[i]
      /\ \A i \in 1 .. Len(q) : (p \o q)[Len(p) + i] = q[i]
    BY <1>2, ConcatElements
<1> DEFINE pq == p \o q
<1> HIDE DEF pq
<1>5. /\ Sequence(pq) /\ Len(pq) = n
      /\ \A i \in 1 .. at : pq[i] = b[i - 1]
      /\ \A i \in 1 .. o : pq[at + i] = b[at + (i - 1)]
  <2>1. Sequence(pq) /\ Len(pq) = at + o
    BY <1>2, <1>4 DEF pq
  <2>2. ASSUME NEW i \in 1 .. at PROVE pq[i] = b[i - 1]
    <3>1. (p \o q)[i] = p[i]
      BY <1>2, <1>4
    <3> QED
      BY <1>2, <3>1 DEF pq
  <2>3. ASSUME NEW i \in 1 .. o PROVE pq[at + i] = b[at + (i - 1)]
    <3>1. (p \o q)[at + i] = q[i]
      BY <1>2, <1>4
    <3> QED
      BY <1>2, <3>1 DEF pq
  <2>4. at + o = n
    BY <1>1
  <2> QED
    BY <2>1, <2>2, <2>3, <2>4
<1>6. ASSUME NEW i \in 1 .. n PROVE pq[i] = line[i]
  <2>1. CASE i <= at
    <3>1. i \in 1 .. at
      BY <1>1, <2>1
    <3> QED
      BY <1>3, <1>5, <3>1
  <2>2. CASE i > at
    <3>1. i - at \in 1 .. o /\ at + (i - at) = i /\ at + ((i - at) - 1) = i - 1
      BY <1>1, <2>2
    <3>2. pq[at + (i - at)] = b[at + ((i - at) - 1)]
      BY <1>5, <3>1
    <3> QED
      BY <1>3, <3>1, <3>2
  <2> QED
    BY <1>1, <2>1, <2>2
<1>7. pq = line
    BY <1>3, <1>5, <1>6, SequenceEqual
<1> QED
    BY <1>7 DEF pq, p, q, line

\* What a step of the line editor may do to the text: LineEditor!Next.
Edits(s, t) ==
    \/ TextBefore(t) = TextBefore(s) /\ TextAfter(t) = TextAfter(s) /\ TextHistory(t) = TextHistory(s)
    \/ \E c \in TypedChars : /\ TextBefore(t) = Append(TextBefore(s), c)
                             /\ TextAfter(t) = TextAfter(s) /\ TextHistory(t) = TextHistory(s)
    \/ /\ TextBefore(s) # <<>> /\ TextBefore(t) = Front(TextBefore(s))
       /\ TextAfter(t) = TextAfter(s) /\ TextHistory(t) = TextHistory(s)
    \/ /\ TextBefore(s) # <<>> /\ TextBefore(t) = Front(TextBefore(s))
       /\ TextAfter(t) = <<Last(TextBefore(s))>> \o TextAfter(s) /\ TextHistory(t) = TextHistory(s)
    \/ /\ TextAfter(s) # <<>> /\ TextBefore(t) = Append(TextBefore(s), Head(TextAfter(s)))
       /\ TextAfter(t) = Tail(TextAfter(s)) /\ TextHistory(t) = TextHistory(s)
    \/ /\ TextBefore(t) = TextHistory(s) /\ TextAfter(t) = <<>>
       /\ TextHistory(t) = TextBefore(s) \o TextAfter(s)
    \/ /\ TextHistory(t) = TextBefore(s) \o TextAfter(s)
       /\ TextBefore(t) = <<>> /\ TextAfter(t) = <<>>

\* Front and Last, element by element; a sequence with elements is not empty.
LEMMA FrontElements ==
    ASSUME NEW s, Sequence(s), Len(s) > 0
    PROVE  /\ Sequence(Front(s)) /\ Len(Front(s)) = Len(s) - 1 /\ Last(s) = s[Len(s)] /\ s # <<>>
           /\ \A i \in 1 .. Len(s) - 1 : Front(s)[i] = s[i]
<1>1. Len(s) - 1 \in Nat
    BY SequenceDomain
<1>2. Front(s) = SubSeq(s, 1, Len(s) - 1) /\ Last(s) = s[Len(s)]
    BY DEF Front, Last
<1>3. s # <<>>
  <2>1. Len(<<>>) = 0
    OBVIOUS
  <2> QED
    BY <2>1
<1> DEFINE m == Len(s) - 1
<1> HIDE DEF m
<1>4. Sequence(SubSeq(s, 1, m)) /\ Len(SubSeq(s, 1, m)) = m /\ \A i \in 1 .. m : SubSeq(s, 1, m)[i] = s[i]
    BY <1>1, SequencePart DEF m
<1> QED
    BY <1>2, <1>3, <1>4 DEF m

\* A sequence without elements.
LEMMA NoElements == ASSUME NEW s, Sequence(s), Len(s) = 0 PROVE s = <<>>
<1>1. Sequence(<<>>) /\ Len(<<>>) = 0
    BY MessagesAreSequences
<1> QED
    BY <1>1, SequenceEqual

\* The arrow to the right.
LEMMA RightEdits ==
    ASSUME NEW s, LineOK(s), ~ Waits(s), NEW t, LineOK(t), ~ Waits(t), s.cursor_end_offset > 0,
           t.cursor_end_offset = s.cursor_end_offset - 1,
           t.keyboard_command_length = s.keyboard_command_length,
           t.keyboard_command_buffer = s.keyboard_command_buffer,
           TextHistory(t) = TextHistory(s)
    PROVE  Edits(s, t)
<1> DEFINE n == s.keyboard_command_length
           o == s.cursor_end_offset
           at == n - o
           b == s.keyboard_command_buffer
           p == TextBefore(s)
           q == TextAfter(s)
           x == TextBefore(t)
           y == TextAfter(t)
<1>1. n \in Nat /\ o \in Nat /\ at \in Nat /\ o <= n /\ o > 0 /\ n - (o - 1) = at + 1
    BY DEF LineOK, Editing
<1>2. /\ Sequence(p) /\ Len(p) = at /\ \A i \in 1 .. at : p[i] = b[i - 1]
      /\ Sequence(q) /\ Len(q) = o /\ \A i \in 1 .. o : q[i] = b[at + (i - 1)]
    BY TextElements
<1>3. /\ Sequence(x) /\ Len(x) = n - (o - 1) /\ \A i \in 1 .. n - (o - 1) : x[i] = b[i - 1]
      /\ Sequence(y) /\ Len(y) = o - 1 /\ \A i \in 1 .. o - 1 : y[i] = b[(n - (o - 1)) + (i - 1)]
    BY TextElements
<1> HIDE DEF p, q, x, y, at, n, o, b
<1>4. /\ Sequence(x) /\ Len(x) = at + 1 /\ \A i \in 1 .. at + 1 : x[i] = b[i - 1]
      /\ Sequence(y) /\ Len(y) = o - 1 /\ \A i \in 1 .. o - 1 : y[i] = b[(at + 1) + (i - 1)]
    BY <1>1, <1>3
<1>5. /\ Sequence(Tail(q)) /\ Len(Tail(q)) = o - 1 /\ Head(q) = q[1]
      /\ \A i \in 1 .. o - 1 : Tail(q)[i] = q[i + 1]
    BY <1>1, <1>2, TailElements
<1>6. y = Tail(q)
  <2>1. ASSUME NEW i \in 1 .. o - 1 PROVE y[i] = Tail(q)[i]
    <3>1. i + 1 \in 1 .. o /\ at + ((i + 1) - 1) = (at + 1) + (i - 1)
      BY <1>1
    <3>2. q[i + 1] = b[at + ((i + 1) - 1)]
      BY <1>2, <3>1
    <3> QED
      BY <1>4, <1>5, <3>1, <3>2
  <2> QED
    BY <1>4, <1>5, <2>1, SequenceEqual
<1>7. Head(q) = b[at]
  <2>1. 1 \in 1 .. o /\ at + (1 - 1) = at
    BY <1>1
  <2>2. q[1] = b[at + (1 - 1)]
    BY <1>2, <2>1
  <2> QED
    BY <1>5, <2>1, <2>2
<1>8. x = Append(p, Head(q))
  <2> DEFINE z == Append(p, Head(q))
  <2>1. Sequence(z) /\ Len(z) = at + 1 /\ (\A i \in 1 .. at : z[i] = p[i]) /\ z[at + 1] = Head(q)
    BY <1>2, AppendElements
  <2> HIDE DEF z
  <2>2. ASSUME NEW i \in 1 .. at + 1 PROVE x[i] = z[i]
    <3>1. CASE i = at + 1
      <4>1. i - 1 = at
        BY <1>1, <3>1
      <4> QED
        BY <1>4, <1>7, <2>1, <3>1, <4>1
    <3>2. CASE i # at + 1
      <4>1. i \in 1 .. at
        BY <1>1, <3>2
      <4> QED
        BY <1>2, <1>4, <2>1, <4>1
    <3> QED
      BY <3>1, <3>2
  <2>3. x = z
    BY <1>4, <2>1, <2>2, SequenceEqual
  <2> QED
    BY <2>3 DEF z
<1>9. q # <<>>
    BY <1>1, <1>2, FrontElements
<1> QED
    BY <1>6, <1>8, <1>9 DEF Edits, p, q, x, y

\* The arrow to the left.
LEMMA LeftEdits ==
    ASSUME NEW s, LineOK(s), ~ Waits(s), NEW t, LineOK(t), ~ Waits(t),
           s.cursor_end_offset < s.keyboard_command_length,
           t.cursor_end_offset = s.cursor_end_offset + 1,
           t.keyboard_command_length = s.keyboard_command_length,
           t.keyboard_command_buffer = s.keyboard_command_buffer,
           TextHistory(t) = TextHistory(s)
    PROVE  Edits(s, t)
<1> DEFINE n == s.keyboard_command_length
           o == s.cursor_end_offset
           at == n - o
           b == s.keyboard_command_buffer
           p == TextBefore(s)
           q == TextAfter(s)
           x == TextBefore(t)
           y == TextAfter(t)
<1>1. n \in Nat /\ o \in Nat /\ at \in Nat /\ at > 0 /\ n - (o + 1) = at - 1
    BY DEF LineOK, Editing
<1>2. /\ Sequence(p) /\ Len(p) = at /\ \A i \in 1 .. at : p[i] = b[i - 1]
      /\ Sequence(q) /\ Len(q) = o /\ \A i \in 1 .. o : q[i] = b[at + (i - 1)]
    BY TextElements
<1>3. /\ Sequence(x) /\ Len(x) = n - (o + 1) /\ \A i \in 1 .. n - (o + 1) : x[i] = b[i - 1]
      /\ Sequence(y) /\ Len(y) = o + 1 /\ \A i \in 1 .. o + 1 : y[i] = b[(n - (o + 1)) + (i - 1)]
    BY TextElements
<1> HIDE DEF p, q, x, y, at, n, o, b
<1>4. /\ Sequence(x) /\ Len(x) = at - 1 /\ \A i \in 1 .. at - 1 : x[i] = b[i - 1]
      /\ Sequence(y) /\ Len(y) = o + 1 /\ \A i \in 1 .. o + 1 : y[i] = b[(at - 1) + (i - 1)]
    BY <1>1, <1>3
<1>5. /\ Sequence(Front(p)) /\ Len(Front(p)) = at - 1 /\ Last(p) = p[at] /\ p # <<>>
      /\ \A i \in 1 .. at - 1 : Front(p)[i] = p[i]
    BY <1>1, <1>2, FrontElements
<1>6. x = Front(p)
  <2>1. ASSUME NEW i \in 1 .. at - 1 PROVE x[i] = Front(p)[i]
    <3>1. i \in 1 .. at
      BY <1>1
    <3> QED
      BY <1>2, <1>4, <1>5, <3>1
  <2> QED
    BY <1>4, <1>5, <2>1, SequenceEqual
<1>7. Last(p) = b[at - 1]
  <2>1. at \in 1 .. at
    BY <1>1
  <2> QED
    BY <1>2, <1>5, <2>1
<1>8. y = <<Last(p)>> \o q
  <2> DEFINE u == <<Last(p)>>
             z == u \o q
  <2>1. Sequence(u) /\ Len(u) = 1 /\ u[1] = Last(p)
    BY MessagesAreSequences
  <2> HIDE DEF u
  <2>2. Sequence(z) /\ Len(z) = 1 + o /\ (\A i \in 1 .. 1 : z[i] = u[i]) /\ \A i \in 1 .. o : z[1 + i] = q[i]
    <3>1. Sequence(u) /\ Sequence(q)
      BY <1>2, <2>1
    <3>2. /\ Sequence(u \o q) /\ Len(u \o q) = Len(u) + Len(q)
          /\ \A i \in 1 .. Len(u) : (u \o q)[i] = u[i]
          /\ \A i \in 1 .. Len(q) : (u \o q)[Len(u) + i] = q[i]
      BY <3>1, ConcatElements
    <3> HIDE DEF z
    <3>3. z = u \o q /\ Len(u) = 1 /\ Len(q) = o
      BY <1>2, <2>1 DEF z
    <3> QED
      BY <3>2, <3>3
  <2> HIDE DEF z
  <2>3. ASSUME NEW i \in 1 .. o + 1 PROVE y[i] = z[i]
    <3>1. CASE i = 1
      <4>1. (at - 1) + (i - 1) = at - 1 /\ 1 \in 1 .. 1
        BY <1>1, <3>1
      <4>2. y[i] = b[at - 1]
        BY <1>4, <4>1
      <4> QED
        BY <1>7, <2>1, <2>2, <3>1, <4>1, <4>2
    <3>2. CASE i # 1
      <4>1. i - 1 \in 1 .. o /\ 1 + (i - 1) = i /\ at + ((i - 1) - 1) = (at - 1) + (i - 1)
        BY <1>1, <3>2
      <4>2. z[1 + (i - 1)] = q[i - 1] /\ q[i - 1] = b[at + ((i - 1) - 1)]
        BY <1>2, <2>2, <4>1
      <4> QED
        BY <1>4, <4>1, <4>2
    <3> QED
      BY <3>1, <3>2
  <2>4. Len(y) = Len(z)
    BY <1>1, <1>4, <2>2
  <2>5. y = z
    BY <1>4, <2>2, <2>3, <2>4, SequenceEqual
  <2> QED
    BY <2>5 DEF u, z
<1> QED
    BY <1>5, <1>6, <1>8 DEF Edits, p, q, x, y

\* The arrow up.
LEMMA UpEdits ==
    ASSUME NEW s, LineOK(s), ~ Waits(s), NEW t, LineOK(t), ~ Waits(t),
           t.cursor_end_offset = 0,
           t.keyboard_command_length = s.prev_keyboard_command_length,
           t.keyboard_command_buffer = s.prev_keyboard_command_buffer,
           t.prev_keyboard_command_length = s.keyboard_command_length,
           t.prev_keyboard_command_buffer = s.keyboard_command_buffer
    PROVE  Edits(s, t)
<1> DEFINE n == s.prev_keyboard_command_length
           b == s.prev_keyboard_command_buffer
           x == TextBefore(t)
           h == TextHistory(s)
<1>1. n \in Nat /\ n - 0 = n
    BY DEF LineOK, Editing
<1>2. /\ Sequence(x) /\ Len(x) = n - 0 /\ \A i \in 1 .. n - 0 : x[i] = b[i - 1]
      /\ Sequence(TextAfter(t)) /\ Len(TextAfter(t)) = 0
    BY TextElements
<1>3. Sequence(h) /\ Len(h) = n /\ \A i \in 1 .. n : h[i] = b[i - 1]
    BY <1>1, LineElements DEF TextHistory
<1> HIDE DEF x, h, n, b
<1>4. x = h
    BY <1>1, <1>2, <1>3, SequenceEqual
<1>5. TextAfter(t) = <<>>
    BY <1>2, NoElements
<1>6. TextHistory(t) = TextBefore(s) \o TextAfter(s)
    BY WholeLine DEF TextHistory
<1> QED
    BY <1>4, <1>5, <1>6 DEF Edits, x, h

\* Erase.
LEMMA EraseEdits ==
    ASSUME NEW s, LineOK(s), ~ Waits(s), NEW t, LineOK(t), ~ Waits(t),
           s.keyboard_command_length > s.cursor_end_offset,
           s.keyboard_command_length <= KEYBOARD_COMMAND_BUFFER_LENGTH,
           t.cursor_end_offset = s.cursor_end_offset,
           t.keyboard_command_length = s.keyboard_command_length - 1,
           t.keyboard_command_buffer =
             CloseGap(s.keyboard_command_buffer, (s.keyboard_command_length - 1) - s.cursor_end_offset,
                      s.keyboard_command_length - 1),
           TextHistory(t) = TextHistory(s)
    PROVE  Edits(s, t)
<1> DEFINE n == s.keyboard_command_length
           o == s.cursor_end_offset
           at == n - o
           b == s.keyboard_command_buffer
           d == t.keyboard_command_buffer
           p == TextBefore(s)
           q == TextAfter(s)
           x == TextBefore(t)
           y == TextAfter(t)
<1>1. n \in Nat /\ o \in Nat /\ at \in Nat /\ at > 0 /\ o <= n /\ (n - 1) - o = at - 1
      /\ n <= KEYBOARD_COMMAND_BUFFER_LENGTH /\ KEYBOARD_COMMAND_BUFFER_LENGTH \in Nat
    BY ShellAssumption DEF LineOK, Editing
<1>2. /\ Sequence(p) /\ Len(p) = at /\ \A i \in 1 .. at : p[i] = b[i - 1]
      /\ Sequence(q) /\ Len(q) = o /\ \A i \in 1 .. o : q[i] = b[at + (i - 1)]
    BY TextElements
<1>3. /\ Sequence(x) /\ Len(x) = (n - 1) - o /\ \A i \in 1 .. (n - 1) - o : x[i] = d[i - 1]
      /\ Sequence(y) /\ Len(y) = o /\ \A i \in 1 .. o : y[i] = d[((n - 1) - o) + (i - 1)]
    BY TextElements
<1>4. d = [i \in Positions |-> IF i \in (n - 1) - o .. (n - 1) - 1 THEN b[i + 1] ELSE b[i]]
    BY DEF CloseGap
<1> HIDE DEF p, q, x, y, at, n, o, b, d
<1>5. /\ Sequence(x) /\ Len(x) = at - 1 /\ \A i \in 1 .. at - 1 : x[i] = d[i - 1]
      /\ Sequence(y) /\ Len(y) = o /\ \A i \in 1 .. o : y[i] = d[(at - 1) + (i - 1)]
    BY <1>1, <1>3
<1>6. /\ Sequence(Front(p)) /\ Len(Front(p)) = at - 1 /\ p # <<>>
      /\ \A i \in 1 .. at - 1 : Front(p)[i] = p[i]
    BY <1>1, <1>2, FrontElements
<1>7. x = Front(p)
  <2>1. ASSUME NEW i \in 1 .. at - 1 PROVE x[i] = Front(p)[i]
    <3>1. i \in 1 .. at /\ i - 1 \in Positions /\ i - 1 \notin (n - 1) - o .. (n - 1) - 1
      BY <1>1 DEF Positions
    <3>2. d[i - 1] = b[i - 1]
      BY <1>4, <3>1
    <3> QED
      BY <1>2, <1>5, <1>6, <3>1, <3>2
  <2> QED
    BY <1>5, <1>6, <2>1, SequenceEqual
<1>8. y = q
  <2>1. ASSUME NEW i \in 1 .. o PROVE y[i] = q[i]
    <3> DEFINE k == (at - 1) + (i - 1)
    <3>1. k \in Positions /\ k \in (n - 1) - o .. (n - 1) - 1 /\ k + 1 = at + (i - 1)
      BY <1>1 DEF Positions, at
    <3>2. y[i] = d[k]
      BY <1>5
    <3> HIDE DEF k
    <3>3. d[k] = b[k + 1]
      BY <1>4, <3>1
    <3> QED
      BY <1>2, <3>1, <3>2, <3>3
  <2> QED
    BY <1>2, <1>5, <2>1, SequenceEqual
<1> QED
    BY <1>6, <1>7, <1>8 DEF Edits, p, q, x, y

\* A character is inserted.
LEMMA InsertEdits ==
    ASSUME NEW s, LineOK(s), ~ Waits(s), NEW t, LineOK(t), ~ Waits(t), NEW c \in TypedChars,
           s.keyboard_command_length + 1 <= KEYBOARD_COMMAND_BUFFER_LENGTH,
           t.cursor_end_offset = s.cursor_end_offset,
           t.keyboard_command_length = s.keyboard_command_length + 1,
           NEW d, t.keyboard_command_buffer = d,
           \A i \in Positions :
             /\ i = s.keyboard_command_length - s.cursor_end_offset => d[i] = c
             /\ i \in (s.keyboard_command_length - s.cursor_end_offset) + 1 .. s.keyboard_command_length =>
                  d[i] = s.keyboard_command_buffer[i - 1]
             /\ i < s.keyboard_command_length - s.cursor_end_offset => d[i] = s.keyboard_command_buffer[i],
           TextHistory(t) = TextHistory(s)
    PROVE  Edits(s, t)
<1> DEFINE n == s.keyboard_command_length
           o == s.cursor_end_offset
           at == n - o
           b == s.keyboard_command_buffer
           p == TextBefore(s)
           q == TextAfter(s)
           x == TextBefore(t)
           y == TextAfter(t)
<1>1. n \in Nat /\ o \in Nat /\ at \in Nat /\ o <= n /\ (n + 1) - o = at + 1
      /\ n + 1 <= KEYBOARD_COMMAND_BUFFER_LENGTH /\ KEYBOARD_COMMAND_BUFFER_LENGTH \in Nat
    BY ShellAssumption DEF LineOK, Editing
<1>2. /\ Sequence(p) /\ Len(p) = at /\ \A i \in 1 .. at : p[i] = b[i - 1]
      /\ Sequence(q) /\ Len(q) = o /\ \A i \in 1 .. o : q[i] = b[at + (i - 1)]
    BY TextElements
<1>3. /\ Sequence(x) /\ Len(x) = (n + 1) - o /\ \A i \in 1 .. (n + 1) - o : x[i] = d[i - 1]
      /\ Sequence(y) /\ Len(y) = o /\ \A i \in 1 .. o : y[i] = d[((n + 1) - o) + (i - 1)]
    BY TextElements
<1>6. ASSUME NEW i \in Positions
      PROVE  /\ i = at => d[i] = c
             /\ i \in at + 1 .. n => d[i] = b[i - 1]
             /\ i < at => d[i] = b[i]
    OBVIOUS
<1> HIDE DEF p, q, x, y, at, n, o, b
<1>5. /\ Sequence(x) /\ Len(x) = at + 1 /\ \A i \in 1 .. at + 1 : x[i] = d[i - 1]
      /\ Sequence(y) /\ Len(y) = o /\ \A i \in 1 .. o : y[i] = d[(at + 1) + (i - 1)]
    BY <1>1, <1>3
<1>7. x = Append(p, c)
  <2> DEFINE z == Append(p, c)
  <2>1. Sequence(z) /\ Len(z) = at + 1 /\ (\A i \in 1 .. at : z[i] = p[i]) /\ z[at + 1] = c
    BY <1>2, AppendElements
  <2> HIDE DEF z
  <2>2. ASSUME NEW i \in 1 .. at + 1 PROVE x[i] = z[i]
    <3>1. CASE i = at + 1
      <4>1. i - 1 = at /\ at \in Positions
        BY <1>1, <3>1 DEF Positions
      <4>2. d[at] = c
        BY <1>6, <4>1
      <4> QED
        BY <1>5, <2>1, <3>1, <4>1, <4>2
    <3>2. CASE i # at + 1
      <4>1. i \in 1 .. at /\ i - 1 \in Positions /\ i - 1 < at
        BY <1>1, <3>2 DEF Positions
      <4>2. d[i - 1] = b[i - 1]
        BY <1>6, <4>1
      <4> QED
        BY <1>2, <1>5, <2>1, <4>1, <4>2
    <3> QED
      BY <3>1, <3>2
  <2>3. x = z
    BY <1>5, <2>1, <2>2, SequenceEqual
  <2> QED
    BY <2>3 DEF z
<1>8. y = q
  <2>1. ASSUME NEW i \in 1 .. o PROVE y[i] = q[i]
    <3> DEFINE k == (at + 1) + (i - 1)
    <3>1. k \in Positions /\ k \in at + 1 .. n /\ k - 1 = at + (i - 1)
      BY <1>1 DEF Positions, at
    <3>2. y[i] = d[k]
      BY <1>5
    <3> HIDE DEF k
    <3>3. d[k] = b[k - 1]
      BY <1>6, <3>1
    <3> QED
      BY <1>2, <3>1, <3>2, <3>3
  <2> QED
    BY <1>2, <1>5, <2>1, SequenceEqual
<1> QED
    BY <1>7, <1>8 DEF Edits, p, q, x, y

\* Enter, whether a process was forked for the line or not.
LEMMA EnterEdits ==
    ASSUME NEW s, LineOK(s), ~ Waits(s), NEW t, LineOK(t),
           Waits(t) \/ (t.cursor_end_offset = 0 /\ t.keyboard_command_length = 0),
           t.prev_keyboard_command_length = s.keyboard_command_length,
           t.prev_keyboard_command_buffer = s.keyboard_command_buffer
    PROVE  Edits(s, t)
<1>1. TextHistory(t) = TextBefore(s) \o TextAfter(s)
    BY WholeLine DEF TextHistory
<1>2. TextBefore(t) = <<>> /\ TextAfter(t) = <<>>
  <2>1. CASE Waits(t)
    BY <2>1 DEF TextBefore, TextAfter
  <2>2. CASE ~ Waits(t)
    <3>1. Sequence(TextBefore(t)) /\ Len(TextBefore(t)) = 0 - 0 /\ Sequence(TextAfter(t)) /\ Len(TextAfter(t)) = 0
      BY <2>2, TextElements
    <3> QED
      BY <3>1, NoElements
  <2> QED
    BY <2>1, <2>2
<1> QED
    BY <1>1, <1>2 DEF Edits

\* The prompt after a command: the text stays empty.
LEMMA PromptEditsNothing ==
    ASSUME NEW s, LineOK(s), Waits(s), NEW t, LineOK(t), ~ Waits(t),
           t.cursor_end_offset = 0, t.keyboard_command_length = 0,
           TextHistory(t) = TextHistory(s)
    PROVE  Edits(s, t)
<1>1. TextBefore(t) = <<>> /\ TextAfter(t) = <<>>
  <2>1. Sequence(TextBefore(t)) /\ Len(TextBefore(t)) = 0 - 0 /\ Sequence(TextAfter(t)) /\ Len(TextAfter(t)) = 0
    BY TextElements
  <2> QED
    BY <2>1, NoElements
<1>2. TextBefore(s) = <<>> /\ TextAfter(s) = <<>>
    BY DEF TextBefore, TextAfter
<1> QED
    BY <1>1, <1>2 DEF Edits

\* How far the shell is in an escape sequence: 0 outside, 1 behind ESC.
Phase(s) == IF s.pc = "escape" THEN 1 + Len(s.arrow_code) ELSE 0

\* The characters of the line and of the one before; while a command runs they
\* are the same.
Weight(s) ==
    IF Waits(s) THEN s.prev_keyboard_command_length
    ELSE s.keyboard_command_length + s.prev_keyboard_command_length

\* Terminal v, found as d, has the same ring, and its cursor on the screen.
Leaves(v, d) == \E e : vt' = [vt EXCEPT ![v] = e] /\ Device(e) /\ SameRing(d, e) /\ ScreenOK(e)

Effect(v, d, t) == shell' = [shell EXCEPT ![v] = t] /\ Leaves(v, d) /\ DOMAIN framebuffer' = Cells

\* The shell s of terminal v is back at its first read, or waits; its lines
\* have at most w characters more.
Becomes(v, d, s, w) ==
    \E t : Effect(v, d, t) /\ LineOK(t) /\ Phase(t) = 0 /\ Weight(t) <= Weight(s) + w /\ Edits(s, t)

\* The lengths are natural numbers, and the line is not longer than both.
LEMMA WeightValue ==
    ASSUME NEW s, LineOK(s)
    PROVE  Weight(s) \in Nat /\ s.keyboard_command_length \in Nat /\ s.keyboard_command_length <= Weight(s)
           /\ Phase(s) \in 0 .. 2
<1>1. Len(s.arrow_code) \in Nat /\ Len(s.arrow_code) < 2
    BY SequenceDomain DEF LineOK, Editing
<1>2. Phase(s) \in 0 .. 2
    BY <1>1 DEF Phase
<1>3. s.keyboard_command_length \in Nat /\ s.prev_keyboard_command_length \in Nat
      /\ (Waits(s) => s.keyboard_command_length = s.prev_keyboard_command_length)
    BY DEF LineOK, Editing
<1>4. CASE Waits(s)
    BY <1>2, <1>3, <1>4 DEF Weight
<1>5. CASE ~ Waits(s)
    BY <1>2, <1>3, <1>5 DEF Weight
<1> QED
    BY <1>4, <1>5

\* Writing leaves the ring alone.
LEMMA WriteLeaves ==
    ASSUME NEW v, NEW d, Device(d), ScreenOK(d), DOMAIN framebuffer = Cells,
           NEW bytes, Sequence(bytes), vt_write(v, d, bytes)
    PROVE  Leaves(v, d) /\ DOMAIN framebuffer' = Cells
<1> DEFINE f == FoldLeft(PutChar, d, bytes)
           e == [f EXCEPT !.repaint_flags = {}]
<1>1. Draws(d, f) /\ ScreenOK(f)
    BY SequenceDomain, WriteDraws, WriteFits
<1>2. \/ vt' = [vt EXCEPT ![v] = e] /\ framebuffer' = vt_repaint_terminal(v, f, framebuffer)
      \/ vt' = [vt EXCEPT ![v] = f] /\ framebuffer' = framebuffer
    BY DEF vt_write
<1> HIDE DEF f
<1>3. Device(f) /\ SameRing(d, f)
    BY <1>1 DEF Draws
<1>4. Device(e) /\ SameRing(d, e) /\ ScreenOK(e)
  <2>1. /\ DOMAIN e = DOMAIN f /\ e.escape_state = f.escape_state /\ SameRing(f, e)
        /\ e.repaint_flags = {} /\ e.terminal_buffer = f.terminal_buffer
        /\ e.cursor_row = f.cursor_row /\ e.cursor_column = f.cursor_column
    BY <1>3 DEF Device, DeviceFields, SameRing
  <2> HIDE DEF e
  <2> QED
    BY <1>1, <1>3, <2>1 DEF Device, SameRing, ScreenOK
<1> HIDE DEF e
<1>5. Leaves(v, d)
    BY <1>1, <1>2, <1>3, <1>4 DEF Leaves
<1>6. DOMAIN framebuffer' = Cells
    BY <1>2 DEF vt_repaint_terminal
<1> QED
    BY <1>5, <1>6

\* The line is drawn again, or what was read is swallowed.
LEMMA RedrawEffect ==
    ASSUME NEW v, NEW d, Device(d), ScreenOK(d), DOMAIN framebuffer = Cells, NEW s, Editing(s),
           Redraw(v, d, s) \/ Swallow(v, d, s)
    PROVE  Effect(v, d, [s EXCEPT !.pc = "read"])
<1> DEFINE t == [s EXCEPT !.pc = "read"]
           bytes == rewrite_command_line(s.keyboard_command_buffer, s.keyboard_command_length,
                                         s.cursor_end_offset)
<1>1. shell' = [shell EXCEPT ![v] = t]
    BY DEF Redraw, Swallow
<1>2. Sequence(bytes)
    BY LineSequence DEF Editing
<1>3. vt_write(v, d, bytes) \/ (vt' = [vt EXCEPT ![v] = d] /\ framebuffer' = framebuffer)
    BY DEF Redraw, Swallow
<1> HIDE DEF bytes, t
<1>4. Leaves(v, d) /\ DOMAIN framebuffer' = Cells
  <2>1. CASE vt_write(v, d, bytes)
    BY <1>2, <2>1, WriteLeaves
  <2>2. CASE vt' = [vt EXCEPT ![v] = d] /\ framebuffer' = framebuffer
    BY <2>2 DEF Leaves, SameRing
  <2> QED
    BY <1>3, <2>1, <2>2
<1>5. Effect(v, d, t)
    BY <1>1, <1>4 DEF Effect
<1> QED
    BY <1>5 DEF t

\* Swallowing changes no text.
LEMMA SwallowBecomes ==
    ASSUME NEW v, NEW d, Device(d), ScreenOK(d), DOMAIN framebuffer = Cells,
           NEW s, LineOK(s), ~ Waits(s), Redraw(v, d, s) \/ Swallow(v, d, s)
    PROVE  Becomes(v, d, s, 0)
<1> DEFINE t == [s EXCEPT !.pc = "read"]
<1>1. Effect(v, d, t)
    BY RedrawEffect DEF LineOK
<1>2. /\ DOMAIN t = DOMAIN s /\ t.pc = "read" /\ t.arrow_code = s.arrow_code
      /\ t.cursor_end_offset = s.cursor_end_offset
      /\ t.keyboard_command_length = s.keyboard_command_length
      /\ t.keyboard_command_buffer = s.keyboard_command_buffer
      /\ t.prev_keyboard_command_length = s.prev_keyboard_command_length
      /\ t.prev_keyboard_command_buffer = s.prev_keyboard_command_buffer
    BY DEF LineOK, Editing, ShellFields
<1> HIDE DEF t
<1>3. ~ Waits(t) /\ Phase(t) = 0
    BY <1>2 DEF Waits, Phase
<1>4. LineOK(t)
    BY <1>2, <1>3 DEF LineOK, Editing
<1>5. Edits(s, t)
  <2>1. TextBefore(t) = TextBefore(s) /\ TextAfter(t) = TextAfter(s)
    BY <1>2, <1>3, SameLocals
  <2>2. TextHistory(t) = TextHistory(s)
    BY <1>2, SameHistory
  <2> QED
    BY <2>1, <2>2 DEF Edits
<1>6. Weight(t) = Weight(s)
    BY <1>2, <1>3 DEF Weight
<1>7. Weight(t) <= Weight(s) + 0
    BY <1>4, <1>6, WeightValue
<1> QED
    BY <1>1, <1>3, <1>4, <1>5, <1>7 DEF Becomes

\* The erase key takes a character from the line.
LEMMA EraseBecomes ==
    ASSUME NEW v, NEW d, Device(d), ScreenOK(d), DOMAIN framebuffer = Cells,
           NEW s, LineOK(s), ~ Waits(s), s.keyboard_command_length <= KEYBOARD_COMMAND_BUFFER_LENGTH,
           EraseKey(v, d, s)
    PROVE  Becomes(v, d, s, 0)
<1>1. CASE ~ (s.keyboard_command_length > s.cursor_end_offset)
    BY <1>1, SwallowBecomes DEF EraseKey
<1>2. CASE s.keyboard_command_length > s.cursor_end_offset
  <2> DEFINE n == s.keyboard_command_length - 1
             b == CloseGap(s.keyboard_command_buffer, n - s.cursor_end_offset, n)
             u == [s EXCEPT !.keyboard_command_length = n, !.keyboard_command_buffer = b]
             t == [u EXCEPT !.pc = "read"]
  <2>1. Redraw(v, d, u)
    BY <1>2 DEF EraseKey
  <2>2. n \in Nat /\ s.cursor_end_offset <= n /\ DOMAIN b = Positions /\ n <= s.keyboard_command_length
    BY <1>2 DEF LineOK, Editing, CloseGap
  <2> HIDE DEF b, n
  <2>3. Editing(u)
    BY <2>2 DEF LineOK, Editing, ShellFields
  <2>4. /\ DOMAIN t = DOMAIN s /\ t.pc = "read" /\ t.arrow_code = s.arrow_code
        /\ t.cursor_end_offset = s.cursor_end_offset
        /\ t.keyboard_command_length = n
        /\ t.keyboard_command_buffer = b
        /\ t.prev_keyboard_command_length = s.prev_keyboard_command_length
        /\ t.prev_keyboard_command_buffer = s.prev_keyboard_command_buffer
    BY DEF LineOK, Editing, ShellFields
  <2> HIDE DEF u
  <2>5. Effect(v, d, t)
    BY <2>1, <2>3, RedrawEffect
  <2> HIDE DEF t
  <2>6. ~ Waits(t) /\ Phase(t) = 0
    BY <2>4 DEF Waits, Phase
  <2>7. LineOK(t)
    BY <2>2, <2>4, <2>6 DEF LineOK, Editing
  <2>8. Edits(s, t)
    BY <1>2, <2>4, <2>6, <2>7, EraseEdits, SameHistory DEF n, b
  <2>9. Weight(t) <= Weight(s) + 0
    BY <2>2, <2>4, <2>6 DEF Weight, LineOK, Editing
  <2> QED
    BY <2>5, <2>6, <2>7, <2>8, <2>9 DEF Becomes
<1> QED
    BY <1>1, <1>2

\* An arrow to the side moves the cursor.
LEMMA SideBecomes ==
    ASSUME NEW v, NEW d, Device(d), ScreenOK(d), DOMAIN framebuffer = Cells,
           NEW s, LineOK(s), ~ Waits(s), NEW o \in Nat, Redraw(v, d, [s EXCEPT !.cursor_end_offset = o]),
           \/ s.cursor_end_offset > 0 /\ o = s.cursor_end_offset - 1
           \/ s.cursor_end_offset < s.keyboard_command_length /\ o = s.cursor_end_offset + 1
    PROVE  Becomes(v, d, s, 0)
<1> DEFINE u == [s EXCEPT !.cursor_end_offset = o]
           t == [u EXCEPT !.pc = "read"]
<1>1. o <= s.keyboard_command_length
    BY DEF LineOK, Editing
<1>2. Editing(u)
    BY DEF LineOK, Editing, ShellFields
<1>3. /\ DOMAIN t = DOMAIN s /\ t.pc = "read" /\ t.arrow_code = s.arrow_code
      /\ t.cursor_end_offset = o
      /\ t.keyboard_command_length = s.keyboard_command_length
      /\ t.keyboard_command_buffer = s.keyboard_command_buffer
      /\ t.prev_keyboard_command_length = s.prev_keyboard_command_length
      /\ t.prev_keyboard_command_buffer = s.prev_keyboard_command_buffer
    BY DEF LineOK, Editing, ShellFields
<1>4. Redraw(v, d, u)
    OBVIOUS
<1> HIDE DEF u
<1>5. Effect(v, d, t)
    BY <1>2, <1>4, RedrawEffect
<1> HIDE DEF t
<1>6. ~ Waits(t) /\ Phase(t) = 0
    BY <1>3 DEF Waits, Phase
<1>7. LineOK(t)
    BY <1>1, <1>3, <1>6 DEF LineOK, Editing
<1>8. TextHistory(t) = TextHistory(s)
    BY <1>3, SameHistory
<1>9. Edits(s, t)
    BY <1>3, <1>6, <1>7, <1>8, RightEdits, LeftEdits
<1>10. Weight(t) = Weight(s)
    BY <1>3, <1>6 DEF Weight
<1>11. Weight(t) <= Weight(s) + 0
    BY <1>7, <1>10, WeightValue
<1> QED
    BY <1>5, <1>6, <1>7, <1>9, <1>11 DEF Becomes

\* The arrow keys.
LEMMA ArrowBecomes ==
    ASSUME NEW v, NEW d, Device(d), ScreenOK(d), DOMAIN framebuffer = Cells,
           NEW s, LineOK(s), ~ Waits(s),
           ArrowUp(v, d, s) \/ ArrowRight(v, d, s) \/ ArrowLeft(v, d, s) \/ Swallow(v, d, s)
    PROVE  Becomes(v, d, s, 0)
<1>1. CASE ArrowUp(v, d, s)
  <2> DEFINE u == [s EXCEPT !.cursor_end_offset = 0,
                            !.keyboard_command_length = s.prev_keyboard_command_length,
                            !.keyboard_command_buffer = s.prev_keyboard_command_buffer,
                            !.prev_keyboard_command_length = s.keyboard_command_length,
                            !.prev_keyboard_command_buffer = s.keyboard_command_buffer]
             t == [u EXCEPT !.pc = "read"]
  <2>1. Redraw(v, d, u)
    BY <1>1 DEF ArrowUp
  <2>2. Editing(u)
    BY DEF LineOK, Editing, ShellFields
  <2>3. /\ DOMAIN t = DOMAIN s /\ t.pc = "read" /\ t.arrow_code = s.arrow_code
        /\ t.cursor_end_offset = 0
        /\ t.keyboard_command_length = s.prev_keyboard_command_length
        /\ t.keyboard_command_buffer = s.prev_keyboard_command_buffer
        /\ t.prev_keyboard_command_length = s.keyboard_command_length
        /\ t.prev_keyboard_command_buffer = s.keyboard_command_buffer
    BY DEF LineOK, Editing, ShellFields
  <2> HIDE DEF u
  <2>4. Effect(v, d, t)
    BY <2>1, <2>2, RedrawEffect
  <2> HIDE DEF t
  <2>5. ~ Waits(t) /\ Phase(t) = 0
    BY <2>3 DEF Waits, Phase
  <2>6. LineOK(t)
    BY <2>3, <2>5 DEF LineOK, Editing
  <2>7. Edits(s, t)
    BY <2>3, <2>5, <2>6, UpEdits
  <2>8. Weight(t) <= Weight(s) + 0
    BY <2>3, <2>5 DEF Weight, LineOK, Editing
  <2> QED
    BY <2>4, <2>5, <2>6, <2>7, <2>8 DEF Becomes
<1>2. CASE ArrowRight(v, d, s) /\ s.cursor_end_offset > 0
  <2>1. s.cursor_end_offset - 1 \in Nat
    BY <1>2 DEF LineOK, Editing
  <2>2. Redraw(v, d, [s EXCEPT !.cursor_end_offset = s.cursor_end_offset - 1])
    BY <1>2 DEF ArrowRight
  <2> QED
    BY <1>2, <2>1, <2>2, SideBecomes
<1>3. CASE ArrowLeft(v, d, s) /\ s.cursor_end_offset < s.keyboard_command_length
  <2>1. s.cursor_end_offset + 1 \in Nat
    BY DEF LineOK, Editing
  <2>2. Redraw(v, d, [s EXCEPT !.cursor_end_offset = s.cursor_end_offset + 1])
    BY <1>3 DEF ArrowLeft
  <2> QED
    BY <1>3, <2>1, <2>2, SideBecomes
<1>4. CASE Swallow(v, d, s)
    BY <1>4, SwallowBecomes
<1> QED
    BY <1>1, <1>2, <1>3, <1>4 DEF ArrowRight, ArrowLeft

\* A typed character makes the line one longer.
LEMMA TypeBecomes ==
    ASSUME NEW v, NEW d, Device(d), ScreenOK(d), DOMAIN framebuffer = Cells,
           NEW s, LineOK(s), s.pc = "read", NEW c \in TypedChars,
           s.keyboard_command_length + 1 <= KEYBOARD_COMMAND_BUFFER_LENGTH,
           TypeKey(v, d, s, c)
    PROVE  Becomes(v, d, s, 1)
<1> DEFINE n == s.keyboard_command_length
           at == n - s.cursor_end_offset
           b == [i \in Positions |-> CASE i = at -> c
                                       [] i \in at + 1 .. n -> s.keyboard_command_buffer[i - 1]
                                       [] OTHER -> s.keyboard_command_buffer[i]]
           u == [s EXCEPT !.keyboard_command_length = n + 1, !.keyboard_command_buffer = b]
           t == [u EXCEPT !.pc = "read"]
<1>1. Insert(s, c) = u
    BY DEF Insert
<1>2. n \in Nat /\ at \in Nat /\ n + 1 \in Nat /\ s.cursor_end_offset <= n
    BY DEF LineOK, Editing
<1>3. ~ Waits(s)
    BY DEF Waits
<1>4. DOMAIN b = Positions
    OBVIOUS
<1>5. ASSUME NEW i \in Positions
      PROVE  /\ i = at => b[i] = c
             /\ i \in at + 1 .. n => b[i] = s.keyboard_command_buffer[i - 1]
             /\ i < at => b[i] = s.keyboard_command_buffer[i]
  <2>1. b[i] = CASE i = at -> c
                 [] i \in at + 1 .. n -> s.keyboard_command_buffer[i - 1]
                 [] OTHER -> s.keyboard_command_buffer[i]
    OBVIOUS
  <2> HIDE DEF b
  <2>2. i \in at + 1 .. n => i # at
    BY <1>2
  <2>3. i < at => i # at /\ i \notin at + 1 .. n
    BY <1>2
  <2> HIDE DEF at
  <2> QED
    BY <2>1, <2>2, <2>3
<1> HIDE DEF b
<1>6. Editing(u)
    BY <1>2 DEF LineOK, Editing, ShellFields
<1>7. /\ DOMAIN t = DOMAIN s /\ t.pc = "read" /\ t.arrow_code = s.arrow_code
      /\ t.cursor_end_offset = s.cursor_end_offset
      /\ t.keyboard_command_length = n + 1
      /\ t.keyboard_command_buffer = b
      /\ t.prev_keyboard_command_length = s.prev_keyboard_command_length
      /\ t.prev_keyboard_command_buffer = s.prev_keyboard_command_buffer
    BY DEF LineOK, Editing, ShellFields
<1>8. u = t
  <2>1. u.pc = "read"
    BY DEF LineOK, Editing, ShellFields
  <2>2. u = [x \in DOMAIN s |-> u[x]]
    OBVIOUS
  <2> HIDE DEF u
  <2> QED
    BY <2>1, <2>2
<1> HIDE DEF u
<1>9. Effect(v, d, t)
  <2>1. CASE s.cursor_end_offset > 0
    <3>1. Redraw(v, d, u)
      BY <1>1, <2>1 DEF TypeKey
    <3> QED
      BY <1>6, <3>1, RedrawEffect
  <2>2. CASE ~ (s.cursor_end_offset > 0)
    <3>1. vt_write(v, d, <<c>>) /\ shell' = [shell EXCEPT ![v] = u]
      BY <1>1, <2>2 DEF TypeKey
    <3>2. Sequence(<<c>>)
      BY MessagesAreSequences
    <3> DEFINE one == <<c>>
    <3> HIDE DEF one
    <3>3. vt_write(v, d, one) /\ Sequence(one)
      BY <3>1, <3>2 DEF one
    <3>4. Leaves(v, d) /\ DOMAIN framebuffer' = Cells
      BY <3>3, WriteLeaves
    <3> HIDE DEF t
    <3> QED
      BY <1>8, <3>1, <3>4 DEF Effect
  <2> QED
    BY <2>1, <2>2
<1> HIDE DEF t
<1>10. ~ Waits(t) /\ Phase(t) = 0
    BY <1>7 DEF Waits, Phase
<1>11. LineOK(t)
    BY <1>2, <1>4, <1>7, <1>10 DEF LineOK, Editing
<1>12. TextHistory(t) = TextHistory(s)
    BY <1>7, SameHistory
<1>13. Edits(s, t)
    BY <1>3, <1>5, <1>7, <1>10, <1>11, <1>12, InsertEdits
<1>14. Weight(t) <= Weight(s) + 1
    BY <1>2, <1>3, <1>7, <1>10 DEF Weight, LineOK, Editing
<1> QED
    BY <1>9, <1>10, <1>11, <1>13, <1>14 DEF Becomes

\* Enter: the line becomes the one before.
LEMMA EnterBecomes ==
    ASSUME EnterAtEnd, NEW v, NEW d, Device(d), ScreenOK(d), DOMAIN framebuffer = Cells,
           NEW s, LineOK(s), ~ Waits(s), EnterKey(v, d, s)
    PROVE  Becomes(v, d, s, 0)
<1> DEFINE line == LineOf(s.keyboard_command_buffer, s.keyboard_command_length)
           w == [s EXCEPT !.prev_keyboard_command_buffer = s.keyboard_command_buffer,
                          !.prev_keyboard_command_length = s.keyboard_command_length]
           kind == ExecKind(line)
           text == CASE kind = "syntax error" -> ERROR_MESSAGE \o command_prompt
                     [] kind = "no-op" -> command_prompt
                     [] kind = "word too long" -> ERROR_MESSAGE
                     [] kind \in {"exit", "fork"} -> <<>>
           t == CASE kind \in {"exit", "word too long"} -> [w EXCEPT !.pc = "exited"]
                  [] kind = "fork" -> [w EXCEPT !.pc = "waitpid"]
                  [] OTHER -> Prompt(w)
           bytes == <<NL>> \o text
<1>1. vt_write(v, d, bytes) /\ shell' = [shell EXCEPT ![v] = t] /\ s.cursor_end_offset = 0
    BY DEF EnterKey
<1>2. Sequence(bytes)
  <2>1. kind \in {"syntax error", "no-op", "word too long", "exit", "fork"}
    BY Kinds
  <2> HIDE DEF kind
  <2>2. Sequence(text)
    BY <2>1, MessagesAreSequences, SequenceConcat
  <2> HIDE DEF text
  <2> QED
    BY <2>2, MessagesAreSequences, SequenceConcat
<1> HIDE DEF bytes
<1>3. /\ DOMAIN w = DOMAIN s /\ w.arrow_code = s.arrow_code /\ w.cursor_end_offset = 0
      /\ w.keyboard_command_length = s.keyboard_command_length
      /\ w.keyboard_command_buffer = s.keyboard_command_buffer
      /\ w.prev_keyboard_command_length = s.keyboard_command_length
      /\ w.prev_keyboard_command_buffer = s.keyboard_command_buffer
    BY <1>1 DEF LineOK, Editing, ShellFields
<1>4. /\ DOMAIN t = DOMAIN s /\ t.arrow_code = s.arrow_code /\ t.cursor_end_offset = 0
      /\ t.prev_keyboard_command_length = s.keyboard_command_length
      /\ t.prev_keyboard_command_buffer = s.keyboard_command_buffer
      /\ \/ /\ t.pc \in {"exited", "waitpid"}
            /\ t.keyboard_command_length = s.keyboard_command_length
            /\ t.keyboard_command_buffer = s.keyboard_command_buffer
         \/ /\ t.pc = "read" /\ t.keyboard_command_length = 0 /\ t.keyboard_command_buffer = Empty
  <2>1. ShellFields \subseteq DOMAIN w
    BY <1>3 DEF LineOK, Editing
  <2>2. t \in {[w EXCEPT !.pc = "exited"], [w EXCEPT !.pc = "waitpid"], Prompt(w)}
    BY DEF t
  <2> HIDE DEF w, t
  <2>3. CASE t = [w EXCEPT !.pc = "exited"]
    BY <1>3, <2>1, <2>3 DEF ShellFields
  <2>4. CASE t = [w EXCEPT !.pc = "waitpid"]
    BY <1>3, <2>1, <2>4 DEF ShellFields
  <2>5. CASE t = Prompt(w)
    BY <1>3, <2>1, <2>5 DEF ShellFields, Prompt
  <2> QED
    BY <2>2, <2>3, <2>4, <2>5
<1> HIDE DEF t
<1>5. Effect(v, d, t)
    BY <1>1, <1>2, WriteLeaves DEF Effect
<1>6. DOMAIN Empty = Positions
    BY DEF Empty
<1>7. Phase(t) = 0 /\ (Waits(t) <=> t.pc # "read")
    BY <1>4 DEF Phase, Waits
<1>8. LineOK(t)
  <2>1. Editing(t)
    BY <1>4 DEF LineOK, Editing
  <2>2. t.pc \in {"none", "start", "read", "escape", "waitpid", "exited"}
        /\ DOMAIN t.keyboard_command_buffer = Positions
        /\ DOMAIN t.prev_keyboard_command_buffer = Positions
        /\ t.cursor_end_offset <= t.keyboard_command_length
    BY <1>4, <1>6 DEF LineOK, Editing
  <2>3. Waits(t) => t.cursor_end_offset = 0 /\ t.keyboard_command_length = t.prev_keyboard_command_length
    BY <1>4, <1>7
  <2> QED
    BY <2>1, <2>2, <2>3 DEF LineOK
<1>9. Edits(s, t)
    BY <1>4, <1>7, <1>8, EnterEdits
<1>10. Weight(t) <= Weight(s) + 0
    BY <1>4, <1>7 DEF Weight, LineOK, Editing
<1> QED
    BY <1>5, <1>7, <1>8, <1>9, <1>10 DEF Becomes

-----------------------------------------------------------------------------
(* How long a line can become.                                             *)

\* Where a character takes a shell in an escape sequence, and whether it is
\* typed.
NextPhase(q, c) == CASE q = 0 -> (IF c = ESC THEN 1 ELSE 0)
                     [] q = 1 -> 2
                     [] OTHER -> 0

Typed(q, c) == IF q = 0 /\ c \notin {ESC, ERASE, NL} THEN 1 ELSE 0

\* A sequence that is one character short was begun by a key that typed
\* nothing.
Credit(q) == IF q = 2 THEN 1 ELSE 0

\* What waits for a shell takes it through the phases q and types what k
\* counts, never more than n.
Parsing(d, q, k, n) ==
    /\ \A i \in 0 .. Waiting(d) : q[i] \in 0 .. 2 /\ k[i] \in Nat /\ k[i] + Credit(q[i]) <= n
    /\ \A i \in 1 .. Waiting(d) : /\ q[i] = NextPhase(q[i - 1], Input(d)[i])
                                  /\ k[i] = k[i - 1] + Typed(q[i - 1], Input(d)[i])

\* The lines of shell s are not longer than n, and will not be when it has read
\* all that waits.
Budget(d, s, n) == \E q, k : Parsing(d, q, k, n) /\ q[0] = Phase(s) /\ Weight(s) <= k[0]

\* What a keyboard can send.
InputChars == TypedChars \cup {ESC, ERASE, NL}

CharsOK(d) == \A i \in 1 .. Waiting(d) : Input(d)[i] \in InputChars

\* e is d with n characters taken from the front, perhaps drawn on.
Took(d, e, n) ==
    /\ n \in 0 .. Waiting(d) /\ Device(e) /\ RingOK(e) /\ ScreenOK(e)
    /\ Waiting(e) = Waiting(d) - n
    /\ \A i \in 1 .. Waiting(e) : Input(e)[i] = Input(d)[i + n]

\* Phases are phases.
LEMMA PhaseValues ==
    ASSUME NEW q \in 0 .. 2, NEW c
    PROVE  NextPhase(q, c) \in 0 .. 2 /\ Typed(q, c) \in 0 .. 1 /\ Credit(q) \in 0 .. 1
    BY DEF NextPhase, Typed, Credit

\* The lines fit the budget; so does a character more, when one is typed.
LEMMA BudgetBounds ==
    ASSUME NEW d, RingOK(d), NEW s, LineOK(s), NEW n \in Nat, Budget(d, s, n)
    PROVE  /\ Weight(s) <= n
           /\ Waiting(d) > 0 /\ Phase(s) = 0 /\ Input(d)[1] \notin {ESC, ERASE, NL} => Weight(s) + 1 <= n
<1>1. PICK q, k : Parsing(d, q, k, n) /\ q[0] = Phase(s) /\ Weight(s) <= k[0]
    BY DEF Budget
<1>2. Waiting(d) \in Nat /\ Weight(s) \in Nat
    BY InputSequence, WeightValue
<1>3. q[0] \in 0 .. 2 /\ k[0] \in Nat /\ k[0] + Credit(q[0]) <= n
  <2>1. 0 \in 0 .. Waiting(d)
    BY <1>2
  <2> QED
    BY <1>1, <2>1 DEF Parsing
<1>4. Weight(s) <= n
    BY <1>1, <1>2, <1>3 DEF Credit
<1>5. ASSUME Waiting(d) > 0, Phase(s) = 0, Input(d)[1] \notin {ESC, ERASE, NL}
      PROVE  Weight(s) + 1 <= n
  <2>1. 1 \in 0 .. Waiting(d) /\ 1 \in 1 .. Waiting(d) /\ 1 - 1 = 0
    BY <1>2, <1>5
  <2>2. q[1] \in 0 .. 2 /\ k[1] \in Nat /\ k[1] + Credit(q[1]) <= n
    BY <1>1, <2>1 DEF Parsing
  <2>3. k[1] = k[1 - 1] + Typed(q[1 - 1], Input(d)[1])
    BY <1>1, <2>1 DEF Parsing
  <2>4. k[1] = k[0] + 1
    BY <1>1, <1>5, <2>3 DEF Typed
  <2> QED
    BY <1>1, <1>2, <1>3, <2>2, <2>4 DEF Credit
<1> QED
    BY <1>4, <1>5

\* The rest of the characters takes the shell on from there.
LEMMA ParsingRest ==
    ASSUME NEW d, RingOK(d), NEW e, NEW m, Took(d, e, m), NEW q, NEW k, NEW n \in Nat, Parsing(d, q, k, n)
    PROVE  \E r, l : Parsing(e, r, l, n) /\ r[0] = q[m] /\ l[0] = k[m]
<1> DEFINE r == [i \in 0 .. Waiting(e) |-> q[i + m]]
           l == [i \in 0 .. Waiting(e) |-> k[i + m]]
<1>1. /\ Waiting(d) \in Nat /\ m \in 0 .. Waiting(d) /\ Waiting(e) = Waiting(d) - m
      /\ \A i \in 1 .. Waiting(e) : Input(e)[i] = Input(d)[i + m]
    BY InputSequence DEF Took
<1>2. 0 \in 0 .. Waiting(e) /\ 0 + m = m
    BY <1>1
<1>3. r[0] = q[m] /\ l[0] = k[m]
    BY <1>2
<1>4. ASSUME NEW i \in 0 .. Waiting(e)
      PROVE  r[i] \in 0 .. 2 /\ l[i] \in Nat /\ l[i] + Credit(r[i]) <= n
  <2>1. i + m \in 0 .. Waiting(d)
    BY <1>1
  <2>2. r[i] = q[i + m] /\ l[i] = k[i + m]
    OBVIOUS
  <2> HIDE DEF r, l
  <2> QED
    BY <2>1, <2>2 DEF Parsing
<1>5. ASSUME NEW i \in 1 .. Waiting(e)
      PROVE  /\ r[i] = NextPhase(r[i - 1], Input(e)[i])
             /\ l[i] = l[i - 1] + Typed(r[i - 1], Input(e)[i])
  <2>1. i + m \in 1 .. Waiting(d) /\ i \in 0 .. Waiting(e) /\ i - 1 \in 0 .. Waiting(e) /\ (i - 1) + m = (i + m) - 1
    BY <1>1
  <2>2. r[i] = q[i + m] /\ l[i] = k[i + m] /\ r[i - 1] = q[(i + m) - 1] /\ l[i - 1] = k[(i + m) - 1]
    BY <2>1
  <2>3. Input(e)[i] = Input(d)[i + m]
    BY <1>1
  <2> HIDE DEF r, l
  <2>4. /\ q[i + m] = NextPhase(q[(i + m) - 1], Input(d)[i + m])
        /\ k[i + m] = k[(i + m) - 1] + Typed(q[(i + m) - 1], Input(d)[i + m])
    BY <2>1 DEF Parsing
  <2> QED
    BY <2>2, <2>3, <2>4
<1> HIDE DEF r, l
<1>6. Parsing(e, r, l, n)
    BY <1>4, <1>5 DEF Parsing
<1> QED
    BY <1>3, <1>6

\* A shell that reads keeps to its budget.
LEMMA BudgetRead ==
    ASSUME NEW d, RingOK(d), NEW s, LineOK(s), NEW n \in Nat, Budget(d, s, n),
           NEW e, NEW m, Took(d, e, m), NEW t, LineOK(t),
           \/ m = 0 /\ Phase(t) = Phase(s) /\ Weight(t) <= Weight(s)
           \/ /\ m = 1 /\ Phase(t) = NextPhase(Phase(s), Input(d)[1])
              /\ Weight(t) <= Weight(s) + Typed(Phase(s), Input(d)[1])
           \/ m = 2 /\ Phase(s) = 1 /\ Phase(t) = 0 /\ Weight(t) <= Weight(s)
    PROVE  Budget(e, t, n)
<1>1. PICK q, k : Parsing(d, q, k, n) /\ q[0] = Phase(s) /\ Weight(s) <= k[0]
    BY DEF Budget
<1>2. PICK r, l : Parsing(e, r, l, n) /\ r[0] = q[m] /\ l[0] = k[m]
    BY <1>1, ParsingRest
<1>3. /\ Weight(s) \in Nat /\ Weight(t) \in Nat /\ Phase(s) \in 0 .. 2
      /\ Waiting(d) \in Nat /\ m \in 0 .. Waiting(d)
    BY InputSequence, WeightValue DEF Took
<1>4. ASSUME NEW i \in 0 .. Waiting(d) PROVE q[i] \in 0 .. 2 /\ k[i] \in Nat
    BY <1>1 DEF Parsing
<1>5. ASSUME NEW i \in 1 .. Waiting(d)
      PROVE  q[i] = NextPhase(q[i - 1], Input(d)[i]) /\ k[i] = k[i - 1] + Typed(q[i - 1], Input(d)[i])
    BY <1>1 DEF Parsing
<1>6. q[m] = Phase(t) /\ Weight(t) <= k[m]
  <2>1. k[0] \in Nat
    BY <1>3, <1>4
  <2>2. CASE m = 0
    BY <1>1, <1>3, <2>1, <2>2
  <2>3. CASE m = 1
    <3>1. 1 \in 1 .. Waiting(d) /\ 1 - 1 = 0
      BY <1>3, <2>3
    <3>2. q[1] = NextPhase(q[1 - 1], Input(d)[1]) /\ k[1] = k[1 - 1] + Typed(q[1 - 1], Input(d)[1])
      BY <1>5, <3>1
    <3>3. q[1] = NextPhase(Phase(s), Input(d)[1]) /\ k[1] = k[0] + Typed(Phase(s), Input(d)[1])
      BY <1>1, <3>1, <3>2
    <3>4. Typed(Phase(s), Input(d)[1]) \in 0 .. 1
      BY <1>3, PhaseValues
    <3> QED
      BY <1>1, <1>3, <2>1, <2>3, <3>3, <3>4
  <2>4. CASE m = 2
    <3>1. 1 \in 1 .. Waiting(d) /\ 2 \in 1 .. Waiting(d) /\ 1 - 1 = 0 /\ 2 - 1 = 1
      BY <1>3, <2>4
    <3>2. q[1] = NextPhase(q[1 - 1], Input(d)[1]) /\ k[1] = k[1 - 1] + Typed(q[1 - 1], Input(d)[1])
      BY <1>5, <3>1
    <3>3. q[1] = 2 /\ k[1] = k[0]
      BY <1>1, <2>1, <2>4, <3>1, <3>2 DEF NextPhase, Typed
    <3>4. q[2] = NextPhase(q[2 - 1], Input(d)[2]) /\ k[2] = k[2 - 1] + Typed(q[2 - 1], Input(d)[2])
      BY <1>5, <3>1
    <3>5. q[2] = 0 /\ k[2] = k[0]
      BY <2>1, <3>1, <3>3, <3>4 DEF NextPhase, Typed
    <3> QED
      BY <1>1, <1>3, <2>1, <2>4, <3>5
  <2> QED
    BY <2>2, <2>3, <2>4
<1> QED
    BY <1>2, <1>6 DEF Budget

\* What remains in the ring came from the keyboard too.
LEMMA TookChars ==
    ASSUME NEW d, RingOK(d), CharsOK(d), NEW e, NEW m, Took(d, e, m)
    PROVE  CharsOK(e)
<1> SUFFICES ASSUME NEW i \in 1 .. Waiting(e) PROVE Input(e)[i] \in InputChars
    BY DEF CharsOK
<1>1. Waiting(d) \in Nat /\ m \in 0 .. Waiting(d) /\ Waiting(e) = Waiting(d) - m
    BY InputSequence DEF Took
<1>2. i + m \in 1 .. Waiting(d) /\ Input(e)[i] = Input(d)[i + m]
    BY <1>1 DEF Took
<1> QED
    BY <1>2 DEF CharsOK

\* vt_read, when it returns something.
LEMMA ReadParts ==
    ASSUME NEW d, RingOK(d), NEW length \in Nat, vt_read(d, length).chars # <<>>
    PROVE  \E n \in 1 .. length :
              /\ n <= Waiting(d) /\ Taking(d, vt_read(d, length).left, n)
              /\ Sequence(vt_read(d, length).chars) /\ Len(vt_read(d, length).chars) = n
              /\ \A i \in 1 .. n : vt_read(d, length).chars[i] = Input(d)[i]
<1> DEFINE n == IF Waiting(d) < length THEN Waiting(d) ELSE length
           chars == SubSeq(Input(d), 1, n)
<1>1. Waiting(d) \in Nat /\ n \in Nat /\ n \in 0 .. Waiting(d) /\ n \in 0 .. length
    BY InputSequence
<1>2. /\ vt_read(d, length).chars = chars
      /\ vt_read(d, length).left = [d EXCEPT !.input_rb_head_idx = Ring(@ + n)]
    BY DEF vt_read
<1> HIDE DEF n
<1>3. Sequence(chars) /\ Len(chars) = n /\ \A i \in 1 .. n : chars[i] = Input(d)[i]
    BY <1>1, SequencePart
<1> HIDE DEF chars
<1>4. n # 0
    BY <1>2, <1>3, NoElements
<1>5. n \in 1 .. length /\ n <= Waiting(d)
    BY <1>1, <1>4
<1> QED
    BY <1>1, <1>2, <1>3, <1>5 DEF Taking

\* What a shell leaves of its ring.
LEMMA TakenFits ==
    ASSUME NEW d, Device(d), RingOK(d), ScreenOK(d), NEW n, NEW f, Taking(d, f, n)
    PROVE  Device(f) /\ RingOK(f) /\ ScreenOK(f)
<1>1. Device(f) /\ RingOK(f) /\ SameScreen(d, f)
    BY TakingRing
<1> QED
    BY <1>1 DEF SameScreen, ScreenOK

\* A shell that reads n characters and draws has taken n characters.
LEMMA TookLeaves ==
    ASSUME NEW v, NEW d, Device(d), RingOK(d), ScreenOK(d), NEW n, NEW f, Taking(d, f, n), Leaves(v, f)
    PROVE  \E e : vt' = [vt EXCEPT ![v] = e] /\ Took(d, e, n)
<1>1. /\ RingOK(f) /\ Waiting(f) = Waiting(d) - n
      /\ \A i \in 1 .. Waiting(f) : Input(f)[i] = Input(d)[i + n]
    BY TakingRing
<1>2. PICK e : vt' = [vt EXCEPT ![v] = e] /\ Device(e) /\ SameRing(f, e) /\ ScreenOK(e)
    BY DEF Leaves
<1>3. RingOK(e) /\ Input(e) = Input(f) /\ Waiting(e) = Waiting(f)
  <2>1. RingOK(e) /\ Input(e) = Input(f)
    BY <1>1, <1>2, SameRingInput
  <2>2. Waiting(e) = Len(Input(e)) /\ Waiting(f) = Len(Input(f))
    BY <1>1, <2>1, InputSequence
  <2> QED
    BY <2>1, <2>2
<1>4. Took(d, e, n)
    BY <1>1, <1>2, <1>3 DEF Took, Taking
<1> QED
    BY <1>2, <1>4

\* A shell that only draws takes nothing.
LEMMA LeavesTookNothing ==
    ASSUME NEW v, NEW d, Device(d), RingOK(d), ScreenOK(d), Leaves(v, d)
    PROVE  \E e : vt' = [vt EXCEPT ![v] = e] /\ Took(d, e, 0)
<1>1. PICK e : vt' = [vt EXCEPT ![v] = e] /\ Device(e) /\ SameRing(d, e) /\ ScreenOK(e)
    BY DEF Leaves
<1>2. RingOK(e) /\ Input(e) = Input(d) /\ Waiting(e) = Waiting(d) /\ Waiting(d) \in Nat
  <2>1. RingOK(e) /\ Input(e) = Input(d)
    BY <1>1, SameRingInput
  <2>2. Waiting(e) = Len(Input(e)) /\ Waiting(d) = Len(Input(d)) /\ Waiting(d) \in Nat
    BY <2>1, InputSequence
  <2> QED
    BY <2>1, <2>2
<1>3. Took(d, e, 0)
    BY <1>1, <1>2 DEF Took
<1> QED
    BY <1>1, <1>3

\* A shell moves on within its budget, and its text as LineEditor says.
Moves(v, n) ==
    \E t, e : /\ shell' = [shell EXCEPT ![v] = t] \/ (shell' = shell /\ t = shell[v])
              /\ vt' = [vt EXCEPT ![v] = e]
              /\ DOMAIN framebuffer' = Cells
              /\ Device(e) /\ RingOK(e) /\ ScreenOK(e) /\ CharsOK(e)
              /\ LineOK(t) /\ Budget(e, t, n) /\ Edits(shell[v], t)

\* The terminal, its shell, and what waits between them.
Paired(d, s, n) ==
    /\ Device(d) /\ RingOK(d) /\ ScreenOK(d) /\ CharsOK(d)
    /\ LineOK(s) /\ Budget(d, s, n)

\* A shell that has read m characters.
LEMMA MovesBy ==
    ASSUME NEW v, NEW n \in Nat, Paired(vt[v], shell[v], n),
           NEW e, NEW m, Took(vt[v], e, m), vt' = [vt EXCEPT ![v] = e],
           NEW t, LineOK(t), Edits(shell[v], t),
           shell' = [shell EXCEPT ![v] = t] \/ (shell' = shell /\ t = shell[v]),
           DOMAIN framebuffer' = Cells,
           \/ m = 0 /\ Phase(t) = Phase(shell[v]) /\ Weight(t) <= Weight(shell[v])
           \/ /\ m = 1 /\ Phase(t) = NextPhase(Phase(shell[v]), Input(vt[v])[1])
              /\ Weight(t) <= Weight(shell[v]) + Typed(Phase(shell[v]), Input(vt[v])[1])
           \/ m = 2 /\ Phase(shell[v]) = 1 /\ Phase(t) = 0 /\ Weight(t) <= Weight(shell[v])
    PROVE  Moves(v, n)
<1> DEFINE d == vt[v]
           s == shell[v]
<1>1. RingOK(d) /\ CharsOK(d) /\ LineOK(s) /\ Budget(d, s, n)
    BY DEF Paired
<1>2. Took(d, e, m)
    OBVIOUS
<1>3. \/ m = 0 /\ Phase(t) = Phase(s) /\ Weight(t) <= Weight(s)
      \/ /\ m = 1 /\ Phase(t) = NextPhase(Phase(s), Input(d)[1])
         /\ Weight(t) <= Weight(s) + Typed(Phase(s), Input(d)[1])
      \/ m = 2 /\ Phase(s) = 1 /\ Phase(t) = 0 /\ Weight(t) <= Weight(s)
    OBVIOUS
<1> HIDE DEF d, s
<1>4. Budget(e, t, n)
    BY <1>1, <1>2, <1>3, BudgetRead
<1>5. CharsOK(e)
    BY <1>1, <1>2, TookChars
<1>6. Device(e) /\ RingOK(e) /\ ScreenOK(e)
    BY <1>2 DEF Took
<1> QED
    BY <1>4, <1>5, <1>6 DEF Moves

\* StartShell.
LEMMA StartMoves ==
    ASSUME NEW v, NEW n \in Nat, Paired(vt[v], shell[v], n), DOMAIN shell = Vts, v \in Vts,
           DOMAIN framebuffer = Cells, StartShell(v)
    PROVE  Moves(v, n)
<1> DEFINE s == shell[v]
           t == [s EXCEPT !.pc = "read"]
           d == vt[v]
<1>1. /\ Device(d) /\ RingOK(d) /\ ScreenOK(d) /\ LineOK(s) /\ s.pc = "start"
      /\ vt_write(v, d, command_prompt) /\ shell' = [shell EXCEPT ![v] = t]
    BY DEF Paired, StartShell
<1> HIDE DEF s, d
<1>2. Leaves(v, d) /\ DOMAIN framebuffer' = Cells
    BY <1>1, MessagesAreSequences, WriteLeaves
<1>3. PICK e : vt' = [vt EXCEPT ![v] = e] /\ Took(d, e, 0)
    BY <1>1, <1>2, LeavesTookNothing
<1>4. /\ DOMAIN t = DOMAIN s /\ t.pc = "read" /\ t.arrow_code = s.arrow_code
      /\ t.cursor_end_offset = s.cursor_end_offset
      /\ t.keyboard_command_length = s.keyboard_command_length
      /\ t.keyboard_command_buffer = s.keyboard_command_buffer
      /\ t.prev_keyboard_command_length = s.prev_keyboard_command_length
      /\ t.prev_keyboard_command_buffer = s.prev_keyboard_command_buffer
    BY <1>1 DEF LineOK, Editing, ShellFields
<1> HIDE DEF t
<1>5. ~ Waits(s) /\ ~ Waits(t) /\ Phase(t) = Phase(s)
    BY <1>1, <1>4 DEF Waits, Phase
<1>6. LineOK(t)
    BY <1>1, <1>4, <1>5 DEF LineOK, Editing
<1>7. Edits(s, t)
  <2>1. TextBefore(t) = TextBefore(s) /\ TextAfter(t) = TextAfter(s)
    BY <1>4, <1>5, SameLocals
  <2>2. TextHistory(t) = TextHistory(s)
    BY <1>4, SameHistory
  <2> QED
    BY <2>1, <2>2 DEF Edits
<1>8. Weight(t) <= Weight(s)
  <2>1. Weight(t) = Weight(s) /\ Weight(s) \in Nat
    BY <1>1, <1>4, <1>5, WeightValue DEF Weight
  <2> QED
    BY <2>1
<1> QED
    BY <1>1, <1>2, <1>3, <1>5, <1>6, <1>7, <1>8, MovesBy DEF s, d

\* ChildDone.
LEMMA ChildMoves ==
    ASSUME NEW v, NEW n \in Nat, Paired(vt[v], shell[v], n), DOMAIN shell = Vts, v \in Vts,
           DOMAIN framebuffer = Cells, ChildDone(v)
    PROVE  Moves(v, n)
<1> DEFINE s == shell[v]
           t == Prompt(s)
           d == vt[v]
           line == LineOf(s.keyboard_command_buffer, s.keyboard_command_length)
<1>1. /\ Device(d) /\ RingOK(d) /\ ScreenOK(d) /\ LineOK(s) /\ s.pc = "waitpid"
      /\ shell' = [shell EXCEPT ![v] = t]
    BY DEF Paired, ChildDone
<1>2. PICK o \in ChildOutcomes(line) : vt_write(v, vt[v], o.text \o command_prompt)
    BY DEF ChildDone
<1>3. o.text = ERROR_MESSAGE \/ o.text = <<>> \/ o.text \in Outputs
    BY <1>2 DEF ChildOutcomes
<1> DEFINE bytes == o.text \o command_prompt
<1>4. Sequence(bytes) /\ vt_write(v, d, bytes)
    BY <1>2, <1>3, MessagesAreSequences, SequenceConcat
<1> HIDE DEF s, d, bytes
<1>5. Leaves(v, d) /\ DOMAIN framebuffer' = Cells
    BY <1>1, <1>4, WriteLeaves
<1>6. PICK e : vt' = [vt EXCEPT ![v] = e] /\ Took(d, e, 0)
    BY <1>1, <1>5, LeavesTookNothing
<1>7. /\ DOMAIN t = DOMAIN s /\ t.pc = "read" /\ t.arrow_code = s.arrow_code
      /\ t.cursor_end_offset = s.cursor_end_offset
      /\ t.keyboard_command_length = 0
      /\ t.keyboard_command_buffer = Empty
      /\ t.prev_keyboard_command_length = s.prev_keyboard_command_length
      /\ t.prev_keyboard_command_buffer = s.prev_keyboard_command_buffer
    BY <1>1 DEF LineOK, Editing, ShellFields, Prompt
<1> HIDE DEF t
<1>8. Waits(s) /\ ~ Waits(t) /\ Phase(t) = Phase(s)
    BY <1>1, <1>7 DEF Waits, Phase
<1>9. s.cursor_end_offset = 0
    BY <1>1, <1>8 DEF LineOK
<1>10. DOMAIN Empty = Positions
    BY DEF Empty
<1>11. LineOK(t)
    BY <1>1, <1>7, <1>8, <1>9, <1>10 DEF LineOK, Editing
<1>12. Edits(s, t)
    BY <1>1, <1>7, <1>8, <1>9, <1>11, PromptEditsNothing, SameHistory
<1>13. Weight(t) <= Weight(s)
    BY <1>1, <1>7, <1>8 DEF Weight, LineOK, Editing
<1> QED
    BY <1>1, <1>5, <1>6, <1>8, <1>11, <1>12, <1>13, MovesBy DEF s, d

\* ForeignWrite.
LEMMA ForeignMoves ==
    ASSUME NEW v, NEW n \in Nat, Paired(vt[v], shell[v], n), DOMAIN shell = Vts, v \in Vts,
           DOMAIN framebuffer = Cells, ForeignWrite(v)
    PROVE  Moves(v, n)
<1> DEFINE s == shell[v]
           d == vt[v]
<1>1. Device(d) /\ RingOK(d) /\ ScreenOK(d) /\ LineOK(s)
    BY DEF Paired
<1>2. PICK text \in Outputs \cup KernelMessages : vt_write(v, d, text)
    BY ForeignText
<1>3. Sequence(text)
    BY MessagesAreSequences
<1>4. shell' = shell
    BY ForeignText
<1>5. Edits(s, s) /\ Weight(s) <= Weight(s)
  <2>1. Weight(s) \in Nat
    BY <1>1, WeightValue
  <2> QED
    BY <2>1 DEF Edits
<1> HIDE DEF s, d
<1>6. Leaves(v, d) /\ DOMAIN framebuffer' = Cells
    BY <1>1, <1>2, <1>3, WriteLeaves
<1>7. PICK e : vt' = [vt EXCEPT ![v] = e] /\ Took(d, e, 0)
    BY <1>1, <1>6, LeavesTookNothing
<1> QED
    BY <1>1, <1>4, <1>5, <1>6, <1>7, MovesBy DEF s, d

\* ReadKey.
LEMMA KeyMoves ==
    ASSUME EnterAtEnd, NEW v, NEW n \in Nat, n <= KEYBOARD_COMMAND_BUFFER_LENGTH,
           Paired(vt[v], shell[v], n), DOMAIN shell = Vts, v \in Vts,
           DOMAIN framebuffer = Cells, ReadKey(v)
    PROVE  Moves(v, n)
<1> DEFINE s == shell[v]
           d == vt[v]
           r == vt_read(d, 1)
           c == r.chars[1]
           f == r.left
<1>1. /\ Device(d) /\ RingOK(d) /\ ScreenOK(d) /\ CharsOK(d) /\ LineOK(s) /\ Budget(d, s, n)
      /\ s.pc = "read" /\ r.chars # <<>>
    BY DEF Paired, ReadKey
<1>2. \/ /\ c = ESC /\ vt' = [vt EXCEPT ![v] = f] /\ framebuffer' = framebuffer
         /\ shell' = [shell EXCEPT ![v].pc = "escape", ![v].arrow_code = <<>>]
      \/ c = ERASE /\ EraseKey(v, f, s)
      \/ c = NL /\ EnterKey(v, f, s)
      \/ c \notin {ESC, ERASE, NL} /\ TypeKey(v, f, s, c)
    BY DEF ReadKey, ESC, ERASE, NL
<1>3. PICK m \in 1 .. 1 :
         /\ m <= Waiting(d) /\ Taking(d, r.left, m)
         /\ Sequence(r.chars) /\ Len(r.chars) = m
         /\ \A i \in 1 .. m : r.chars[i] = Input(d)[i]
    BY <1>1, ReadParts
<1>4. Taking(d, f, 1) /\ c = Input(d)[1] /\ Waiting(d) > 0
    BY <1>1, <1>3, InputSequence
<1>5. c \in InputChars
    BY <1>1, <1>4, InputSequence DEF CharsOK
<1>6. ~ Waits(s) /\ Phase(s) = 0
    BY <1>1 DEF Waits, Phase
<1> HIDE DEF s, d, r, c, f
<1>7. Device(f) /\ RingOK(f) /\ ScreenOK(f)
    BY <1>1, <1>4, TakenFits
<1>8. /\ Weight(s) \in Nat /\ Weight(s) <= n /\ s.keyboard_command_length \in Nat
      /\ s.keyboard_command_length <= Weight(s)
      /\ c \notin {ESC, ERASE, NL} => Weight(s) + 1 <= n
    BY <1>1, <1>4, <1>6, BudgetBounds, WeightValue
<1>9. KEYBOARD_COMMAND_BUFFER_LENGTH \in Nat
    BY ShellAssumption
<1>10. ASSUME NEW t, Leaves(v, f), LineOK(t), Edits(s, t), shell' = [shell EXCEPT ![v] = t],
              DOMAIN framebuffer' = Cells, Phase(t) = NextPhase(0, c),
              Weight(t) <= Weight(s) + Typed(0, c)
       PROVE  Moves(v, n)
  <2>1. PICK e : vt' = [vt EXCEPT ![v] = e] /\ Took(d, e, 1)
    BY <1>1, <1>4, <1>10, TookLeaves
  <2> QED
    BY <1>4, <1>6, <1>10, <2>1, MovesBy DEF s, d
<1>11. ASSUME NEW w, Becomes(v, f, s, w), w = Typed(0, c), c # ESC PROVE Moves(v, n)
  <2>1. PICK t : Effect(v, f, t) /\ LineOK(t) /\ Phase(t) = 0 /\ Weight(t) <= Weight(s) + w /\ Edits(s, t)
    BY <1>11 DEF Becomes
  <2>2. Phase(t) = NextPhase(0, c)
    BY <1>11, <2>1 DEF NextPhase
  <2> QED
    BY <1>10, <1>11, <2>1, <2>2 DEF Effect
<1>12. CASE /\ c = ESC /\ vt' = [vt EXCEPT ![v] = f] /\ framebuffer' = framebuffer
            /\ shell' = [shell EXCEPT ![v].pc = "escape", ![v].arrow_code = <<>>]
  <2> DEFINE t == [s EXCEPT !.pc = "escape", !.arrow_code = <<>>]
  <2>1. shell' = [shell EXCEPT ![v] = t]
    BY <1>12 DEF s
  <2>2. Sequence(<<>>) /\ Len(<<>>) = 0
    BY MessagesAreSequences
  <2>3. /\ DOMAIN t = DOMAIN s /\ t.pc = "escape" /\ t.arrow_code = <<>>
        /\ t.cursor_end_offset = s.cursor_end_offset
        /\ t.keyboard_command_length = s.keyboard_command_length
        /\ t.keyboard_command_buffer = s.keyboard_command_buffer
        /\ t.prev_keyboard_command_length = s.prev_keyboard_command_length
        /\ t.prev_keyboard_command_buffer = s.prev_keyboard_command_buffer
    BY <1>1 DEF LineOK, Editing, ShellFields
  <2> HIDE DEF t
  <2>4. ~ Waits(t) /\ Phase(t) = 1
    BY <2>2, <2>3 DEF Waits, Phase
  <2>5. LineOK(t)
    BY <1>1, <2>2, <2>3, <2>4 DEF LineOK, Editing
  <2>6. Edits(s, t)
    <3>1. TextBefore(t) = TextBefore(s) /\ TextAfter(t) = TextAfter(s)
      BY <1>6, <2>3, <2>4, SameLocals
    <3>2. TextHistory(t) = TextHistory(s)
      BY <2>3, SameHistory
    <3> QED
      BY <3>1, <3>2 DEF Edits
  <2>7. Weight(t) <= Weight(s) + Typed(0, c)
    <3>1. Weight(t) = Weight(s) /\ Typed(0, c) = 0
      BY <1>6, <1>12, <2>3, <2>4 DEF Weight, Typed
    <3> QED
      BY <1>8, <3>1
  <2>8. Phase(t) = NextPhase(0, c)
    BY <1>12, <2>4 DEF NextPhase
  <2>9. Leaves(v, f) /\ DOMAIN framebuffer' = Cells
    BY <1>7, <1>12 DEF Leaves, SameRing
  <2> QED
    BY <1>10, <2>1, <2>5, <2>6, <2>7, <2>8, <2>9
<1>13. CASE c = ERASE /\ EraseKey(v, f, s)
  <2>1. Becomes(v, f, s, 0)
    BY <1>1, <1>6, <1>7, <1>8, <1>9, <1>13, EraseBecomes
  <2>2. Typed(0, c) = 0 /\ c # ESC
    BY <1>13 DEF Typed, ESC, ERASE
  <2> QED
    BY <1>11, <2>1, <2>2
<1>14. CASE c = NL /\ EnterKey(v, f, s)
  <2>1. Becomes(v, f, s, 0)
    BY <1>1, <1>6, <1>7, <1>14, EnterBecomes
  <2>2. Typed(0, c) = 0 /\ c # ESC
    BY <1>14 DEF Typed, ESC, NL
  <2> QED
    BY <1>11, <2>1, <2>2
<1>15. CASE c \notin {ESC, ERASE, NL} /\ TypeKey(v, f, s, c)
  <2>1. c \in TypedChars
    BY <1>5, <1>15 DEF InputChars
  <2>2. s.keyboard_command_length + 1 <= KEYBOARD_COMMAND_BUFFER_LENGTH
    BY <1>8, <1>9, <1>15
  <2>3. Becomes(v, f, s, 1)
    BY <1>1, <1>7, <1>15, <2>1, <2>2, TypeBecomes
  <2>4. Typed(0, c) = 1 /\ c # ESC
    BY <1>15 DEF Typed
  <2> QED
    BY <1>11, <2>3, <2>4
<1> QED
    BY <1>2, <1>12, <1>13, <1>14, <1>15

\* ReadEscape.
LEMMA EscapeMoves ==
    ASSUME NEW v, NEW n \in Nat, Paired(vt[v], shell[v], n), DOMAIN shell = Vts, v \in Vts,
           DOMAIN framebuffer = Cells, ReadEscape(v)
    PROVE  Moves(v, n)
<1> DEFINE s == shell[v]
           d == vt[v]
           a == Len(s.arrow_code)
           r == vt_read(d, 2 - a)
           f == r.left
           code == s.arrow_code \o r.chars
<1>1. /\ Device(d) /\ RingOK(d) /\ ScreenOK(d) /\ LineOK(s) /\ s.pc = "escape" /\ r.chars # <<>>
    BY DEF Paired, ReadEscape
<1>2. Sequence(s.arrow_code) /\ a \in Nat /\ a < 2 /\ 2 - a \in Nat
    BY <1>1, SequenceDomain DEF LineOK, Editing
<1>3. PICK m \in 1 .. 2 - a :
         /\ m <= Waiting(d) /\ Taking(d, r.left, m)
         /\ Sequence(r.chars) /\ Len(r.chars) = m
         /\ \A i \in 1 .. m : r.chars[i] = Input(d)[i]
    BY <1>1, <1>2, ReadParts
<1>4. Sequence(code) /\ Len(code) = a + m
    BY <1>2, <1>3, SequenceConcat
<1>5. \/ /\ Len(code) < 2 /\ vt' = [vt EXCEPT ![v] = f] /\ framebuffer' = framebuffer
         /\ shell' = [shell EXCEPT ![v].arrow_code = code]
      \/ /\ ~ (Len(code) < 2)
         /\ (ArrowUp(v, f, s) \/ ArrowRight(v, f, s) \/ ArrowLeft(v, f, s) \/ Swallow(v, f, s))
  <2> DEFINE up == <<"[", "A">>
             right == <<"[", "C">>
             left == <<"[", "D">>
  <2>1. /\ CASE Len(code) < 2        -> /\ vt' = [vt EXCEPT ![v] = f]
                                        /\ shell' = [shell EXCEPT ![v].arrow_code = code]
                                        /\ UNCHANGED <<framebuffer, drawn>>
             [] code = up            -> ArrowUp(v, f, s)
             [] code = right         -> ArrowRight(v, f, s)
             [] code = left          -> ArrowLeft(v, f, s)
             [] OTHER                -> Swallow(v, f, s)
    BY DEF ReadEscape
  <2>2. Len(up) = 2 /\ Len(right) = 2 /\ Len(left) = 2
    OBVIOUS
  <2> HIDE DEF code, f, s, up, right, left
  <2>3. CASE Len(code) < 2
    <3>1. code # up
      <4> SUFFICES ASSUME code = up PROVE FALSE
        OBVIOUS
      <4>1. Len(code) = 2
        BY <2>2
      <4> QED
        BY <2>3, <4>1
    <3>2. code # right
      <4> SUFFICES ASSUME code = right PROVE FALSE
        OBVIOUS
      <4>1. Len(code) = 2
        BY <2>2
      <4> QED
        BY <2>3, <4>1
    <3>3. code # left
      <4> SUFFICES ASSUME code = left PROVE FALSE
        OBVIOUS
      <4>1. Len(code) = 2
        BY <2>2
      <4> QED
        BY <2>3, <4>1
    <3> QED
      BY <2>1, <2>3, <3>1, <3>2, <3>3
  <2>4. CASE ~ (Len(code) < 2)
    BY <2>1, <2>4
  <2> QED
    BY <2>3, <2>4
<1>6. ~ Waits(s) /\ Phase(s) = 1 + a
    BY <1>1 DEF Waits, Phase
<1>7. Taking(d, f, m)
    BY <1>3
<1> HIDE DEF s, d, r, f, code, a
<1>8. Device(f) /\ RingOK(f) /\ ScreenOK(f)
    BY <1>1, <1>7, TakenFits
<1>9. (a = 0 /\ m = 1) \/ (a = 0 /\ m = 2) \/ (a = 1 /\ m = 1)
    BY <1>2, <1>3
<1>10. CASE /\ Len(code) < 2 /\ vt' = [vt EXCEPT ![v] = f] /\ framebuffer' = framebuffer
            /\ shell' = [shell EXCEPT ![v].arrow_code = code]
  <2> DEFINE t == [s EXCEPT !.arrow_code = code]
  <2>1. shell' = [shell EXCEPT ![v] = t]
    BY <1>10 DEF s
  <2>2. a = 0 /\ m = 1 /\ Len(code) = 1
    BY <1>4, <1>9, <1>10
  <2>3. /\ DOMAIN t = DOMAIN s /\ t.pc = "escape" /\ t.arrow_code = code
        /\ t.cursor_end_offset = s.cursor_end_offset
        /\ t.keyboard_command_length = s.keyboard_command_length
        /\ t.keyboard_command_buffer = s.keyboard_command_buffer
        /\ t.prev_keyboard_command_length = s.prev_keyboard_command_length
        /\ t.prev_keyboard_command_buffer = s.prev_keyboard_command_buffer
    BY <1>1 DEF LineOK, Editing, ShellFields
  <2> HIDE DEF t
  <2>4. ~ Waits(t) /\ Phase(t) = 2
    <3>1. Len(t.arrow_code) = 1
      BY <2>2, <2>3
    <3> QED
      BY <2>3, <3>1 DEF Waits, Phase
  <2>5. LineOK(t)
    BY <1>1, <1>4, <1>10, <2>3, <2>4 DEF LineOK, Editing
  <2>6. Edits(s, t)
    <3>1. TextBefore(t) = TextBefore(s) /\ TextAfter(t) = TextAfter(s)
      BY <1>6, <2>3, <2>4, SameLocals
    <3>2. TextHistory(t) = TextHistory(s)
      BY <2>3, SameHistory
    <3> QED
      BY <3>1, <3>2 DEF Edits
  <2>7. Weight(t) = Weight(s) /\ Weight(s) \in Nat
    BY <1>1, <1>6, <2>3, <2>4, WeightValue DEF Weight
  <2>8. Phase(s) = 1 /\ Phase(t) = NextPhase(1, Input(d)[1]) /\ Typed(1, Input(d)[1]) = 0
    BY <1>6, <2>2, <2>4 DEF NextPhase, Typed
  <2>9. Weight(t) <= Weight(s) + Typed(1, Input(d)[1])
    BY <2>7, <2>8
  <2>10. Leaves(v, f) /\ DOMAIN framebuffer' = Cells
    BY <1>8, <1>10 DEF Leaves, SameRing
  <2>11. PICK e : vt' = [vt EXCEPT ![v] = e] /\ Took(d, e, m)
    BY <1>1, <1>7, <2>10, TookLeaves
  <2> QED
    BY <2>1, <2>2, <2>5, <2>6, <2>8, <2>9, <2>10, <2>11, MovesBy DEF s, d
<1>11. CASE /\ ~ (Len(code) < 2)
            /\ (ArrowUp(v, f, s) \/ ArrowRight(v, f, s) \/ ArrowLeft(v, f, s) \/ Swallow(v, f, s))
  <2>1. Becomes(v, f, s, 0)
    BY <1>1, <1>6, <1>8, <1>11, ArrowBecomes
  <2>2. PICK t : Effect(v, f, t) /\ LineOK(t) /\ Phase(t) = 0 /\ Weight(t) <= Weight(s) + 0 /\ Edits(s, t)
    BY <2>1 DEF Becomes
  <2>3. PICK e : vt' = [vt EXCEPT ![v] = e] /\ Took(d, e, m)
    BY <1>1, <1>7, <2>2, TookLeaves DEF Effect
  <2>4. Weight(t) \in Nat /\ Weight(s) \in Nat /\ Weight(t) <= Weight(s)
    BY <1>1, <2>2, WeightValue
  <2>5. \/ m = 1 /\ Phase(s) = 2
        \/ m = 2 /\ Phase(s) = 1
    BY <1>4, <1>6, <1>9, <1>11
  <2>6. CASE m = 1 /\ Phase(s) = 2
    <3>1. Phase(t) = NextPhase(Phase(s), Input(d)[1]) /\ Typed(Phase(s), Input(d)[1]) = 0
      BY <2>2, <2>6 DEF NextPhase, Typed
    <3>2. Weight(t) <= Weight(s) + Typed(Phase(s), Input(d)[1])
      BY <2>4, <3>1
    <3> QED
      BY <2>2, <2>3, <2>6, <3>1, <3>2, MovesBy DEF s, d, Effect
  <2>7. CASE m = 2 /\ Phase(s) = 1
    BY <2>2, <2>3, <2>4, <2>7, MovesBy DEF s, d, Effect
  <2> QED
    BY <2>5, <2>6, <2>7
<1> QED
    BY <1>5, <1>10, <1>11

-----------------------------------------------------------------------------
(* What the keyboard adds.                                                 *)

\* The phase a and the count b behind the last character that waits.
Track(d, s, n, a, b) ==
    \E q, k : /\ Parsing(d, q, k, n) /\ q[0] = Phase(s) /\ Weight(s) <= k[0]
              /\ a = q[Waiting(d)] /\ b = k[Waiting(d)]

Tracked(d, s, n, a, b) ==
    Device(d) /\ RingOK(d) /\ ScreenOK(d) /\ CharsOK(d) /\ Track(d, s, n, a, b)

\* They are a phase and a count.
LEMMA TrackValues ==
    ASSUME NEW d, NEW s, NEW n \in Nat, NEW a, NEW b, Tracked(d, s, n, a, b)
    PROVE  a \in 0 .. 2 /\ b \in Nat /\ b + Credit(a) <= n
<1>1. PICK q, k : Parsing(d, q, k, n) /\ a = q[Waiting(d)] /\ b = k[Waiting(d)]
    BY DEF Tracked, Track
<1>2. Waiting(d) \in 0 .. Waiting(d)
    BY InputSequence DEF Tracked
<1> QED
    BY <1>1, <1>2 DEF Parsing

\* A larger budget.
LEMMA TrackMore ==
    ASSUME NEW d, NEW s, NEW n \in Nat, NEW a, NEW b, Tracked(d, s, n, a, b), NEW m \in Nat, n <= m
    PROVE  Tracked(d, s, m, a, b)
<1>1. PICK q, k : /\ Parsing(d, q, k, n) /\ q[0] = Phase(s) /\ Weight(s) <= k[0]
                  /\ a = q[Waiting(d)] /\ b = k[Waiting(d)]
    BY DEF Tracked, Track
<1>2. ASSUME NEW i \in 0 .. Waiting(d) PROVE q[i] \in 0 .. 2 /\ k[i] \in Nat /\ k[i] + Credit(q[i]) <= m
  <2>1. q[i] \in 0 .. 2 /\ k[i] \in Nat /\ k[i] + Credit(q[i]) <= n
    BY <1>1 DEF Parsing
  <2> QED
    BY <2>1 DEF Credit
<1>3. Parsing(d, q, k, m)
    BY <1>1, <1>2 DEF Parsing
<1> QED
    BY <1>1, <1>3 DEF Tracked, Track

\* One character more.
LEMMA TrackExtends ==
    ASSUME NEW d, NEW s, NEW n \in Nat, NEW a, NEW b, Tracked(d, s, n, a, b), NEW m \in Nat, n <= m,
           NEW c \in InputChars, NEW e, Extends(d, e, c),
           b + Typed(a, c) + Credit(NextPhase(a, c)) <= m
    PROVE  Tracked(e, s, m, NextPhase(a, c), b + Typed(a, c))
<1>1. PICK q, k : /\ Parsing(d, q, k, n) /\ q[0] = Phase(s) /\ Weight(s) <= k[0]
                  /\ a = q[Waiting(d)] /\ b = k[Waiting(d)]
    BY DEF Tracked, Track
<1> DEFINE w == Waiting(d)
           a2 == NextPhase(a, c)
           b2 == b + Typed(a, c)
           r == [i \in 0 .. w + 1 |-> IF i = w + 1 THEN a2 ELSE q[i]]
           l == [i \in 0 .. w + 1 |-> IF i = w + 1 THEN b2 ELSE k[i]]
<1>2. w \in Nat
    BY InputSequence DEF Tracked
<1>3. Waiting(e) = w + 1 /\ Input(e)[w + 1] = c /\ \A i \in 1 .. w : Input(e)[i] = Input(d)[i]
    BY DEF Extends
<1>4. a2 \in 0 .. 2 /\ b2 \in Nat /\ b2 + Credit(a2) <= m
    BY TrackValues, PhaseValues
<1> HIDE DEF w, a2, b2
<1>5. r[w + 1] = a2 /\ l[w + 1] = b2 /\ \A i \in 0 .. w : r[i] = q[i] /\ l[i] = k[i]
    BY <1>2
<1> HIDE DEF r, l
<1>6. ASSUME NEW i \in 0 .. w + 1 PROVE r[i] \in 0 .. 2 /\ l[i] \in Nat /\ l[i] + Credit(r[i]) <= m
  <2>1. CASE i = w + 1
    BY <1>4, <1>5, <2>1
  <2>2. CASE i # w + 1
    <3>1. i \in 0 .. w
      BY <1>2, <2>2
    <3>2. r[i] = q[i] /\ l[i] = k[i]
      BY <1>5, <3>1
    <3>3. q[i] \in 0 .. 2 /\ k[i] \in Nat /\ k[i] + Credit(q[i]) <= n
      BY <1>1, <3>1 DEF Parsing, w
    <3>4. Credit(q[i]) \in 0 .. 1
      BY <3>3, PhaseValues
    <3> QED
      BY <3>2, <3>3, <3>4
  <2> QED
    BY <2>1, <2>2
<1>7. ASSUME NEW i \in 1 .. w + 1
      PROVE  r[i] = NextPhase(r[i - 1], Input(e)[i]) /\ l[i] = l[i - 1] + Typed(r[i - 1], Input(e)[i])
  <2>1. CASE i = w + 1
    <3>1. i - 1 = w /\ w \in 0 .. w
      BY <1>2, <2>1
    <3>2. r[i - 1] = a /\ l[i - 1] = b
      BY <1>1, <1>5, <3>1 DEF w
    <3> QED
      BY <1>3, <1>5, <2>1, <3>2 DEF a2, b2
  <2>2. CASE i # w + 1
    <3>1. i \in 1 .. w /\ i \in 0 .. w /\ i - 1 \in 0 .. w
      BY <1>2, <2>2
    <3>2. r[i] = q[i] /\ l[i] = k[i] /\ r[i - 1] = q[i - 1] /\ l[i - 1] = k[i - 1]
      BY <1>5, <3>1
    <3>3. q[i] = NextPhase(q[i - 1], Input(d)[i]) /\ k[i] = k[i - 1] + Typed(q[i - 1], Input(d)[i])
      BY <1>1, <3>1 DEF Parsing, w
    <3> QED
      BY <1>3, <3>1, <3>2, <3>3
  <2> QED
    BY <2>1, <2>2
<1>8. Parsing(e, r, l, m)
    BY <1>3, <1>6, <1>7 DEF Parsing
<1>9. r[0] = q[0] /\ l[0] = k[0]
    BY <1>2, <1>5
<1>10. Track(e, s, m, a2, b2)
    BY <1>1, <1>3, <1>5, <1>8, <1>9 DEF Track
<1>11. CharsOK(e)
  <2> SUFFICES ASSUME NEW i \in 1 .. w + 1 PROVE Input(e)[i] \in InputChars
    BY <1>3 DEF CharsOK
  <2>1. CASE i = w + 1
    BY <1>3, <2>1
  <2>2. CASE i # w + 1
    <3>1. i \in 1 .. w
      BY <1>2, <2>2
    <3> QED
      BY <1>3, <3>1 DEF CharsOK, Tracked, w
  <2> QED
    BY <2>1, <2>2
<1>12. Device(e) /\ RingOK(e) /\ ScreenOK(e)
    BY DEF Extends, SameScreen, ScreenOK, Tracked
<1> QED
    BY <1>10, <1>11, <1>12 DEF Tracked, a2, b2

\* The shell and what waits for it, with the last phase and count in view.
LEMMA PairedTracked ==
    ASSUME NEW d, NEW s, NEW n \in Nat, LineOK(s)
    PROVE  Paired(d, s, n) <=> \E a, b : Tracked(d, s, n, a, b)
<1>1. ASSUME Paired(d, s, n) PROVE \E a, b : Tracked(d, s, n, a, b)
  <2>1. PICK q, k : Parsing(d, q, k, n) /\ q[0] = Phase(s) /\ Weight(s) <= k[0]
    BY <1>1 DEF Paired, Budget
  <2>2. Track(d, s, n, q[Waiting(d)], k[Waiting(d)])
    BY <2>1 DEF Track
  <2>3. Tracked(d, s, n, q[Waiting(d)], k[Waiting(d)])
    BY <1>1, <2>2 DEF Paired, Tracked
  <2> QED
    BY <2>3
<1>2. ASSUME NEW a, NEW b, Tracked(d, s, n, a, b) PROVE Paired(d, s, n)
    BY <1>2 DEF Paired, Tracked, Track, Budget
<1> QED
    BY <1>1, <1>2

\* vt_append_input_character within a budget.
LEMMA PushTracked ==
    ASSUME NEW d, NEW s, NEW n \in Nat, NEW a, NEW b, Tracked(d, s, n, a, b), NEW m \in Nat, n <= m,
           NEW c \in InputChars, b + Typed(a, c) + Credit(NextPhase(a, c)) <= m
    PROVE  \/ Full(d) /\ vt_append_input_character(d, c) = d
           \/ Tracked(vt_append_input_character(d, c), s, m, NextPhase(a, c), b + Typed(a, c))
<1> DEFINE e == vt_append_input_character(d, c)
<1>1. IF Full(d) THEN e = d ELSE Extends(d, e, c)
    BY AppendExtends DEF Tracked
<1> HIDE DEF e
<1>2. Extends(d, e, c) => Tracked(e, s, m, NextPhase(a, c), b + Typed(a, c))
    BY TrackExtends
<1> QED
    BY <1>1, <1>2 DEF e

\* A key with one character.
LEMMA CharacterTracked ==
    ASSUME NEW d, NEW s, NEW n \in Nat, NEW a, NEW b, Tracked(d, s, n, a, b), NEW c \in InputChars
    PROVE  \E x, y : Tracked(vt_append_input_character(d, c), s, n + 1, x, y)
<1>1. a \in 0 .. 2 /\ b \in Nat /\ b + Credit(a) <= n
    BY TrackValues
<1>2. b + Typed(a, c) + Credit(NextPhase(a, c)) <= n + 1
    BY <1>1 DEF Typed, Credit, NextPhase
<1>3. Tracked(d, s, n + 1, a, b)
    BY TrackMore
<1>4. \/ Full(d) /\ vt_append_input_character(d, c) = d
      \/ Tracked(vt_append_input_character(d, c), s, n + 1, NextPhase(a, c), b + Typed(a, c))
    BY <1>2, PushTracked
<1> QED
    BY <1>3, <1>4

\* An arrow key: where its last character takes the shell back to reading keys,
\* its letters are typed only where an earlier key left a sequence short.
LEMMA ArrowTracked ==
    ASSUME NEW d, NEW s, NEW n \in Nat, NEW a, NEW b, Tracked(d, s, n, a, b), NEW c \in {"A", "B", "C", "D"},
           NEW e1, e1 = vt_append_input_character(d, ESC),
           NEW e2, e2 = vt_append_input_character(e1, "["),
           NEW e3, e3 = vt_append_input_character(e2, c)
    PROVE  \E x, y : Tracked(e3, s, n + 1, x, y)
<1> DEFINE m == n + 1
           a1 == NextPhase(a, ESC)
           b1 == b + Typed(a, ESC)
           a2 == NextPhase(a1, "[")
           b2 == b1 + Typed(a1, "[")
           a3 == NextPhase(a2, c)
           b3 == b2 + Typed(a2, c)
<1>1. a \in 0 .. 2 /\ b \in Nat /\ b + Credit(a) <= n
    BY TrackValues
<1>2. m \in Nat /\ n <= m /\ m <= m
    OBVIOUS
<1>3. ESC \in InputChars /\ "[" \in InputChars /\ c \in InputChars
    BY DEF InputChars, TypedChars
<1>4. /\ c \notin {ESC, ERASE, NL} /\ "[" \notin {ESC, ERASE, NL}
    BY DEF ESC, ERASE, NL
<1>5. /\ b1 = b /\ b1 \in Nat
      /\ a1 = IF a = 0 THEN 1 ELSE IF a = 1 THEN 2 ELSE 0
    BY <1>1 DEF NextPhase, Typed
<1>6. /\ a2 = IF a = 0 THEN 2 ELSE 0
      /\ b2 = IF a = 2 THEN b + 1 ELSE b
    BY <1>1, <1>4, <1>5 DEF NextPhase, Typed
<1>7. /\ a3 = 0
      /\ b3 = IF a = 0 THEN b ELSE IF a = 1 THEN b + 1 ELSE b + 2
    BY <1>1, <1>4, <1>6 DEF NextPhase, Typed
<1> HIDE DEF a1, b1, a2, b2, a3, b3, m
<1>8. b1 + Credit(a1) <= m /\ b2 + Credit(a2) <= m /\ b3 + Credit(a3) <= m
    BY <1>1, <1>5, <1>6, <1>7 DEF Credit, m
<1>9. Tracked(d, s, m, a, b)
    BY <1>2, TrackMore
<1>10. (Full(d) /\ e1 = d) \/ Tracked(e1, s, m, a1, b1)
    BY <1>2, <1>3, <1>8, <1>9, PushTracked DEF a1, b1
<1>11. \A x : Full(d) => vt_append_input_character(d, x) = d
    BY AppendExtends DEF Tracked
<1>12. CASE Full(d) /\ e1 = d
    BY <1>9, <1>11, <1>12 DEF m
<1>13. CASE Tracked(e1, s, m, a1, b1)
  <2>1. (Full(e1) /\ e2 = e1) \/ Tracked(e2, s, m, a2, b2)
    BY <1>2, <1>3, <1>8, <1>13, PushTracked DEF a2, b2
  <2>2. \A x : Full(e1) => vt_append_input_character(e1, x) = e1
    BY <1>13, AppendExtends DEF Tracked
  <2>3. CASE Full(e1) /\ e2 = e1
    BY <1>13, <2>2, <2>3 DEF m
  <2>4. CASE Tracked(e2, s, m, a2, b2)
    <3>1. (Full(e2) /\ e3 = e2) \/ Tracked(e3, s, m, a3, b3)
      BY <1>2, <1>3, <1>8, <2>4, PushTracked DEF a3, b3
    <3> QED
      BY <2>4, <3>1 DEF m
  <2> QED
    BY <2>1, <2>3, <2>4
<1> QED
    BY <1>10, <1>12, <1>13

\* The characters a key can have.
LEMMA KeyCharacters ==
    ASSUME NEW mods, NEW key
    PROVE  LET bytes == InputOf(Event(mods, key))
           IN \/ bytes = <<>>
              \/ \E c \in InputChars : bytes = <<c>>
              \/ \E c \in {"A", "B", "C", "D"} : bytes = <<ESC, "[", c>>
<1> DEFINE event == Event(mods, key)
<1>1. /\ event.symbol_type \in {"KBD_ASCII", "KBD_NONASCII"}
      /\ event.symbol_type = "KBD_ASCII" => event.symbol \in InputChars
  <2>1. /\ Unshifted(key).symbol_type \in {"KBD_ASCII", "KBD_NONASCII"}
        /\ Unshifted(key).symbol_type = "KBD_ASCII" => Unshifted(key).symbol \in InputChars
    BY DEF Unshifted, KBD_ASCII, KBD_NONASCII, NO_SYMBOL, InputChars, TypedChars
  <2>2. /\ keymap_no_modifiers(key).symbol_type \in {"KBD_ASCII", "KBD_NONASCII"}
        /\ keymap_no_modifiers(key).symbol_type = "KBD_ASCII" => keymap_no_modifiers(key).symbol \in InputChars
    BY <2>1 DEF keymap_no_modifiers, KBD_ASCII, InputChars, TypedChars
  <2>3. /\ keymap_shift(key).symbol_type \in {"KBD_ASCII", "KBD_NONASCII"}
        /\ keymap_shift(key).symbol_type = "KBD_ASCII" => keymap_shift(key).symbol \in InputChars
    BY <2>1 DEF keymap_shift, KBD_ASCII, InputChars, TypedChars
  <2> QED
    BY <2>2, <2>3 DEF Event
<1> HIDE DEF event
<1>2. CASE event.symbol_type = "KBD_ASCII"
  <2>1. InputOf(event) = <<event.symbol>>
    BY <1>2 DEF InputOf
  <2> QED
    BY <1>1, <1>2, <2>1 DEF event
<1>3. CASE event.symbol_type # "KBD_ASCII"
  <2>1. \/ InputOf(event) = <<>> \/ InputOf(event) = <<ESC>> \/ InputOf(event) = <<ERASE>>
        \/ InputOf(event) = <<ESC, "[", "A">> \/ InputOf(event) = <<ESC, "[", "B">>
        \/ InputOf(event) = <<ESC, "[", "C">> \/ InputOf(event) = <<ESC, "[", "D">>
    BY <1>3 DEF InputOf
  <2>2. ESC \in InputChars /\ ERASE \in InputChars
    BY DEF InputChars
  <2> QED
    BY <2>1, <2>2 DEF event
<1> QED
    BY <1>2, <1>3

\* vt_update_input within the budget of one key more.
LEMMA KeyPaired ==
    ASSUME NEW d, NEW s, NEW n \in Nat, Paired(d, s, n), NEW mods, NEW key
    PROVE  Paired(vt_update_input(d, Event(mods, key)), s, n + 1)
<1> DEFINE bytes == InputOf(Event(mods, key))
           f == FoldLeft(vt_append_input_character, d, bytes)
<1>1. LineOK(s)
    BY DEF Paired
<1>2. PICK a, b : Tracked(d, s, n, a, b)
    BY <1>1, PairedTracked
<1>3. \/ bytes = <<>>
      \/ \E c \in InputChars : bytes = <<c>>
      \/ \E c \in {"A", "B", "C", "D"} : bytes = <<ESC, "[", c>>
    BY KeyCharacters
<1>4. vt_update_input(d, Event(mods, key)) = f
    BY DEF vt_update_input
<1> HIDE DEF bytes, f
<1>5. \E x, y : Tracked(f, s, n + 1, x, y)
  <2>1. CASE bytes = <<>>
    <3>1. 0 \in Nat /\ DOMAIN bytes = 1 .. 0
      BY <2>1
    <3>2. PICK h : Turns("input", h, 0, d, bytes) /\ f = h[0]
      BY <3>1, InputTurns DEF f
    <3>3. f = d
      BY <3>2 DEF Turns
    <3> QED
      BY <1>2, <3>3, TrackMore
  <2>2. ASSUME NEW c \in InputChars, bytes = <<c>> PROVE \E x, y : Tracked(f, s, n + 1, x, y)
    <3>1. 1 \in Nat /\ DOMAIN bytes = 1 .. 1 /\ bytes[1] = c
      BY <2>2
    <3>2. PICK h : Turns("input", h, 1, d, bytes) /\ f = h[1]
      BY <3>1, InputTurns DEF f
    <3>3. h[0] = d /\ 1 \in 1 .. 1 /\ 1 - 1 = 0
      BY <3>2 DEF Turns
    <3>4. h[1] = Turn("input", h[1 - 1], bytes[1])
      BY <3>2, <3>3 DEF Turns
    <3>5. f = vt_append_input_character(d, c)
      BY <3>1, <3>2, <3>3, <3>4 DEF Turn
    <3> QED
      BY <1>2, <3>5, CharacterTracked
  <2>3. ASSUME NEW c \in {"A", "B", "C", "D"}, bytes = <<ESC, "[", c>>
        PROVE  \E x, y : Tracked(f, s, n + 1, x, y)
    <3>1. 3 \in Nat /\ DOMAIN bytes = 1 .. 3 /\ bytes[1] = ESC /\ bytes[2] = "[" /\ bytes[3] = c
      BY <2>3
    <3>2. PICK h : Turns("input", h, 3, d, bytes) /\ f = h[3]
      BY <3>1, InputTurns DEF f
    <3>3. /\ h[0] = d /\ 1 \in 1 .. 3 /\ 2 \in 1 .. 3 /\ 3 \in 1 .. 3
          /\ 1 - 1 = 0 /\ 2 - 1 = 1 /\ 3 - 1 = 2
      BY <3>2 DEF Turns
    <3>4. /\ h[1] = Turn("input", h[1 - 1], bytes[1])
          /\ h[2] = Turn("input", h[2 - 1], bytes[2])
          /\ h[3] = Turn("input", h[3 - 1], bytes[3])
      BY <3>2, <3>3 DEF Turns
    <3>5. /\ h[1] = vt_append_input_character(d, ESC)
          /\ h[2] = vt_append_input_character(h[1], "[")
          /\ h[3] = vt_append_input_character(h[2], c)
      BY <3>1, <3>3, <3>4 DEF Turn
    <3>6. \E x, y : Tracked(h[3], s, n + 1, x, y)
      BY <1>2, <3>5, ArrowTracked
    <3> QED
      BY <3>2, <3>6
  <2> QED
    BY <1>3, <2>1, <2>2, <2>3
<1>6. n + 1 \in Nat
    OBVIOUS
<1> QED
    BY <1>1, <1>4, <1>5, <1>6, PairedTracked

\* A budget of one key more.
LEMMA PairedMore ==
    ASSUME NEW d, NEW s, NEW n \in Nat, Paired(d, s, n)
    PROVE  Paired(d, s, n + 1)
<1>1. LineOK(s) /\ n + 1 \in Nat /\ n <= n + 1
    BY DEF Paired
<1>2. PICK a, b : Tracked(d, s, n, a, b)
    BY <1>1, PairedTracked
<1>3. Tracked(d, s, n + 1, a, b)
    BY <1>1, <1>2, TrackMore
<1> QED
    BY <1>1, <1>3, PairedTracked

\* Painting leaves what waits.
LEMMA PaintedPaired ==
    ASSUME NEW d, NEW s, NEW n \in Nat, Paired(d, s, n), NEW e, e = [d EXCEPT !.repaint_flags = {}]
    PROVE  Paired(e, s, n)
<1>1. /\ Device(d) /\ RingOK(d) /\ ScreenOK(d) /\ CharsOK(d) /\ LineOK(s) /\ Budget(d, s, n)
    BY DEF Paired
<1>2. /\ DOMAIN e = DOMAIN d /\ e.escape_state = d.escape_state /\ SameRing(d, e)
      /\ e.repaint_flags = {} /\ e.terminal_buffer = d.terminal_buffer
      /\ e.cursor_row = d.cursor_row /\ e.cursor_column = d.cursor_column
    BY <1>1 DEF Device, DeviceFields, SameRing
<1>3. Device(e) /\ ScreenOK(e)
    BY <1>1, <1>2 DEF Device, ScreenOK
<1>4. RingOK(e) /\ Input(e) = Input(d)
    BY <1>1, <1>2, <1>3, SameRingInput
<1>5. Waiting(e) = Waiting(d)
    BY <1>1, <1>4, InputSequence
<1>6. CharsOK(e) /\ Budget(e, s, n)
    BY <1>1, <1>4, <1>5 DEF CharsOK, Budget, Parsing
<1> QED
    BY <1>1, <1>3, <1>4, <1>6 DEF Paired

\* What the terminals and the interactive shells keep.
LinesInv ==
    /\ active_vt_device \in Vts /\ depressed_mod_keys \subseteq {MOD_CTRL, MOD_SHIFT, MOD_ALT}
    /\ keys \in 0 .. MaxKeys /\ DOMAIN framebuffer = Cells
    /\ DOMAIN vt = Vts /\ DOMAIN shell = Vts
    /\ \A v \in Vts : Paired(vt[v], shell[v], keys)

EditsLines == \A v \in Vts : Edits(shell[v], shell'[v])

\* keyboard_rb_fill keeps it.
LEMMA KeyLines ==
    ASSUME LinesInv, NEW key \in Keys, keyboard_rb_fill(key), shell' = shell
    PROVE  LinesInv'
<1> DEFINE a == active_vt_device
           to == SwitchesTo(depressed_mod_keys, key)
<1>1. /\ a \in Vts /\ depressed_mod_keys \subseteq {MOD_CTRL, MOD_SHIFT, MOD_ALT}
      /\ keys \in 0 .. MaxKeys /\ DOMAIN framebuffer = Cells
      /\ DOMAIN vt = Vts /\ DOMAIN shell = Vts
      /\ \A v \in Vts : Paired(vt[v], shell[v], keys)
    BY DEF LinesInv
<1>2. /\ keys < MaxKeys /\ keys' = keys + 1 /\ MaxKeys \in Nat
      /\ depressed_mod_keys' = ModsAfter(depressed_mod_keys, key)
    BY TerminalAssumption DEF keyboard_rb_fill
<1>3. keys \in Nat /\ keys' \in 0 .. MaxKeys
    BY <1>1, <1>2
<1>4. depressed_mod_keys' \subseteq {MOD_CTRL, MOD_SHIFT, MOD_ALT}
    BY <1>1, <1>2 DEF ModsAfter
<1>5. \A v \in Vts : Paired(vt[v], shell[v], keys')
    BY <1>1, <1>2, <1>3, PairedMore
<1>6. CASE UNCHANGED <<vt, active_vt_device, framebuffer>>
  <2>1. vt' = vt /\ active_vt_device' = active_vt_device /\ framebuffer' = framebuffer
    BY <1>6
  <2> QED
    BY <1>1, <1>3, <1>4, <1>5, <2>1 DEF LinesInv
<1>7. CASE to # 0 /\ set_active_vt(to)
  <2>1. to \in Vts
    BY <1>7, TerminalAssumption DEF SwitchesTo
  <2> HIDE DEF to
  <2> DEFINE e == [vt[to] EXCEPT !.repaint_flags = {}]
  <2>2. /\ active_vt_device' = to /\ DOMAIN framebuffer' = Cells
        /\ vt' = [vt EXCEPT ![to] = e]
    BY <1>7 DEF set_active_vt, vt_repaint_terminal
  <2>3. Paired(e, shell[to], keys')
    BY <1>3, <1>5, <2>1, PaintedPaired
  <2> HIDE DEF e
  <2>4. DOMAIN vt' = Vts /\ vt'[to] = e /\ \A w \in Vts : w # to => vt'[w] = vt[w]
    BY <1>1, <2>1, <2>2
  <2>5. \A v \in Vts : Paired(vt'[v], shell'[v], keys')
    BY <1>5, <2>3, <2>4
  <2> QED
    BY <1>1, <1>3, <1>4, <2>1, <2>2, <2>4, <2>5 DEF LinesInv
<1>8. CASE /\ vt' = [vt EXCEPT ![active_vt_device] =
                       vt_update_input(@, Event(depressed_mod_keys, key))]
           /\ UNCHANGED <<active_vt_device, framebuffer>>
  <2> DEFINE e == vt_update_input(vt[a], Event(depressed_mod_keys, key))
  <2>1. vt' = [vt EXCEPT ![a] = e] /\ active_vt_device' = a /\ framebuffer' = framebuffer
    BY <1>8
  <2>2. Paired(e, shell[a], keys')
    BY <1>1, <1>2, <1>3, KeyPaired
  <2> HIDE DEF e
  <2>3. DOMAIN vt' = Vts /\ vt'[a] = e /\ \A w \in Vts : w # a => vt'[w] = vt[w]
    BY <1>1, <2>1
  <2>4. \A v \in Vts : Paired(vt'[v], shell'[v], keys')
    BY <1>5, <2>2, <2>3
  <2> QED
    BY <1>1, <1>3, <1>4, <2>1, <2>3, <2>4 DEF LinesInv
<1> QED
    BY <1>6, <1>7, <1>8 DEF keyboard_rb_fill

\* Every step keeps it, and edits lines as LineEditor does.
LEMMA LinesPreserved ==
    ASSUME EnterAtEnd
    PROVE  LinesInv /\ [Next]_vars => LinesInv' /\ EditsLines
<1> SUFFICES ASSUME LinesInv, [Next]_vars PROVE LinesInv' /\ EditsLines
    OBVIOUS
<1>1. /\ active_vt_device \in Vts /\ depressed_mod_keys \subseteq {MOD_CTRL, MOD_SHIFT, MOD_ALT}
      /\ keys \in 0 .. MaxKeys /\ DOMAIN framebuffer = Cells
      /\ DOMAIN vt = Vts /\ DOMAIN shell = Vts
      /\ \A v \in Vts : Paired(vt[v], shell[v], keys)
    BY DEF LinesInv
<1>2. keys \in Nat /\ keys <= KEYBOARD_COMMAND_BUFFER_LENGTH
    BY <1>1, TerminalAssumption, ShellAssumption
<1>3. shell' = shell => EditsLines
    BY DEF EditsLines, Edits
<1>4. CASE UNCHANGED <<terminalVars, shell>>
  <2>1. /\ vt' = vt /\ active_vt_device' = active_vt_device /\ framebuffer' = framebuffer
        /\ keys' = keys /\ depressed_mod_keys' = depressed_mod_keys /\ shell' = shell
    BY <1>4 DEF terminalVars
  <2> QED
    BY <1>1, <1>3, <2>1 DEF LinesInv
<1>5. ASSUME NEW key \in Keys, KeyboardInterrupt(key) PROVE LinesInv' /\ EditsLines
    BY <1>3, <1>5, KeyLines DEF KeyboardInterrupt
<1>6. ASSUME NEW v \in Vts,
             StartShell(v) \/ ReadKey(v) \/ ReadEscape(v) \/ ChildDone(v) \/ ForeignWrite(v)
      PROVE  LinesInv' /\ EditsLines
  <2>1. UNCHANGED <<active_vt_device, depressed_mod_keys, keys>>
    BY <1>6 DEF StartShell, ReadKey, ReadEscape, ChildDone, ForeignWrite
  <2>2. Moves(v, keys)
    BY <1>1, <1>2, <1>6, StartMoves, KeyMoves, EscapeMoves, ChildMoves, ForeignMoves
  <2>3. PICK t, e : /\ shell' = [shell EXCEPT ![v] = t] \/ (shell' = shell /\ t = shell[v])
                    /\ vt' = [vt EXCEPT ![v] = e]
                    /\ DOMAIN framebuffer' = Cells
                    /\ Device(e) /\ RingOK(e) /\ ScreenOK(e) /\ CharsOK(e)
                    /\ LineOK(t) /\ Budget(e, t, keys) /\ Edits(shell[v], t)
    BY <2>2 DEF Moves
  <2>4. Paired(e, t, keys)
    BY <2>3 DEF Paired
  <2>5. /\ DOMAIN vt' = Vts /\ vt'[v] = e /\ \A w \in Vts : w # v => vt'[w] = vt[w]
        /\ DOMAIN shell' = Vts /\ shell'[v] = t /\ \A w \in Vts : w # v => shell'[w] = shell[w]
    BY <1>1, <2>3
  <2>6. \A w \in Vts : Paired(vt'[w], shell'[w], keys')
    BY <1>1, <2>1, <2>4, <2>5
  <2>7. LinesInv'
    BY <1>1, <2>1, <2>3, <2>5, <2>6 DEF LinesInv
  <2>8. \A w \in Vts : Edits(shell[w], shell[w])
    BY DEF Edits
  <2>9. EditsLines
    BY <2>3, <2>5, <2>8 DEF EditsLines
  <2> QED
    BY <2>7, <2>9
<1>7. OpenScript \/ ScriptRead \/ ScriptChildDone \/ UNCHANGED vars => UNCHANGED <<terminalVars, shell>>
    BY DEF OpenScript, ScriptRead, ScriptChildDone, vars
<1> QED
    BY <1>4, <1>5, <1>6, <1>7 DEF Next

\* Initially nothing waits, and the lines are empty.
LEMMA LinesInitially == Init => LinesInv
<1> SUFFICES ASSUME Init PROVE LinesInv
    OBVIOUS
<1> DEFINE d == vt_device_init
           e == [d EXCEPT !.repaint_flags = {}]
           all == [v \in Vts |-> d]
<1>1. /\ active_vt_device = 1 /\ keys = 0 /\ depressed_mod_keys = {}
      /\ DOMAIN framebuffer = Cells
      /\ vt = [all EXCEPT ![1].repaint_flags = {}]
    BY DEF Init, terminal_init_1, vt_repaint_terminal
<1>2. /\ 1 \in Vts /\ VT_INPUT_BUFFER_LENGTH \in Nat /\ VT_INPUT_BUFFER_LENGTH > 1 /\ MaxKeys \in Nat
      /\ terminal_width \in Nat \ {0} /\ terminal_height \in Nat \ {0}
    BY TerminalAssumption
<1>3. DOMAIN vt = Vts /\ vt[1] = e /\ \A v \in Vts : v # 1 => vt[v] = d
    BY <1>1, <1>2
<1>4. /\ DeviceFields \subseteq DOMAIN d /\ d.escape_state = "VT_ESCAPE_NONE" /\ d.repaint_flags = Cells
      /\ d.cursor_row = 0 /\ d.cursor_column = 0 /\ DOMAIN d.terminal_buffer = Cells
      /\ d.input_rb_head_idx = 0 /\ d.input_rb_tail_idx = 0
      /\ DOMAIN d.input_rb = 0 .. VT_INPUT_BUFFER_LENGTH - 1
    BY DEF vt_device_init, DeviceFields
<1> HIDE DEF d
<1>5. Device(d) /\ RingOK(d) /\ ScreenOK(d)
    BY <1>2, <1>4 DEF Device, Escapes, RingOK, Slots, ScreenOK, Rows, Cols
<1>6. Waiting(d) = 0
    BY <1>2, <1>4, <1>5, WaitingNear
<1>7. PICK pc : pc \in {"start", "none"} /\ shell = [v \in Vts |-> NewShell(pc)]
    BY DEF Init
<1> DEFINE s == NewShell(pc)
<1>8. /\ DOMAIN s = ShellFields /\ s.pc = pc /\ s.keyboard_command_length = 0
      /\ s.prev_keyboard_command_length = 0 /\ s.cursor_end_offset = 0 /\ s.arrow_code = <<>>
      /\ s.keyboard_command_buffer = Empty /\ s.prev_keyboard_command_buffer = Empty
    BY DEF NewShell, ShellFields
<1> HIDE DEF s
<1>9. LineOK(s) /\ ~ Waits(s) /\ Phase(s) = 0 /\ Weight(s) = 0
  <2>1. Sequence(<<>>) /\ Len(<<>>) = 0
    BY MessagesAreSequences
  <2>2. Editing(s)
    BY <1>8, <2>1 DEF Editing
  <2>3. ~ Waits(s)
    BY <1>7, <1>8 DEF Waits
  <2>4. DOMAIN Empty = Positions
    BY DEF Empty
  <2>5. LineOK(s)
    BY <1>7, <1>8, <2>2, <2>3, <2>4 DEF LineOK
  <2>6. Phase(s) = 0
    BY <1>7, <1>8 DEF Phase
  <2>7. Weight(s) = 0
    BY <1>8, <2>3 DEF Weight
  <2> QED
    BY <2>3, <2>5, <2>6, <2>7
<1>10. Budget(d, s, 0)
  <2> DEFINE q == [i \in 0 .. 0 |-> 0]
  <2>1. q[0] = 0 /\ \A i \in 0 .. 0 : q[i] = 0
    OBVIOUS
  <2> HIDE DEF q
  <2>2. Parsing(d, q, q, 0)
    BY <1>6, <2>1 DEF Parsing, Credit
  <2> QED
    BY <1>9, <2>1, <2>2 DEF Budget
<1>11. Paired(d, s, 0)
    BY <1>5, <1>6, <1>9, <1>10 DEF Paired, CharsOK
<1>12. Paired(e, s, 0)
    BY <1>11, PaintedPaired
<1> HIDE DEF e
<1>13. \A v \in Vts : Paired(vt[v], shell[v], keys)
    BY <1>1, <1>3, <1>7, <1>11, <1>12 DEF s
<1>14. DOMAIN shell = Vts /\ keys \in 0 .. MaxKeys
    BY <1>1, <1>2, <1>7
<1> QED
    BY <1>1, <1>2, <1>3, <1>13, <1>14 DEF LinesInv

\* The script is not read beyond its end.
OffsetOK == script.offset \in 0 .. Len(script.text)

\* ScriptRead reads no further than the text goes, and Rewind goes back.
LEMMA OffsetPreserved == ScriptInv /\ ScriptInv' /\ OffsetOK /\ [Next]_vars => OffsetOK'
<1> SUFFICES ASSUME ScriptInv, ScriptInv', OffsetOK, [Next]_vars PROVE OffsetOK'
    OBVIOUS
<1>1. script \in ScriptType /\ script' \in ScriptType /\ script.offset \in 0 .. Len(script.text)
    BY DEF ScriptInv, OffsetOK
<1>2. script'.pc = "read" => OffsetOK'
    BY DEF ScriptInv, AtLine, AfterLines, OffsetOK
<1>3. ASSUME script'.offset = script.offset, script'.text = script.text PROVE OffsetOK'
    BY <1>1, <1>3 DEF OffsetOK
<1>4. ASSUME NEW status, ScriptExit(status) PROVE OffsetOK'
  <2>1. script'.offset = script.offset /\ script'.text = script.text
    BY <1>1, <1>4 DEF ScriptExit, ScriptType
  <2> QED
    BY <1>3, <2>1
<1>5. ASSUME UNCHANGED script PROVE OffsetOK'
    BY <1>3, <1>5
<1>6. ASSUME OpenScript PROVE OffsetOK'
  <2>1. CASE script' = [script EXCEPT !.pc = "read"]
    <3>1. script'.pc = "read"
      BY <1>1, <2>1 DEF ScriptType
    <3> QED
      BY <1>2, <3>1
  <2> QED
    BY <1>4, <1>6, <2>1 DEF OpenScript
<1>7. ASSUME NEW s \in ScriptType, script' = Rewind(s) PROVE OffsetOK'
  <2>1. script'.pc = "read"
    BY <1>7 DEF Rewind, ScriptType
  <2> QED
    BY <1>2, <2>1
<1>8. ASSUME ScriptRead PROVE OffsetOK'
  <2> DEFINE n == ReadLength(script)
             buffer == SubSeq(script.text, script.offset + 1, script.offset + n)
             newlines == {i \in DOMAIN buffer : buffer[i] = NL}
             line == Line(script, Min(newlines))
             s == Taken(script, line)
  <2>1. \/ ScriptExit("read error")
        \/ n = 0 /\ ScriptExit("end of file")
        \/ n # 0 /\ newlines = {} /\ ScriptExit("incomplete line")
        \/ /\ newlines # {}
           /\ \E kind \in {ExecKind(line)} :
                 script' = CASE kind = "syntax error" -> [s EXCEPT !.pc = "exited", !.status = "child error"]
                             [] kind = "no-op" -> Rewind(s)
                             [] kind \in {"exit", "word too long"} ->
                                  [s EXCEPT !.pc = "exited", !.status = "exit"]
                             [] kind = "fork"  -> [s EXCEPT !.pc = "waitpid"]
    BY <1>8 DEF ScriptRead, ReadLength, Line, Taken
  <2>2. n \in 0 .. Len(script.text) - script.offset
    BY <1>1, ReadLengthValue
  <2>3. DOMAIN s = DOMAIN script /\ s.offset = script.offset + n /\ s.text = script.text
    BY <1>1 DEF Taken, ScriptType
  <2> HIDE DEF newlines, line, s, n
  <2>4. \/ \E status : ScriptExit(status)
        \/ script' = Rewind(s)
        \/ \E status : script' = [s EXCEPT !.pc = "exited", !.status = status]
        \/ script' = [s EXCEPT !.pc = "waitpid"]
    BY <2>1, Kinds
  <2>5. {"offset", "text", "pc", "file_offset"} \subseteq DOMAIN s
    BY <1>1, <2>3 DEF ScriptType
  <2>6. CASE script' = Rewind(s)
    <3>1. script'.pc = "read"
      BY <2>5, <2>6 DEF Rewind
    <3> QED
      BY <1>2, <3>1
  <2>7. ASSUME script'.offset = s.offset, script'.text = s.text PROVE OffsetOK'
    <3>1. Len(script.text) \in Nat
      BY <1>1 DEF ScriptType
    <3>2. script'.offset \in 0 .. Len(script.text)
      BY <1>1, <2>2, <2>3, <2>7, <3>1
    <3> QED
      BY <2>3, <2>7, <3>2 DEF OffsetOK
  <2>8. ASSUME NEW status, script' = [s EXCEPT !.pc = "exited", !.status = status] PROVE OffsetOK'
    BY <2>5, <2>7, <2>8
  <2>9. CASE script' = [s EXCEPT !.pc = "waitpid"]
    BY <2>5, <2>7, <2>9
  <2> QED
    BY <1>4, <2>4, <2>6, <2>8, <2>9
<1>9. ASSUME ScriptChildDone PROVE OffsetOK'
    BY <1>1, <1>4, <1>7, <1>9 DEF ScriptChildDone
<1>10. ASSUME NEW key \in Keys, KeyboardInterrupt(key) PROVE UNCHANGED script
    BY <1>10 DEF KeyboardInterrupt
<1>11. ASSUME NEW v \in Vts,
              StartShell(v) \/ ReadKey(v) \/ ReadEscape(v) \/ ChildDone(v) \/ ForeignWrite(v)
       PROVE  UNCHANGED script
    BY <1>11 DEF StartShell, ReadKey, ReadEscape, ChildDone, ForeignWrite
<1>12. UNCHANGED vars => UNCHANGED script
    BY DEF vars
<1> QED
    BY <1>5, <1>6, <1>8, <1>9, <1>10, <1>11, <1>12 DEF Next

\* The history of what others write.
ForeignOK == drawn \in [Vts -> BOOLEAN] /\ foreign_writes \in 0 .. MaxForeignWrites

\* A step on a terminal changes the history of that terminal only: a shell
\* never ends it, and what others write does.
LEMMA DrawnChanges ==
    ASSUME ForeignOK, NEW v \in Vts,
           StartShell(v) \/ ReadKey(v) \/ ReadEscape(v) \/ ChildDone(v) \/ ForeignWrite(v)
    PROVE  /\ drawn' \in [Vts -> BOOLEAN]
           /\ \A w \in Vts : w # v => drawn'[w] = drawn[w]
<1> USE DEF ForeignOK
<1>1. \/ drawn' = drawn
      \/ \E b \in BOOLEAN : drawn' = [drawn EXCEPT ![v] = b]
  <2>1. CASE StartShell(v)
    BY <2>1 DEF StartShell
  <2>2. CASE ChildDone(v)
    BY <2>2 DEF ChildDone
  <2>3. CASE ForeignWrite(v)
    BY <2>3 DEF ForeignWrite
  <2>4. ASSUME NEW d, NEW s, Redraw(v, d, s) \/ Swallow(v, d, s)
        PROVE  drawn' = drawn \/ \E b \in BOOLEAN : drawn' = [drawn EXCEPT ![v] = b]
    BY <2>4 DEF Redraw, Swallow
  <2>5. ASSUME NEW d, NEW s, EnterKey(v, d, s)
        PROVE  \E b \in BOOLEAN : drawn' = [drawn EXCEPT ![v] = b]
    <3>1. PICK kind : drawn' = [drawn EXCEPT ![v] = @ \/ kind \in {"syntax error", "no-op"}]
      BY <2>5 DEF EnterKey
    <3>2. drawn' = [drawn EXCEPT ![v] = drawn[v] \/ kind \in {"syntax error", "no-op"}]
      BY <3>1
    <3>3. (drawn[v] \/ kind \in {"syntax error", "no-op"}) \in BOOLEAN
      OBVIOUS
    <3> QED
      BY <3>2, <3>3
  <2>6. ASSUME NEW d, NEW s, NEW c, TypeKey(v, d, s, c) \/ EraseKey(v, d, s)
        PROVE  drawn' = drawn \/ \E b \in BOOLEAN : drawn' = [drawn EXCEPT ![v] = b]
    BY <2>4, <2>6 DEF TypeKey, EraseKey
  <2>7. ASSUME NEW d, NEW s, ArrowUp(v, d, s) \/ ArrowRight(v, d, s) \/ ArrowLeft(v, d, s)
        PROVE  drawn' = drawn \/ \E b \in BOOLEAN : drawn' = [drawn EXCEPT ![v] = b]
    BY <2>4, <2>7 DEF ArrowUp, ArrowRight, ArrowLeft
  <2>8. CASE ReadKey(v)
    BY <2>5, <2>6, <2>8 DEF ReadKey
  <2>9. CASE ReadEscape(v)
    BY <2>4, <2>7, <2>9 DEF ReadEscape
  <2> QED
    BY <2>1, <2>2, <2>3, <2>8, <2>9
<1> QED
    BY <1>1

\* Every step keeps the types of the history.
LEMMA ForeignPreserved == ForeignOK /\ [Next]_vars => ForeignOK'
<1> SUFFICES ASSUME ForeignOK, [Next]_vars PROVE ForeignOK'
    OBVIOUS
<1>1. ASSUME UNCHANGED <<drawn, foreign_writes>> PROVE ForeignOK'
    BY <1>1 DEF ForeignOK
<1>2. ASSUME NEW v \in Vts,
             StartShell(v) \/ ReadKey(v) \/ ReadEscape(v) \/ ChildDone(v) \/ ForeignWrite(v)
      PROVE  ForeignOK'
  <2>1. drawn' \in [Vts -> BOOLEAN]
    BY <1>2, DrawnChanges
  <2>2. \/ foreign_writes' = foreign_writes
        \/ foreign_writes < MaxForeignWrites /\ foreign_writes' = foreign_writes + 1
    BY <1>2 DEF StartShell, ReadKey, ReadEscape, ChildDone, ForeignWrite
  <2>3. foreign_writes' \in 0 .. MaxForeignWrites
    BY <2>2, ShellAssumption DEF ForeignOK
  <2> QED
    BY <2>1, <2>3 DEF ForeignOK
<1>3. ASSUME NEW key \in Keys, KeyboardInterrupt(key) PROVE ForeignOK'
    BY <1>1, <1>3 DEF KeyboardInterrupt
<1>4. OpenScript \/ ScriptRead \/ ScriptChildDone \/ UNCHANGED vars => ForeignOK'
    BY <1>1 DEF OpenScript, ScriptRead, ScriptChildDone, vars
<1> QED
    BY <1>2, <1>3, <1>4 DEF Next

\* Lines that fit their budget fit the buffer.
LEMMA PairedTypes ==
    ASSUME NEW d, NEW s, NEW n \in Nat, n <= KEYBOARD_COMMAND_BUFFER_LENGTH, Paired(d, s, n)
    PROVE  /\ d.cursor_row \in Rows /\ d.cursor_column \in Cols
           /\ d.repaint_flags \subseteq Cells /\ DOMAIN d.terminal_buffer = Cells
           /\ d.input_rb_head_idx \in Slots /\ d.input_rb_tail_idx \in Slots
           /\ s.pc \in {"none", "start", "read", "escape", "waitpid", "exited"}
           /\ DOMAIN s.keyboard_command_buffer = Positions
           /\ s.keyboard_command_length \in 0 .. KEYBOARD_COMMAND_BUFFER_LENGTH
           /\ s.cursor_end_offset \in 0 .. s.keyboard_command_length
<1>1. RingOK(d) /\ ScreenOK(d) /\ LineOK(s) /\ Budget(d, s, n)
    BY DEF Paired
<1>2. Weight(s) <= n
    BY <1>1, BudgetBounds
<1>3. /\ s.keyboard_command_length \in Nat /\ s.prev_keyboard_command_length \in Nat
      /\ s.cursor_end_offset \in Nat /\ s.cursor_end_offset <= s.keyboard_command_length
      /\ Waits(s) => s.keyboard_command_length = s.prev_keyboard_command_length
    BY <1>1 DEF LineOK, Editing
<1>4. KEYBOARD_COMMAND_BUFFER_LENGTH \in Nat
    BY ShellAssumption
<1>5. s.keyboard_command_length <= Weight(s)
    BY <1>3 DEF Weight
<1> QED
    BY <1>1, <1>2, <1>3, <1>4, <1>5 DEF RingOK, ScreenOK, LineOK, Weight

\* The locals of all shells, the terminals and the script have their types.
LEMMA LinesTypes == LinesInv /\ ScriptInv /\ OffsetOK /\ ForeignOK => TypeOK
<1> SUFFICES ASSUME LinesInv, ScriptInv, OffsetOK, ForeignOK PROVE TypeOK
    OBVIOUS
<1>1. keys \in Nat /\ keys <= KEYBOARD_COMMAND_BUFFER_LENGTH
    BY TerminalAssumption, ShellAssumption DEF LinesInv
<1>2. ASSUME NEW v \in Vts
      PROVE  /\ vt[v].cursor_row \in Rows /\ vt[v].cursor_column \in Cols
             /\ vt[v].repaint_flags \subseteq Cells /\ DOMAIN vt[v].terminal_buffer = Cells
             /\ vt[v].input_rb_head_idx \in Slots /\ vt[v].input_rb_tail_idx \in Slots
             /\ shell[v].pc \in {"none", "start", "read", "escape", "waitpid", "exited"}
             /\ DOMAIN shell[v].keyboard_command_buffer = Positions
             /\ shell[v].keyboard_command_length \in 0 .. KEYBOARD_COMMAND_BUFFER_LENGTH
             /\ shell[v].cursor_end_offset \in 0 .. shell[v].keyboard_command_length
  <2>1. Paired(vt[v], shell[v], keys)
    BY DEF LinesInv
  <2> QED
    BY <1>1, <2>1, PairedTypes
<1>3. script.pc \in {"none", "open", "read", "waitpid", "exited"}
    BY DEF ScriptInv, ScriptType, ScriptPcs
<1> QED
    BY <1>2, <1>3 DEF TypeOK, LinesInv, OffsetOK, ForeignOK, Slots

\* What is kept in every reachable state.
LEMMA LinesAlways ==
    ASSUME EnterAtEnd PROVE Spec => [](LinesInv /\ ScriptInv /\ OffsetOK /\ ForeignOK)
<1>1. Init => LinesInv /\ ScriptInv /\ OffsetOK /\ ForeignOK
  <2> SUFFICES ASSUME Init PROVE LinesInv /\ ScriptInv /\ OffsetOK /\ ForeignOK
    OBVIOUS
  <2>1. ScriptInv
    BY ScriptInitially
  <2>2. script.offset = 0
    BY DEF Init, NewScript
  <2>3. script.text \in Seq(STRING)
    BY <2>1 DEF ScriptInv, ScriptType
  <2>4. Len(script.text) \in Nat
    BY <2>3, LenProperties
  <2>5. ForeignOK
    BY ShellAssumption DEF Init, ForeignOK
  <2> QED
    BY <2>1, <2>2, <2>4, <2>5, LinesInitially DEF OffsetOK
<1>2. LinesInv /\ ScriptInv /\ OffsetOK /\ ForeignOK /\ [Next]_vars
        => (LinesInv /\ ScriptInv /\ OffsetOK /\ ForeignOK)'
    BY LinesPreserved, ScriptPreserved, OffsetPreserved, ForeignPreserved
<1> QED
    BY <1>1, <1>2, PTL DEF Spec

\* shell.c and tty.c: with Enter pressed at the end of the line, no line grows
\* beyond its buffer, no cursor leaves its line or the screen, and no index its
\* ring or its file; however the keys of an arrow are torn by a full ring.
THEOREM LinesFitTheirBuffers == ASSUME EnterAtEnd PROVE Spec => []TypeOK
    BY LinesAlways, LinesTypes, PTL

\* A step of the shell is a step of LineEditor.
LEMMA EditsNext ==
    ASSUME Edits(shell[1], shell'[1])
    PROVE  [Editor1!Next]_(Editor1!vars)
<1>1. /\ Editor(1).before = TextBefore(shell[1]) /\ Editor(1).after = TextAfter(shell[1])
      /\ Editor(1).history = TextHistory(shell[1])
    BY DEF Editor, TextBefore, TextAfter, TextHistory, Waits
<1>2. /\ Editor(1)'.before = TextBefore(shell'[1]) /\ Editor(1)'.after = TextAfter(shell'[1])
      /\ Editor(1)'.history = TextHistory(shell'[1])
    BY DEF Editor, TextBefore, TextAfter, TextHistory, Waits
<1>3. \A s : Editor1!Front(s) = Front(s) /\ Editor1!Last(s) = Last(s)
    BY DEF Front, Last, Editor1!Front, Editor1!Last
<1> QED
    BY <1>1, <1>2, <1>3 DEF Edits, Editor1!Next, Editor1!vars, Editor1!Type, Editor1!Erase, Editor1!Left,
                            Editor1!Right, Editor1!Recall, Editor1!Enter

\* shell.c: with Enter pressed at the end of the line, the buffers, lengths and
\* offset that main's loops change in place implement LineEditor.
THEOREM ShellIsALineEditor == ASSUME EnterAtEnd PROVE Spec => EditsALine
<1>1. Init => Editor1!Init
  <2> SUFFICES ASSUME Init PROVE Editor1!Init
    OBVIOUS
  <2>1. PICK pc : pc \in {"start", "none"} /\ shell = [v \in Vts |-> NewShell(pc)]
    BY DEF Init
  <2> DEFINE s == shell[1]
  <2>2. /\ s.pc = pc /\ s.keyboard_command_length = 0 /\ s.prev_keyboard_command_length = 0
        /\ s.cursor_end_offset = 0
    BY <2>1, TerminalAssumption DEF NewShell
  <2>3. LineOK(s)
    BY LinesInitially, TerminalAssumption DEF LinesInv, Paired
  <2>4. /\ Editor(1).before = TextBefore(s) /\ Editor(1).after = TextAfter(s)
        /\ Editor(1).history = TextHistory(s)
    BY DEF Editor, TextBefore, TextAfter, TextHistory, Waits
  <2> HIDE DEF s
  <2>5. ~ Waits(s)
    BY <2>1, <2>2 DEF Waits
  <2>6. /\ Sequence(TextBefore(s)) /\ Len(TextBefore(s)) = 0 - 0
        /\ Sequence(TextAfter(s)) /\ Len(TextAfter(s)) = 0
    BY <2>2, <2>3, <2>5, TextElements
  <2>7. Sequence(TextHistory(s)) /\ Len(TextHistory(s)) = 0
    BY <2>2, LineElements DEF TextHistory
  <2>8. TextBefore(s) = <<>> /\ TextAfter(s) = <<>> /\ TextHistory(s) = <<>>
    BY <2>6, <2>7, NoElements
  <2> QED
    BY <2>4, <2>8 DEF Editor1!Init
<1>2. LinesInv /\ [Next]_vars => [Editor1!Next]_(Editor1!vars)
  <2> SUFFICES ASSUME LinesInv, [Next]_vars PROVE [Editor1!Next]_(Editor1!vars)
    OBVIOUS
  <2>1. Edits(shell[1], shell'[1])
    BY LinesPreserved, TerminalAssumption DEF EditsLines
  <2> QED
    BY <2>1, EditsNext
<1>3. Spec => []LinesInv
    BY LinesAlways, PTL
<1> QED
    BY <1>1, <1>2, <1>3, PTL DEF Spec, EditsALine, Editor1!Spec

-----------------------------------------------------------------------------
(* The line on the screen.                                                 *)

\* A character that is shown as itself.
Plain(c) == c \notin {NUL, ESC, NL, CR, BS, ERASE}

Drawable(d) == Device(d) /\ ScreenOK(d)

\* No escape sequence is open, and nothing is below the cursor's row.
Calm(d) ==
    /\ d.escape_state = "VT_ESCAPE_NONE"
    /\ \A x \in Cells : x[1] > d.cursor_row => Glyph(d.terminal_buffer[x]) = SPACE

\* The cursor's row shows the first n characters of the text, and the cursor is
\* in column k.
Shows(d, text, n, k) ==
    /\ Calm(d) /\ d.cursor_column = k
    /\ \A x \in Cols : Glyph(d.terminal_buffer[<<d.cursor_row, x>>]) = IF x < n THEN text[x + 1] ELSE SPACE

\* What vt_set_cursor changes.
LEMMA CursorFields ==
    ASSUME NEW d, Device(d), NEW row, NEW column
    PROVE  LET e == vt_set_cursor(d, row, column)
           IN e.cursor_row = row /\ e.cursor_column = column /\ e.terminal_buffer = d.terminal_buffer
              /\ e.escape_state = d.escape_state /\ Device(e)
    BY DEF vt_set_cursor, Device, DeviceFields

\* What vt_set_char changes.
LEMMA CharFields ==
    ASSUME NEW d, Device(d), NEW new
    PROVE  LET e == vt_set_char(d, new)
           IN e.cursor_row = d.cursor_row /\ e.cursor_column = d.cursor_column
              /\ e.escape_state = d.escape_state /\ Device(e)
              /\ \A x \in Cells : e.terminal_buffer[x] = IF x \in DOMAIN new THEN new[x] ELSE d.terminal_buffer[x]
<1> DEFINE e == vt_set_char(d, new)
<1>1. /\ e.cursor_row = d.cursor_row /\ e.cursor_column = d.cursor_column
      /\ e.escape_state = d.escape_state /\ Device(e)
      /\ e.terminal_buffer = [x \in Cells |-> IF x \in DOMAIN new THEN new[x] ELSE d.terminal_buffer[x]]
    BY DEF vt_set_char, Device, DeviceFields
<1> HIDE DEF e
<1> QED
    BY <1>1 DEF e

\* A cell is in a row and a column.
LEMMA CellParts ==
    /\ \A x \in Cells : x[1] \in Rows /\ x[2] \in Cols /\ x = <<x[1], x[2]>>
    /\ \A r \in Rows, k \in Cols : <<r, k>> \in Cells /\ <<r, k>>[1] = r /\ <<r, k>>[2] = k
    /\ \A r \in Rows : r \in Int /\ 0 <= r /\ r < terminal_height
    /\ \A k \in Cols : k \in Int /\ 0 <= k /\ k < terminal_width
    /\ terminal_height \in Nat /\ terminal_width \in Nat /\ terminal_height > 0 /\ terminal_width > 0
    BY TerminalAssumption DEF Cells, Rows, Cols

\* The next row is empty, and what was below it is still below the cursor.
LEMMA NextRowShows ==
    ASSUME NEW d, Drawable(d), Calm(d), NEW text
    PROVE  Shows(NextRow(d), text, 0, 0)
<1> DEFINE r == d.cursor_row
           H == terminal_height
<1>1. Device(d) /\ r \in Rows /\ r \in Int /\ r < H /\ H \in Nat
    BY CellParts DEF Drawable, ScreenOK
<1>2. CASE r = H - 1
  <2> DEFINE c == vt_set_cursor(d, r, 0)
             new == [x \in Cells |-> IF x[1] < H - 1 THEN c.terminal_buffer[<<x[1] + 1, x[2]>>] ELSE SPACE]
             e == vt_set_char(c, new)
  <2>1. NextRow(d) = e
    BY <1>2 DEF NextRow, vt_shift_rows
  <2>2. c.cursor_row = r /\ c.cursor_column = 0 /\ c.escape_state = d.escape_state /\ Device(c)
    BY <1>1, CursorFields
  <2>3. DOMAIN new = Cells /\ \A x \in Cells : x[1] = H - 1 => new[x] = SPACE
    BY <1>1
  <2> HIDE DEF c, new
  <2>4. /\ e.cursor_row = r /\ e.cursor_column = 0 /\ e.escape_state = d.escape_state
        /\ \A x \in Cells : e.terminal_buffer[x] = new[x]
    BY <2>2, <2>3, CharFields
  <2> HIDE DEF e
  <2>5. Glyph(SPACE) = SPACE
    BY DEF Glyph, SPACE, NUL, ESC, NL, CR, BS, ERASE
  <2>6. Calm(e)
    BY <1>1, <1>2, <2>4, CellParts DEF Calm
  <2>7. ASSUME NEW x \in Cols PROVE Glyph(e.terminal_buffer[<<r, x>>]) = SPACE
    <3>1. <<r, x>> \in Cells /\ <<r, x>>[1] = r
      BY <1>1, CellParts
    <3> DEFINE y == <<r, x>>
    <3> HIDE DEF y
    <3>2. e.terminal_buffer[y] = SPACE
      BY <1>2, <2>3, <2>4, <3>1 DEF y
    <3> QED
      BY <2>5, <3>2 DEF y
  <2>8. \A x \in Cols : Glyph(e.terminal_buffer[<<e.cursor_row, x>>]) = IF x < 0 THEN text[x + 1] ELSE SPACE
    BY <2>4, <2>7, CellParts
  <2> QED
    BY <2>1, <2>4, <2>6, <2>8 DEF Shows
<1>3. CASE r # H - 1
  <2> DEFINE e == vt_set_cursor(d, r + 1, 0)
  <2>1. NextRow(d) = e
    BY <1>3 DEF NextRow
  <2>2. /\ e.cursor_row = r + 1 /\ e.cursor_column = 0 /\ e.escape_state = d.escape_state
        /\ e.terminal_buffer = d.terminal_buffer
    BY <1>1, CursorFields
  <2> HIDE DEF e
  <2>3. r + 1 \in Rows
    BY <1>1, <1>3 DEF Rows
  <2>4. ASSUME NEW x \in Cells, x[1] > r PROVE Glyph(e.terminal_buffer[x]) = SPACE
    BY <2>2, <2>4 DEF Calm
  <2>5. Calm(e)
    BY <1>1, <2>2, <2>4, CellParts DEF Calm
  <2>6. ASSUME NEW x \in Cols PROVE Glyph(e.terminal_buffer[<<r + 1, x>>]) = SPACE
    <3>1. <<r + 1, x>> \in Cells /\ <<r + 1, x>>[1] = r + 1
      BY <2>3, CellParts
    <3> QED
      BY <1>1, <2>4, <3>1
  <2>7. \A x \in Cols : Glyph(e.terminal_buffer[<<e.cursor_row, x>>]) = IF x < 0 THEN text[x + 1] ELSE SPACE
    BY <2>2, <2>6, CellParts
  <2> QED
    BY <2>1, <2>2, <2>5, <2>7 DEF Shows
<1> QED
    BY <1>2, <1>3

\* A newline, whatever is on the row it ends.
LEMMA NewlineShows ==
    ASSUME NEW d, Drawable(d), Calm(d), NEW text
    PROVE  Shows(PutChar(d, NL), text, 0, 0)
<1>1. PutChar(d, NL) = NextRow(d)
    BY DEF PutChar, PlainChar, Calm, NL, ESC, CR, BS
<1> QED
    BY <1>1, NextRowShows

\* A character that is shown.
LEMMA PlainShows ==
    ASSUME NEW d, Drawable(d), Calm(d), NEW c, Plain(c)
    PROVE  /\ Calm(PutChar(d, c))
           /\ \A text : \A n \in Nat : Shows(d, text, n, n) /\ n + 1 < terminal_width /\ text[n + 1] = c
                          => Shows(PutChar(d, c), text, n + 1, n + 1)
<1> DEFINE r == d.cursor_row
           k == d.cursor_column
           new == [x \in {<<r, k>>} |-> c]
           e == vt_set_char(d, new)
           f == vt_set_cursor(e, e.cursor_row, e.cursor_column + 1)
<1>1. Device(d) /\ r \in Rows /\ k \in Cols /\ r \in Int /\ k \in Int
    BY CellParts DEF Drawable, ScreenOK
<1>2. PutChar(d, c) = IF k = terminal_width - 1 THEN NextRow(e) ELSE f
    BY DEF PutChar, PlainChar, Calm, Plain
<1>3. DOMAIN new = {<<r, k>>} /\ new[<<r, k>>] = c /\ <<r, k>> \in Cells
    BY <1>1, CellParts
<1> HIDE DEF new
<1>4. /\ e.cursor_row = r /\ e.cursor_column = k /\ e.escape_state = d.escape_state /\ Device(e)
      /\ \A x \in Cells : e.terminal_buffer[x] = IF x = <<r, k>> THEN c ELSE d.terminal_buffer[x]
    BY <1>1, <1>3, CharFields
<1>5. ScreenOK(e)
  <2>1. DOMAIN new \subseteq Cells
    BY <1>3
  <2> QED
    BY <1>1, <2>1, SetCharFits DEF Drawable
<1> HIDE DEF e
<1>6. ASSUME NEW x \in Cells, x[1] # r PROVE e.terminal_buffer[x] = d.terminal_buffer[x]
  <2>1. x # <<r, k>>
    BY <1>6, CellParts, <1>1
  <2> QED
    BY <1>4, <2>1
<1>7. Calm(e)
  <2> SUFFICES ASSUME NEW x \in Cells, x[1] > r PROVE Glyph(e.terminal_buffer[x]) = SPACE
    BY <1>4 DEF Calm
  <2>1. x[1] # r
    BY <1>1, CellParts
  <2> QED
    BY <1>6, <2>1 DEF Calm
<1>8. /\ f.cursor_row = r /\ f.cursor_column = k + 1 /\ f.escape_state = e.escape_state
      /\ f.terminal_buffer = e.terminal_buffer
    BY <1>4, CursorFields
<1> HIDE DEF f
<1>9. Calm(f)
    BY <1>4, <1>7, <1>8 DEF Calm
<1>10. Calm(NextRow(e))
    BY <1>4, <1>5, <1>7, NextRowShows DEF Drawable, Shows
<1>11. ASSUME NEW text, NEW n \in Nat, Shows(d, text, n, n), n + 1 < terminal_width, text[n + 1] = c
       PROVE  Shows(f, text, n + 1, n + 1) /\ k # terminal_width - 1
  <2>1. k = n
    BY <1>11 DEF Shows
  <2>2. ASSUME NEW x \in Cols
        PROVE  Glyph(f.terminal_buffer[<<r, x>>]) = IF x < n + 1 THEN text[x + 1] ELSE SPACE
    <3>1. <<r, x>> \in Cells /\ x \in Int
      BY <1>1, CellParts
    <3>2. CASE x = n
      <4>1. f.terminal_buffer[<<r, x>>] = c
        BY <1>4, <1>8, <2>1, <3>1, <3>2
      <4>2. Glyph(c) = c
        BY DEF Glyph, Plain
      <4> QED
        BY <1>11, <3>2, <4>1, <4>2
    <3>3. CASE x # n
      <4>1. <<r, x>> # <<r, k>>
        BY <2>1, <3>3
      <4>2. f.terminal_buffer[<<r, x>>] = d.terminal_buffer[<<r, x>>]
        BY <1>4, <1>8, <3>1, <4>1
      <4>3. Glyph(d.terminal_buffer[<<r, x>>]) = IF x < n THEN text[x + 1] ELSE SPACE
        BY <1>11 DEF Shows
      <4> QED
        BY <3>1, <3>3, <4>2, <4>3
    <3> QED
      BY <3>2, <3>3
  <2>3. Shows(f, text, n + 1, n + 1)
    BY <1>8, <1>9, <2>1, <2>2 DEF Shows
  <2> QED
    BY <1>11, <2>1, <2>3, CellParts
<1> QED
    BY <1>2, <1>9, <1>10, <1>11

\* Two loops over the same bytes are in the same state after each turn.
LEMMA TurnsAgree ==
    ASSUME NEW d, NEW n \in Nat, NEW m \in Nat, m <= n, NEW bytes, NEW more, NEW g, NEW h,
           Turns("output", g, n, d, bytes), Turns("output", h, m, d, more),
           \A i \in 1 .. m : more[i] = bytes[i]
    PROVE  g[m] = h[m]
<1> DEFINE Bad == {k \in 0 .. m : g[k] # h[k]}
<1>1. Bad = {}
  <2> SUFFICES ASSUME Bad # {} PROVE FALSE
    OBVIOUS
  <2>1. Bad \in SUBSET Nat
    OBVIOUS
  <2>2. PICK k \in Bad : \A j \in Bad : k <= j
    BY <2>1, LeastNatural
  <2>3. k # 0
    BY <2>2 DEF Turns
  <2>4. k \in 1 .. m /\ k \in 1 .. n /\ k - 1 \in 0 .. m /\ g[k - 1] = h[k - 1]
    BY <2>2, <2>3
  <2>5. g[k] = Turn("output", g[k - 1], bytes[k]) /\ h[k] = Turn("output", h[k - 1], more[k])
    BY <2>4 DEF Turns
  <2>6. more[k] = bytes[k]
    BY <2>4
  <2> QED
    BY <2>2, <2>4, <2>5, <2>6
<1>2. m \in 0 .. m
    OBVIOUS
<1> QED
    BY <1>1, <1>2

\* Writing one sequence after another is writing both.
LEMMA FoldConcat ==
    ASSUME NEW d, NEW s, NEW t, Sequence(s), Sequence(t)
    PROVE  FoldLeft(PutChar, d, s \o t) = FoldLeft(PutChar, FoldLeft(PutChar, d, s), t)
<1> DEFINE n == Len(s)
           m == Len(t)
           st == s \o t
           a == FoldLeft(PutChar, d, s)
<1>1. n \in Nat /\ m \in Nat /\ DOMAIN s = 1 .. n /\ DOMAIN t = 1 .. m
    BY SequenceDomain
<1>2. /\ Sequence(st) /\ Len(st) = n + m
      /\ \A i \in 1 .. n : st[i] = s[i]
      /\ \A i \in 1 .. m : st[n + i] = t[i]
    BY ConcatElements
<1> HIDE DEF st, n, m
<1>3. DOMAIN st = 1 .. n + m /\ n + m \in Nat
    BY <1>1, <1>2, SequenceDomain
<1>4. PICK f : Turns("output", f, n, d, s) /\ a = f[n]
    BY <1>1, OutputTurns
<1>5. PICK g : Turns("output", g, m, a, t) /\ FoldLeft(PutChar, a, t) = g[m]
    BY <1>1, OutputTurns
<1>6. PICK h : Turns("output", h, n + m, d, st) /\ FoldLeft(PutChar, d, st) = h[n + m]
    BY <1>3, OutputTurns
<1> HIDE DEF a
<1>7. h[n] = a
  <2>1. n <= n + m /\ \A i \in 1 .. n : s[i] = st[i]
    BY <1>1, <1>2
  <2> QED
    BY <1>1, <1>3, <1>4, <1>6, <2>1, TurnsAgree
<1> DEFINE k == [i \in 0 .. m |-> h[n + i]]
<1>8. Turns("output", k, m, a, t)
  <2>1. k[0] = a
    BY <1>1, <1>7
  <2>2. ASSUME NEW i \in 1 .. m PROVE k[i] = Turn("output", k[i - 1], t[i])
    <3>1. n + i \in 1 .. n + m /\ (n + i) - 1 = n + (i - 1) /\ i \in 0 .. m /\ i - 1 \in 0 .. m
      BY <1>1
    <3>2. h[n + i] = Turn("output", h[(n + i) - 1], st[n + i])
      BY <1>6, <3>1 DEF Turns
    <3>3. k[i] = h[n + i] /\ k[i - 1] = h[n + (i - 1)]
      BY <3>1
    <3> HIDE DEF k
    <3> QED
      BY <1>2, <3>1, <3>2, <3>3
  <2> HIDE DEF k
  <2> QED
    BY <2>1, <2>2 DEF Turns
<1>9. k[m] = h[n + m]
    BY <1>1
<1> HIDE DEF k
<1>10. g[m] = k[m]
    BY <1>1, <1>5, <1>8, TurnsAgree
<1> QED
    BY <1>5, <1>6, <1>9, <1>10 DEF a, st

\* Short sequences, character by character.
LEMMA FoldShort ==
    ASSUME NEW d, NEW s, NEW n \in Nat, DOMAIN s = 1 .. n
    PROVE  /\ n = 0 => FoldLeft(PutChar, d, s) = d
           /\ n = 1 => FoldLeft(PutChar, d, s) = PutChar(d, s[1])
           /\ n = 3 => FoldLeft(PutChar, d, s) = PutChar(PutChar(PutChar(d, s[1]), s[2]), s[3])
           /\ n = 4 => FoldLeft(PutChar, d, s) = PutChar(PutChar(PutChar(PutChar(d, s[1]), s[2]), s[3]), s[4])
<1>1. PICK h : Turns("output", h, n, d, s) /\ FoldLeft(PutChar, d, s) = h[n]
    BY OutputTurns
<1>2. h[0] = d
    BY <1>1 DEF Turns
<1>3. ASSUME NEW k \in 1 .. n PROVE h[k] = PutChar(h[k - 1], s[k])
    BY <1>1 DEF Turns, Turn
<1>4. /\ n >= 1 => h[1] = PutChar(h[0], s[1])
      /\ n >= 2 => h[2] = PutChar(h[1], s[2])
      /\ n >= 3 => h[3] = PutChar(h[2], s[3])
      /\ n >= 4 => h[4] = PutChar(h[3], s[4])
    BY <1>3
<1> QED
    BY <1>1, <1>2, <1>4

\* What a write leaves can be drawn on.
LEMMA WriteDrawable ==
    ASSUME NEW d, Drawable(d)
    PROVE  /\ \A bytes : Sequence(bytes) => Drawable(FoldLeft(PutChar, d, bytes))
           /\ \A c : Drawable(PutChar(d, c))
<1>1. ASSUME NEW bytes, Sequence(bytes) PROVE Drawable(FoldLeft(PutChar, d, bytes))
  <2>1. Device(d) /\ ScreenOK(d)
    BY DEF Drawable
  <2>2. Draws(d, FoldLeft(PutChar, d, bytes)) /\ ScreenOK(FoldLeft(PutChar, d, bytes))
    BY <1>1, <2>1, SequenceDomain, WriteDraws, WriteFits
  <2> QED
    BY <2>2 DEF Draws, Drawable
<1>2. ASSUME NEW c PROVE Drawable(PutChar(d, c))
    BY PutCharDraws, PutCharFits DEF Draws, Drawable
<1> QED
    BY <1>1, <1>2

\* The four fields that a picture is about.
SamePicture(d, e) ==
    /\ e.cursor_row = d.cursor_row /\ e.cursor_column = d.cursor_column
    /\ e.terminal_buffer = d.terminal_buffer /\ e.escape_state = d.escape_state

\* Terminals with the same picture show the same.
LEMMA SameShows ==
    ASSUME NEW d, NEW e, SamePicture(d, e)
    PROVE  /\ Calm(d) => Calm(e)
           /\ \A text, n, k : Shows(d, text, n, k) => Shows(e, text, n, k)
    BY DEF SamePicture, Calm, Shows

\* An empty row shows the beginning of every text, and texts that begin alike
\* are shown alike.
LEMMA ShowsPrefix ==
    ASSUME NEW d, NEW text, NEW other, NEW n \in Nat, NEW k, Shows(d, text, n, k),
           \A i \in 1 .. n : other[i] = text[i]
    PROVE  Shows(d, other, n, k)
<1> SUFFICES ASSUME NEW x \in Cols
             PROVE  Glyph(d.terminal_buffer[<<d.cursor_row, x>>]) = IF x < n THEN other[x + 1] ELSE SPACE
    BY DEF Shows
<1>1. x \in Int /\ 0 <= x
    BY CellParts
<1>2. x < n => x + 1 \in 1 .. n
    BY <1>1
<1>3. Glyph(d.terminal_buffer[<<d.cursor_row, x>>]) = IF x < n THEN text[x + 1] ELSE SPACE
    BY DEF Shows
<1> QED
    BY <1>2, <1>3

\* An escape sequence, begun where none is open.
LEMMA EscapePicture ==
    ASSUME NEW d, Drawable(d), Calm(d), NEW c
    PROVE  \E p, f : /\ Drawable(p)
                     /\ p.cursor_row = d.cursor_row /\ p.cursor_column = d.cursor_column
                     /\ p.terminal_buffer = d.terminal_buffer
                     /\ f = EscapeCode(p, c) /\ Device(f)
                     /\ PutChar(PutChar(PutChar(d, ESC), "["), c) = [f EXCEPT !.escape_state = "VT_ESCAPE_NONE"]
<1> DEFINE a == [d EXCEPT !.escape_state = "VT_ESCAPE_ESC"]
           p == [a EXCEPT !.escape_state = "VT_ESCAPE_ESC_PAREN"]
           f == EscapeCode(p, c)
<1>1. PutChar(d, ESC) = a
    BY DEF PutChar, Calm
<1>2. a.escape_state = "VT_ESCAPE_ESC" /\ p.escape_state = "VT_ESCAPE_ESC_PAREN"
    BY DEF Drawable, Device, DeviceFields
<1>3. PutChar(a, "[") = p
    BY <1>2 DEF PutChar
<1>4. PutChar(p, c) = [f EXCEPT !.escape_state = "VT_ESCAPE_NONE"]
    BY <1>2 DEF PutChar
<1>5. /\ p.cursor_row = d.cursor_row /\ p.cursor_column = d.cursor_column
      /\ p.terminal_buffer = d.terminal_buffer
    BY DEF Drawable, Device, DeviceFields
<1> HIDE DEF a, p
<1>6. Drawable(p)
  <2>1. Drawable(a)
    BY <1>1, WriteDrawable
  <2> QED
    BY <1>3, <2>1, WriteDrawable
<1>7. Device(f)
    BY <1>6, EscapeCodeDraws DEF Drawable, Draws
<1> QED
    BY <1>1, <1>3, <1>4, <1>5, <1>6, <1>7

\* The cursor one to the left.
LEMMA LeftShows ==
    ASSUME NEW d, Drawable(d), Calm(d)
    PROVE  LET e == PutChar(PutChar(PutChar(d, ESC), "["), "D")
           IN /\ Calm(e)
              /\ \A text, n : \A k \in Nat \ {0} : Shows(d, text, n, k) => Shows(e, text, n, k - 1)
<1> DEFINE e == PutChar(PutChar(PutChar(d, ESC), "["), "D")
<1>1. PICK p, f : /\ Drawable(p)
                  /\ p.cursor_row = d.cursor_row /\ p.cursor_column = d.cursor_column
                  /\ p.terminal_buffer = d.terminal_buffer
                  /\ f = EscapeCode(p, "D") /\ Device(f)
                  /\ e = [f EXCEPT !.escape_state = "VT_ESCAPE_NONE"]
    BY EscapePicture
<1> HIDE DEF e
<1>2. /\ e.cursor_row = f.cursor_row /\ e.cursor_column = f.cursor_column
      /\ e.terminal_buffer = f.terminal_buffer /\ e.escape_state = "VT_ESCAPE_NONE"
    BY <1>1 DEF Device, DeviceFields
<1>3. f = IF p.cursor_column # 0 THEN vt_set_cursor(p, p.cursor_row, p.cursor_column - 1) ELSE p
    BY <1>1 DEF EscapeCode
<1>4. /\ f.cursor_row = d.cursor_row /\ f.terminal_buffer = d.terminal_buffer
      /\ d.cursor_column # 0 => f.cursor_column = d.cursor_column - 1
  <2>1. CASE p.cursor_column # 0
    BY <1>1, <1>3, <2>1, CursorFields DEF Drawable
  <2>2. CASE ~ (p.cursor_column # 0)
    BY <1>1, <1>3, <2>2
  <2> QED
    BY <2>1, <2>2
<1>5. Calm(e)
    BY <1>2, <1>4 DEF Calm
<1>6. ASSUME NEW text, NEW n, NEW k \in Nat \ {0}, Shows(d, text, n, k) PROVE Shows(e, text, n, k - 1)
    BY <1>2, <1>4, <1>5, <1>6 DEF Shows
<1> QED
    BY <1>5, <1>6 DEF e

\* The rest of the row is cleared from its first column.
LEMMA ClearShows ==
    ASSUME NEW d, Drawable(d), Calm(d), NEW text
    PROVE  Shows(FoldLeft(PutChar, d, <<CR, ESC, "[", "K">>), text, 0, 0)
<1> DEFINE r == d.cursor_row
           b == PutChar(d, CR)
           e == PutChar(PutChar(PutChar(b, ESC), "["), "K")
<1>1. FoldLeft(PutChar, d, <<CR, ESC, "[", "K">>) = e
  <2> DEFINE s == <<CR, ESC, "[", "K">>
  <2>1. DOMAIN s = 1 .. 4 /\ s[1] = CR /\ s[2] = ESC /\ s[3] = "[" /\ s[4] = "K"
    OBVIOUS
  <2> HIDE DEF s
  <2>2. FoldLeft(PutChar, d, s) = PutChar(PutChar(PutChar(PutChar(d, s[1]), s[2]), s[3]), s[4])
    BY <2>1, FoldShort
  <2>3. FoldLeft(PutChar, d, s) = e
    BY <2>1, <2>2
  <2> QED
    BY <2>3 DEF s
<1>2. b = vt_set_cursor(d, r, 0)
  <2>1. PutChar(d, CR) = PlainChar(d, CR)
    BY DEF PutChar, Calm, CR, ESC
  <2>2. PlainChar(d, CR) = vt_set_cursor(d, r, 0)
    BY DEF PlainChar, NL, CR, BS
  <2> QED
    BY <2>1, <2>2
<1>3. /\ b.cursor_row = r /\ b.cursor_column = 0 /\ b.terminal_buffer = d.terminal_buffer
      /\ b.escape_state = d.escape_state
    BY <1>2, CursorFields DEF Drawable
<1>4. Drawable(b)
    BY WriteDrawable
<1> HIDE DEF b
<1>5. Calm(b)
    BY <1>3 DEF Calm
<1>6. PICK p, f : /\ Drawable(p)
                  /\ p.cursor_row = b.cursor_row /\ p.cursor_column = b.cursor_column
                  /\ p.terminal_buffer = b.terminal_buffer
                  /\ f = EscapeCode(p, "K") /\ Device(f)
                  /\ e = [f EXCEPT !.escape_state = "VT_ESCAPE_NONE"]
    BY <1>4, <1>5, EscapePicture
<1> HIDE DEF e
<1>7. /\ e.cursor_row = f.cursor_row /\ e.cursor_column = f.cursor_column
      /\ e.terminal_buffer = f.terminal_buffer /\ e.escape_state = "VT_ESCAPE_NONE"
    BY <1>6 DEF Device, DeviceFields
<1> DEFINE new == [x \in {p.cursor_row} \X (p.cursor_column .. terminal_width - 1) |-> SPACE]
<1>8. f = vt_set_char(p, new)
    BY <1>6 DEF EscapeCode
<1>9. r \in Rows /\ r \in Int
    BY CellParts DEF Drawable, ScreenOK
<1>10. \A x \in Cells : x \in DOMAIN new <=> x[1] = r
  <2>1. DOMAIN new = {r} \X Cols
    BY <1>3, <1>6 DEF Cols
  <2> HIDE DEF new
  <2> QED
    BY <2>1, CellParts, <1>9
<1>11. \A x \in DOMAIN new : new[x] = SPACE
    OBVIOUS
<1> HIDE DEF new
<1>12. /\ f.cursor_row = r /\ f.cursor_column = 0
       /\ \A x \in Cells : f.terminal_buffer[x] = IF x[1] = r THEN SPACE ELSE d.terminal_buffer[x]
    BY <1>3, <1>6, <1>8, <1>10, <1>11, CharFields DEF Drawable
<1>13. Glyph(SPACE) = SPACE
    BY DEF Glyph, SPACE, NUL, ESC, NL, CR, BS, ERASE
<1>14. Calm(e)
  <2> SUFFICES ASSUME NEW x \in Cells, x[1] > r PROVE Glyph(e.terminal_buffer[x]) = SPACE
    BY <1>7, <1>12 DEF Calm
  <2> QED
    BY <1>7, <1>12, <1>13 DEF Calm
<1>15. ASSUME NEW x \in Cols PROVE Glyph(e.terminal_buffer[<<r, x>>]) = SPACE
    BY <1>7, <1>9, <1>12, <1>13, CellParts
<1>16. \A x \in Cols : Glyph(e.terminal_buffer[<<e.cursor_row, x>>]) = IF x < 0 THEN text[x + 1] ELSE SPACE
    BY <1>7, <1>12, <1>15, CellParts
<1> QED
    BY <1>1, <1>7, <1>12, <1>14, <1>16 DEF Shows

\* Characters that are shown, one after the other: the part of a text from its
\* position j on.
LEMMA TextShows ==
    ASSUME NEW d, Drawable(d), Calm(d), NEW s, Sequence(s), \A i \in 1 .. Len(s) : Plain(s[i])
    PROVE  /\ Calm(FoldLeft(PutChar, d, s))
           /\ \A text : \A j \in Nat :
                 /\ Shows(d, text, j, j) /\ j + Len(s) < terminal_width
                 /\ \A i \in 1 .. Len(s) : text[j + i] = s[i]
                 => Shows(FoldLeft(PutChar, d, s), text, j + Len(s), j + Len(s))
<1> DEFINE n == Len(s)
           e == FoldLeft(PutChar, d, s)
<1>1. n \in Nat /\ DOMAIN s = 1 .. n
    BY SequenceDomain
<1>2. PICK h : Turns("output", h, n, d, s) /\ e = h[n]
    BY <1>1, OutputTurns
<1> HIDE DEF n, e
<1>3. h[0] = d /\ \A k \in 1 .. n : h[k] = PutChar(h[k - 1], s[k])
    BY <1>2 DEF Turns, Turn
<1> DEFINE Bad == {k \in 0 .. n : ~ (Drawable(h[k]) /\ Calm(h[k]))}
<1>4. Bad = {}
  <2> SUFFICES ASSUME Bad # {} PROVE FALSE
    OBVIOUS
  <2>1. Bad \in SUBSET Nat
    OBVIOUS
  <2>2. PICK k \in Bad : \A i \in Bad : k <= i
    BY <2>1, LeastNatural
  <2>3. k # 0
    BY <1>3, <2>2
  <2>4. k \in 1 .. n /\ k - 1 \in 0 .. n /\ Drawable(h[k - 1]) /\ Calm(h[k - 1])
    BY <1>1, <2>2, <2>3
  <2>5. h[k] = PutChar(h[k - 1], s[k]) /\ Plain(s[k])
    BY <1>3, <2>4 DEF n
  <2>6. Drawable(h[k]) /\ Calm(h[k])
    BY <2>4, <2>5, WriteDrawable, PlainShows
  <2> QED
    BY <2>2, <2>6
<1>5. n \in 0 .. n
    BY <1>1
<1>6. ASSUME NEW text, NEW j \in Nat, Shows(d, text, j, j), j + n < terminal_width,
             \A i \in 1 .. n : text[j + i] = s[i]
      PROVE  Shows(e, text, j + n, j + n)
  <2> DEFINE Worse == {k \in 0 .. n : ~ Shows(h[k], text, j + k, j + k)}
  <2>1. Worse = {}
    <3> SUFFICES ASSUME Worse # {} PROVE FALSE
      OBVIOUS
    <3>1. Worse \in SUBSET Nat
      OBVIOUS
    <3>2. PICK k \in Worse : \A i \in Worse : k <= i
      BY <3>1, LeastNatural
    <3>3. k # 0
      BY <1>3, <1>6, <3>2
    <3>4. k \in 1 .. n /\ k - 1 \in 0 .. n /\ Shows(h[k - 1], text, j + (k - 1), j + (k - 1))
      BY <1>1, <3>2, <3>3
    <3>5. h[k] = PutChar(h[k - 1], s[k]) /\ Plain(s[k]) /\ Drawable(h[k - 1]) /\ Calm(h[k - 1])
      BY <1>3, <1>4, <3>4 DEF n
    <3> DEFINE m == j + (k - 1)
    <3>6. m \in Nat /\ m + 1 = j + k /\ m + 1 < terminal_width /\ text[m + 1] = s[k]
      BY <1>1, <1>6, <3>4, CellParts
    <3> HIDE DEF m
    <3>7. Shows(h[k - 1], text, m, m)
      BY <3>4 DEF m
    <3>8. Shows(h[k], text, m + 1, m + 1)
      BY <3>5, <3>6, <3>7, PlainShows
    <3> QED
      BY <3>2, <3>6, <3>8
  <2> QED
    BY <1>2, <1>5, <2>1
<1> QED
    BY <1>2, <1>4, <1>5, <1>6 DEF n, e

\* As many characters to the left.
LEMMA ArrowsShow ==
    ASSUME NEW d, Drawable(d), Calm(d), NEW o \in Nat
    PROVE  LET e == FoldLeft(PutChar, d, FlattenSeq([i \in 1 .. o |-> <<ESC, "[", "D">>]))
           IN /\ Calm(e)
              /\ \A text, n : \A k \in Nat : Shows(d, text, n, k) /\ o <= k => Shows(e, text, n, k - o)
<1> DEFINE one == <<ESC, "[", "D">>
           seqs == [i \in 1 .. o |-> one]
           Move(c) == FoldLeft(PutChar, c, one)
<1>1. Sequence(one) /\ DOMAIN one = 1 .. 3 /\ one[1] = ESC /\ one[2] = "[" /\ one[3] = "D"
  <2>1. one \in Seq({ESC, "[", "D"})
    OBVIOUS
  <2>2. DOMAIN one = 1 .. 3 /\ one[1] = ESC /\ one[2] = "[" /\ one[3] = "D"
    OBVIOUS
  <2> HIDE DEF one
  <2> QED
    BY <2>1, <2>2 DEF Sequence
<1>2. seqs = [i \in 1 .. o |-> one] /\ Len(seqs) = o /\ (o = 0 => seqs = <<>>)
    OBVIOUS
<1> HIDE DEF one
<1>3. ASSUME NEW c PROVE Move(c) = PutChar(PutChar(PutChar(c, ESC), "["), "D")
  <2>1. FoldLeft(PutChar, c, one) = PutChar(PutChar(PutChar(c, one[1]), one[2]), one[3])
    BY <1>1, FoldShort
  <2> QED
    BY <1>1, <2>1
<1>4. ASSUME NEW c, Drawable(c), Calm(c)
      PROVE  /\ Drawable(Move(c)) /\ Calm(Move(c))
             /\ \A text, n : \A k \in Nat \ {0} : Shows(c, text, n, k) => Shows(Move(c), text, n, k - 1)
    BY <1>1, <1>3, <1>4, WriteDrawable, LeftShows
<1> HIDE DEF Move
<1>5. CASE o = 0
  <2>1. FlattenSeq(seqs) = <<>>
    BY <1>2, <1>5 DEF FlattenSeq
  <2> DEFINE none == <<>>
  <2>2. 0 \in Nat /\ DOMAIN none = 1 .. 0
    OBVIOUS
  <2> HIDE DEF none
  <2>3. FoldLeft(PutChar, d, none) = d
    BY <2>2, FoldShort
  <2>4. FoldLeft(PutChar, d, FlattenSeq(seqs)) = d
    BY <2>1, <2>3 DEF none
  <2> QED
    BY <1>5, <2>4 DEF one
<1>6. CASE o # 0
  <2> DEFINE f == CHOOSE f : FlatEq(f, o, seqs)
             g == [i \in 0 .. o |-> IF i = 0 THEN d ELSE FoldLeft(PutChar, d, f[i])]
  <2>1. FlattenSeq(seqs) = f[o]
    BY <1>2, <1>6 DEF FlattenSeq, FlatEq
  <2>2. FlatEq(f, o, seqs)
    BY FlatExists
  <2> HIDE DEF f
  <2>3. \A i \in 1 .. o : f[i] = IF i = 1 THEN one ELSE f[i - 1] \o one
    BY <1>2, <2>2 DEF FlatEq
  <2>4. g[0] = d /\ (\A i \in 1 .. o : g[i] = FoldLeft(PutChar, d, f[i])) /\ 1 \in 1 .. o /\ o \in 1 .. o
    BY <1>6
  <2> HIDE DEF g, seqs
  <2> DEFINE Bad == {i \in 1 .. o : ~ (Sequence(f[i]) /\ g[i] = Move(g[i - 1]))}
  <2>5. Bad = {}
    <3> SUFFICES ASSUME Bad # {} PROVE FALSE
      OBVIOUS
    <3>1. Bad \in SUBSET Nat
      OBVIOUS
    <3>2. PICK i \in Bad : \A j \in Bad : i <= j
      BY <3>1, LeastNatural
    <3>3. i \in 1 .. o
      OBVIOUS
    <3>4. CASE i = 1
      <4>1. f[1] = one /\ 1 - 1 = 0
        BY <2>3, <2>4
      <4> QED
        BY <1>1, <2>4, <3>2, <3>4, <4>1 DEF Move
    <3>5. CASE i # 1
      <4>1. i - 1 \in 1 .. o /\ Sequence(f[i - 1])
        BY <3>2, <3>3, <3>5
      <4>2. f[i] = f[i - 1] \o one
        BY <2>3, <3>3, <3>5
      <4>3. Sequence(f[i - 1] \o one)
        BY <1>1, <4>1, SequenceConcat
      <4>4. FoldLeft(PutChar, d, f[i - 1] \o one) = FoldLeft(PutChar, FoldLeft(PutChar, d, f[i - 1]), one)
        BY <1>1, <4>1, FoldConcat
      <4>5. g[i] = Move(g[i - 1])
        BY <2>4, <3>3, <4>1, <4>2, <4>4 DEF Move
      <4> QED
        BY <3>2, <4>2, <4>3, <4>5
    <3> QED
      BY <3>4, <3>5
  <2>6. \A i \in 1 .. o : g[i] = Move(g[i - 1])
    BY <2>5
  <2> DEFINE Worse == {i \in 0 .. o : ~ (Drawable(g[i]) /\ Calm(g[i]))}
  <2>7. Worse = {}
    <3> SUFFICES ASSUME Worse # {} PROVE FALSE
      OBVIOUS
    <3>1. Worse \in SUBSET Nat
      OBVIOUS
    <3>2. PICK i \in Worse : \A j \in Worse : i <= j
      BY <3>1, LeastNatural
    <3>3. i # 0
      BY <2>4, <3>2
    <3>4. i \in 1 .. o /\ i - 1 \in 0 .. o /\ Drawable(g[i - 1]) /\ Calm(g[i - 1])
      BY <3>2, <3>3
    <3>5. Drawable(g[i]) /\ Calm(g[i])
      BY <1>4, <2>6, <3>4
    <3> QED
      BY <3>2, <3>5
  <2>8. ASSUME NEW text, NEW n, NEW k \in Nat, Shows(d, text, n, k), o <= k PROVE Shows(g[o], text, n, k - o)
    <3> DEFINE Wrong == {i \in 0 .. o : ~ Shows(g[i], text, n, k - i)}
    <3>1. Wrong = {}
      <4> SUFFICES ASSUME Wrong # {} PROVE FALSE
        OBVIOUS
      <4>1. Wrong \in SUBSET Nat
        OBVIOUS
      <4>2. PICK i \in Wrong : \A j \in Wrong : i <= j
        BY <4>1, LeastNatural
      <4>3. i # 0
        <5>1. k - 0 = k
          OBVIOUS
        <5> QED
          BY <2>4, <2>8, <4>2, <5>1
      <4>4. i \in 1 .. o /\ i - 1 \in 0 .. o /\ Shows(g[i - 1], text, n, k - (i - 1))
        BY <4>2, <4>3
      <4> DEFINE m == k - (i - 1)
      <4>5. m \in Nat \ {0} /\ m - 1 = k - i
        BY <2>8, <4>4
      <4> HIDE DEF m
      <4>6. Drawable(g[i - 1]) /\ Calm(g[i - 1]) /\ g[i] = Move(g[i - 1]) /\ Shows(g[i - 1], text, n, m)
        BY <2>6, <2>7, <4>4 DEF m
      <4>7. Shows(g[i], text, n, m - 1)
        BY <1>4, <4>5, <4>6
      <4> QED
        BY <4>2, <4>5, <4>7
    <3>2. o \in 0 .. o
      OBVIOUS
    <3> QED
      BY <3>1, <3>2
  <2>9. Calm(g[o])
    <3>1. o \in 0 .. o
      OBVIOUS
    <3> QED
      BY <2>7, <3>1
  <2>10. FoldLeft(PutChar, d, FlattenSeq(seqs)) = g[o]
    BY <2>1, <2>4
  <2> QED
    BY <2>8, <2>9, <2>10 DEF seqs, one
<1> QED
    BY <1>5, <1>6

\* What a command writes: characters that are shown and newlines, and a newline
\* at the end.
PlainOutput(o) ==
    /\ \A i \in 1 .. Len(o) : Plain(o[i]) \/ o[i] = NL
    /\ Len(o) > 0 => o[Len(o)] = NL

\* Such a text ends in an empty row, if it began in one.
LEMMA OutputShows ==
    ASSUME NEW d, Drawable(d), NEW s, Sequence(s), PlainOutput(s), NEW text,
           Shows(d, text, 0, 0) \/ (Calm(d) /\ Len(s) > 0)
    PROVE  Shows(FoldLeft(PutChar, d, s), text, 0, 0)
<1> DEFINE n == Len(s)
           e == FoldLeft(PutChar, d, s)
<1>1. n \in Nat /\ DOMAIN s = 1 .. n
    BY SequenceDomain
<1>2. PICK h : Turns("output", h, n, d, s) /\ e = h[n]
    BY <1>1, OutputTurns
<1>3. /\ \A i \in 1 .. n : Plain(s[i]) \/ s[i] = NL
      /\ n > 0 => s[n] = NL
    BY DEF PlainOutput
<1>4. n > 0 \/ Shows(d, text, 0, 0)
    OBVIOUS
<1> HIDE DEF n, e
<1>5. h[0] = d /\ \A k \in 1 .. n : h[k] = PutChar(h[k - 1], s[k])
    BY <1>2 DEF Turns, Turn
<1> DEFINE Bad == {k \in 0 .. n : ~ (Drawable(h[k]) /\ Calm(h[k]))}
<1>6. Bad = {}
  <2> SUFFICES ASSUME Bad # {} PROVE FALSE
    OBVIOUS
  <2>1. Bad \in SUBSET Nat
    OBVIOUS
  <2>2. PICK k \in Bad : \A i \in Bad : k <= i
    BY <2>1, LeastNatural
  <2>3. k # 0
    BY <1>5, <2>2 DEF Shows
  <2>4. k \in 1 .. n /\ k - 1 \in 0 .. n /\ Drawable(h[k - 1]) /\ Calm(h[k - 1])
    BY <1>1, <2>2, <2>3
  <2>5. h[k] = PutChar(h[k - 1], s[k])
    BY <1>5, <2>4
  <2>6. Drawable(h[k])
    BY <2>4, <2>5, WriteDrawable
  <2>7. CASE Plain(s[k])
    BY <2>2, <2>4, <2>5, <2>6, <2>7, PlainShows
  <2>8. CASE s[k] = NL
    BY <2>2, <2>4, <2>5, <2>6, <2>8, NewlineShows DEF Shows
  <2> QED
    BY <1>3, <2>4, <2>7, <2>8
<1>7. CASE n = 0
    BY <1>2, <1>4, <1>5, <1>7 DEF e
<1>8. CASE n # 0
  <2>1. n \in 1 .. n /\ n - 1 \in 0 .. n /\ s[n] = NL
    BY <1>1, <1>3, <1>8
  <2>2. Drawable(h[n - 1]) /\ Calm(h[n - 1]) /\ h[n] = PutChar(h[n - 1], NL)
    BY <1>5, <1>6, <2>1
  <2> QED
    BY <1>2, <2>2, NewlineShows DEF e
<1> QED
    BY <1>7, <1>8

\* The prompt and the line behind it.
ShownLine(buffer, length) == command_prompt \o LineOf(buffer, length)

\* A line of that length is on the screen as it is, if it fits its row.
Displays(d, buffer, length, offset) ==
    /\ Calm(d)
    /\ length + 2 < terminal_width =>
          Shows(d, ShownLine(buffer, length), length + 2, (length + 2) - offset)

\* The prompt and the line, element by element.
LEMMA ShownElements ==
    ASSUME NEW buffer, NEW length \in Nat
    PROVE  /\ Sequence(command_prompt) /\ Len(command_prompt) = 2
           /\ \A i \in 1 .. 2 : Plain(command_prompt[i])
           /\ Sequence(ShownLine(buffer, length)) /\ Len(ShownLine(buffer, length)) = length + 2
           /\ \A i \in 1 .. 2 : ShownLine(buffer, length)[i] = command_prompt[i]
           /\ \A i \in 1 .. length : ShownLine(buffer, length)[2 + i] = buffer[i - 1]
<1> DEFINE p == command_prompt
           f == LineOf(buffer, length)
<1>1. Sequence(p)
    BY MessagesAreSequences
<1>2. Len(p) = 2 /\ p[1] = "#" /\ p[2] = SPACE
    BY DEF command_prompt
<1>3. Plain("#") /\ Plain(SPACE)
    BY DEF Plain, NUL, ESC, NL, CR, BS, ERASE, SPACE
<1>4. \A i \in 1 .. 2 : Plain(p[i])
  <2>1. \A i \in 1 .. 2 : i = 1 \/ i = 2
    OBVIOUS
  <2> HIDE DEF p
  <2> QED
    BY <1>2, <1>3, <2>1
<1>5. Sequence(f) /\ Len(f) = length /\ \A i \in 1 .. length : f[i] = buffer[i - 1]
    BY LineElements
<1> HIDE DEF p, f
<1>6. /\ Sequence(p \o f) /\ Len(p \o f) = Len(p) + Len(f)
      /\ \A i \in 1 .. Len(p) : (p \o f)[i] = p[i]
      /\ \A i \in 1 .. Len(f) : (p \o f)[Len(p) + i] = f[i]
  <2>1. Sequence(p) /\ Sequence(f)
    BY <1>1, <1>5
  <2> QED
    BY <2>1, ConcatElements
<1> DEFINE pf == p \o f
<1> HIDE DEF pf
<1>7. /\ Sequence(pf) /\ Len(pf) = length + 2
      /\ \A i \in 1 .. 2 : pf[i] = p[i]
      /\ \A i \in 1 .. length : pf[2 + i] = buffer[i - 1]
    BY <1>2, <1>5, <1>6 DEF pf
<1>8. ShownLine(buffer, length) = pf
    BY DEF pf, p, f, ShownLine
<1> QED
    BY <1>1, <1>2, <1>4, <1>7, <1>8 DEF p

\* The prompt in an empty row.
LEMMA PromptShows ==
    ASSUME NEW d, Drawable(d), NEW buffer, NEW length \in Nat, Shows(d, ShownLine(buffer, length), 0, 0)
    PROVE  LET e == FoldLeft(PutChar, d, command_prompt)
           IN /\ Drawable(e) /\ Calm(e)
              /\ 2 < terminal_width => Shows(e, ShownLine(buffer, length), 2, 2)
<1> DEFINE p == command_prompt
           text == ShownLine(buffer, length)
           e == FoldLeft(PutChar, d, p)
<1>1. Sequence(p) /\ Len(p) = 2 /\ (\A i \in 1 .. Len(p) : Plain(p[i])) /\ \A i \in 1 .. Len(p) : text[i] = p[i]
    BY ShownElements
<1>2. Calm(d) /\ Shows(d, text, 0, 0)
    BY DEF Shows
<1> HIDE DEF p, text
<1>3. Calm(e) /\ \A more : \A j \in Nat :
           /\ Shows(d, more, j, j) /\ j + Len(p) < terminal_width
           /\ \A i \in 1 .. Len(p) : more[j + i] = p[i]
           => Shows(e, more, j + Len(p), j + Len(p))
    BY <1>1, <1>2, TextShows
<1>4. Drawable(e)
    BY <1>1, WriteDrawable
<1> HIDE DEF e
<1>5. ASSUME 2 < terminal_width PROVE Shows(e, text, 2, 2)
  <2>1. 0 \in Nat /\ 0 + Len(p) < terminal_width /\ 0 + Len(p) = 2
    BY <1>1, <1>5
  <2>2. \A i \in 1 .. Len(p) : text[0 + i] = p[i]
    BY <1>1
  <2>3. Shows(e, text, 0 + Len(p), 0 + Len(p))
    BY <1>2, <1>3, <2>1, <2>2
  <2> QED
    BY <2>1, <2>3
<1> QED
    BY <1>3, <1>4, <1>5 DEF e, p, text

\* rewrite_command_line: whatever was in the row, it shows the line now, and
\* the cursor is as far from its end as the offset says.
LEMMA RewriteShows ==
    ASSUME NEW d, Drawable(d), Calm(d), NEW buffer, NEW length \in Nat, NEW offset \in Nat, offset <= length,
           \A i \in 1 .. length : Plain(buffer[i - 1])
    PROVE  Displays(FoldLeft(PutChar, d, rewrite_command_line(buffer, length, offset)), buffer, length, offset)
<1> DEFINE c == <<CR, ESC, "[", "K">>
           p == command_prompt
           f == LineOf(buffer, length)
           a == FlattenSeq([i \in 1 .. offset |-> <<ESC, "[", "D">>])
           text == ShownLine(buffer, length)
           d1 == FoldLeft(PutChar, d, c)
           d2 == FoldLeft(PutChar, d1, p)
           d3 == FoldLeft(PutChar, d2, f)
           d4 == FoldLeft(PutChar, d3, a)
<1>1. rewrite_command_line(buffer, length, offset) = c \o p \o f \o a
    BY DEF rewrite_command_line
<1>2. Sequence(c) /\ Sequence(p)
  <2>1. c \in Seq({CR, ESC, "[", "K"})
    OBVIOUS
  <2> QED
    BY <2>1, MessagesAreSequences DEF Sequence
<1>3. Sequence(f) /\ Len(f) = length /\ \A i \in 1 .. length : f[i] = buffer[i - 1]
    BY LineElements
<1>4. Sequence(a)
  <2> DEFINE seqs == [i \in 1 .. offset |-> <<ESC, "[", "D">>]
             S == {ESC, "[", "D"}
  <2>1. seqs \in Seq(Seq(S)) /\ Len(seqs) = offset
    OBVIOUS
  <2> HIDE DEF seqs, S
  <2>2. Sequence(FlattenSeq(seqs))
    BY <2>1, FlattenSequence
  <2> QED
    BY <2>2 DEF seqs
<1>5. Shows(d1, text, 0, 0)
    BY ClearShows
<1>6. ASSUME Drawable(d3), Calm(d3)
      PROVE  Calm(d4) /\ \A n : \A k \in Nat : Shows(d3, text, n, k) /\ offset <= k => Shows(d4, text, n, k - offset)
    BY <1>6, ArrowsShow
<1>7. \A i \in 1 .. length : text[2 + i] = f[i]
    BY <1>3, ShownElements
<1> HIDE DEF c, f, a, text
<1>8. Drawable(d1)
    BY <1>2, WriteDrawable
<1> HIDE DEF d1
<1>9. Drawable(d2) /\ Calm(d2) /\ (2 < terminal_width => Shows(d2, text, 2, 2))
    BY <1>5, <1>8, PromptShows DEF text
<1> HIDE DEF p, d2
<1>10. \A i \in 1 .. Len(f) : Plain(f[i])
    BY <1>3
<1>11. /\ Calm(d3)
       /\ \A more : \A j \in Nat :
             /\ Shows(d2, more, j, j) /\ j + Len(f) < terminal_width
             /\ \A i \in 1 .. Len(f) : more[j + i] = f[i]
             => Shows(d3, more, j + Len(f), j + Len(f))
    BY <1>3, <1>9, <1>10, TextShows
<1>12. Drawable(d3)
    BY <1>3, <1>9, WriteDrawable
<1>13. FoldLeft(PutChar, d, c \o p \o f \o a) = d4
  <2>1. Sequence(c \o p) /\ FoldLeft(PutChar, d, c \o p) = d2
    BY <1>2, SequenceConcat, FoldConcat DEF d1, d2
  <2> DEFINE cp == c \o p
  <2> HIDE DEF cp
  <2>2. Sequence(cp \o f) /\ FoldLeft(PutChar, d, cp \o f) = d3
    BY <1>3, <2>1, SequenceConcat, FoldConcat DEF cp
  <2> DEFINE cpf == cp \o f
  <2> HIDE DEF cpf
  <2>3. FoldLeft(PutChar, d, cpf \o a) = d4
    BY <1>4, <2>2, FoldConcat DEF cpf
  <2> QED
    BY <2>3 DEF cp, cpf
<1> HIDE DEF d3
<1>14. ASSUME length + 2 < terminal_width PROVE Shows(d4, text, length + 2, (length + 2) - offset)
  <2>1. 2 < terminal_width /\ terminal_width \in Nat
    BY <1>14, CellParts
  <2>2. 2 \in Nat /\ 2 + Len(f) = length + 2 /\ 2 + Len(f) < terminal_width
    BY <1>3, <1>14
  <2>3. \A i \in 1 .. Len(f) : text[2 + i] = f[i]
    BY <1>3, <1>7
  <2>4. Shows(d3, text, 2 + Len(f), 2 + Len(f))
    BY <1>9, <1>11, <2>1, <2>2, <2>3
  <2> DEFINE m == length + 2
  <2>5. m \in Nat /\ offset <= m
    OBVIOUS
  <2>6. Shows(d3, text, m, m)
    BY <2>2, <2>4
  <2> HIDE DEF m, d4
  <2>7. Shows(d4, text, m, m - offset)
    BY <1>6, <1>11, <1>12, <2>5, <2>6
  <2> QED
    BY <2>7 DEF m
<1>15. Calm(d4)
    BY <1>6, <1>11, <1>12
<1> QED
    BY <1>1, <1>13, <1>14, <1>15 DEF Displays, text

\* Everything in the lines can be typed.
TypedText(s) ==
    /\ TextBefore(s) \in Seq(TypedChars) /\ TextAfter(s) \in Seq(TypedChars)
    /\ TextHistory(s) \in Seq(TypedChars)

\* What can be typed is shown as itself.
LEMMA TypedPlain == \A c \in TypedChars : Plain(c)
    BY DEF TypedChars, Plain, NUL, ESC, NL, CR, BS, ERASE, SPACE

\* The characters of the line.
LEMMA TypedLine ==
    ASSUME NEW s, LineOK(s), ~ Waits(s), TypedText(s)
    PROVE  \A i \in 1 .. s.keyboard_command_length : s.keyboard_command_buffer[i - 1] \in TypedChars
<1> DEFINE n == s.keyboard_command_length
           o == s.cursor_end_offset
           at == n - o
           b == s.keyboard_command_buffer
<1>1. n \in Nat /\ o \in Nat /\ at \in Nat /\ o <= n
    BY DEF LineOK, Editing
<1>2. /\ Len(TextBefore(s)) = at /\ \A i \in 1 .. at : TextBefore(s)[i] = b[i - 1]
      /\ Len(TextAfter(s)) = o /\ \A i \in 1 .. o : TextAfter(s)[i] = b[at + (i - 1)]
    BY TextElements
<1>5. /\ \A i \in 1 .. Len(TextBefore(s)) : TextBefore(s)[i] \in TypedChars
      /\ \A i \in 1 .. Len(TextAfter(s)) : TextAfter(s)[i] \in TypedChars
    BY LenProperties DEF TypedText
<1> SUFFICES ASSUME NEW i \in 1 .. n PROVE b[i - 1] \in TypedChars
    OBVIOUS
<1> HIDE DEF b, o, n
<1>3. CASE i <= at
  <2>1. i \in 1 .. at
    BY <1>1, <1>3
  <2> QED
    BY <1>2, <1>5, <2>1
<1>4. CASE i > at
  <2>1. i - at \in 1 .. o /\ at + ((i - at) - 1) = i - 1
    BY <1>1, <1>4
  <2>2. TextAfter(s)[i - at] = b[at + ((i - at) - 1)]
    BY <1>2, <2>1
  <2>3. TextAfter(s)[i - at] \in TypedChars
    BY <1>2, <1>5, <2>1
  <2> QED
    BY <2>1, <2>2, <2>3
<1> QED
    BY <1>1, <1>3, <1>4

\* Editing keeps it.
LEMMA EditsTyped == ASSUME NEW s, NEW t, TypedText(s), Edits(s, t) PROVE TypedText(t)
<1> DEFINE T == TypedChars
           p == TextBefore(s)
           q == TextAfter(s)
           h == TextHistory(s)
           x == TextBefore(t)
           y == TextAfter(t)
           z == TextHistory(t)
<1>1. p \in Seq(T) /\ q \in Seq(T) /\ h \in Seq(T) /\ <<>> \in Seq(T)
    BY DEF TypedText
<1>2. \/ x = p /\ y = q /\ z = h
      \/ \E c \in T : x = Append(p, c) /\ y = q /\ z = h
      \/ p # <<>> /\ x = Front(p) /\ y = q /\ z = h
      \/ p # <<>> /\ x = Front(p) /\ y = <<Last(p)>> \o q /\ z = h
      \/ q # <<>> /\ x = Append(p, Head(q)) /\ y = Tail(q) /\ z = h
      \/ x = h /\ y = <<>> /\ z = p \o q
      \/ z = p \o q /\ x = <<>> /\ y = <<>>
    BY DEF Edits
<1> HIDE DEF T, p, q, h, x, y, z
<1>3. \A c \in T : Append(p, c) \in Seq(T)
    BY <1>1
<1>4. p \o q \in Seq(T)
    BY <1>1
<1>5. q # <<>> => Append(p, Head(q)) \in Seq(T) /\ Tail(q) \in Seq(T)
    BY <1>1
<1>6. ASSUME p # <<>> PROVE Front(p) \in Seq(T) /\ Last(p) \in T
  <2>1. Len(p) \in Nat /\ Len(p) > 0 /\ \A i \in 1 .. Len(p) : p[i] \in T
    BY <1>1, <1>6, LenProperties, EmptySeq
  <2>2. Len(p) \in 1 .. Len(p) /\ \A i \in 1 .. Len(p) - 1 : p[i] \in T
    BY <2>1
  <2>3. SubSeq(p, 1, Len(p) - 1) \in Seq(T)
    BY <2>1, <2>2, SubSeqProperties
  <2> QED
    BY <2>1, <2>2, <2>3 DEF Front, Last
<1>7. \A c \in T : <<c>> \o q \in Seq(T)
  <2> SUFFICES ASSUME NEW c \in T PROVE <<c>> \o q \in Seq(T)
    OBVIOUS
  <2>1. <<c>> \in Seq(T)
    OBVIOUS
  <2> QED
    BY <1>1, <2>1, ConcatProperties
<1>8. x \in Seq(T) /\ y \in Seq(T) /\ z \in Seq(T)
  <2>1. CASE x = p /\ y = q /\ z = h
    BY <1>1, <2>1
  <2>2. CASE \E c \in T : x = Append(p, c) /\ y = q /\ z = h
    BY <1>1, <1>3, <2>2
  <2>3. CASE p # <<>> /\ x = Front(p) /\ y = q /\ z = h
    BY <1>1, <1>6, <2>3
  <2>4. CASE p # <<>> /\ x = Front(p) /\ y = <<Last(p)>> \o q /\ z = h
    BY <1>1, <1>6, <1>7, <2>4
  <2>5. CASE q # <<>> /\ x = Append(p, Head(q)) /\ y = Tail(q) /\ z = h
    BY <1>1, <1>5, <2>5
  <2>6. CASE x = h /\ y = <<>> /\ z = p \o q
    BY <1>1, <1>4, <2>6
  <2>7. CASE z = p \o q /\ x = <<>> /\ y = <<>>
    BY <1>1, <1>4, <2>7
  <2> QED
    BY <1>2, <2>1, <2>2, <2>3, <2>4, <2>5, <2>6, <2>7
<1> QED
    BY <1>8 DEF T, x, y, z, TypedText

-----------------------------------------------------------------------------
(* A terminal and its shell.                                               *)

\* What is on the screen of a terminal while its shell is in state s: an empty
\* row where the prompt will go; or the line, if w says that nobody else has
\* written since the shell drew it.
Steady(d, s, w) ==
    /\ Calm(d)
    /\ s.pc = "start" => s.keyboard_command_length = 0
    /\ s.pc \in {"start", "waitpid"} => \A text : Shows(d, text, 0, 0)
    /\ s.pc \in {"read", "escape"} /\ w = TRUE =>
          Displays(d, s.keyboard_command_buffer, s.keyboard_command_length, s.cursor_end_offset)

\* Terminal v, found as d, is written to, and then has the same picture as
\* after the whole loop of vt_write.
Written(v, d, bytes) ==
    \E e : vt' = [vt EXCEPT ![v] = e] /\ SamePicture(FoldLeft(PutChar, d, bytes), e)

\* vt_write clears flags at most.
LEMMA WriteWritten ==
    ASSUME NEW v, NEW d, Drawable(d), NEW bytes, Sequence(bytes), vt_write(v, d, bytes)
    PROVE  Written(v, d, bytes)
<1> DEFINE f == FoldLeft(PutChar, d, bytes)
           e == [f EXCEPT !.repaint_flags = {}]
<1>1. Drawable(f)
    BY WriteDrawable
<1>2. vt' = [vt EXCEPT ![v] = e] \/ vt' = [vt EXCEPT ![v] = f]
    BY DEF vt_write
<1> HIDE DEF f
<1>3. SamePicture(f, e) /\ SamePicture(f, f)
    BY <1>1 DEF SamePicture, Drawable, Device, DeviceFields
<1> HIDE DEF e
<1> QED
    BY <1>2, <1>3 DEF Written, f

\* The line is the same, and so is the picture.
LEMMA SteadyStays ==
    ASSUME NEW d, NEW s, NEW w, Steady(d, s, w), NEW e, SamePicture(d, e), NEW t,
           \/ t = s
           \/ /\ s.pc \in {"read", "escape"} /\ t.pc \in {"read", "escape"}
              /\ t.keyboard_command_buffer = s.keyboard_command_buffer
              /\ t.keyboard_command_length = s.keyboard_command_length
              /\ t.cursor_end_offset = s.cursor_end_offset
    PROVE  Steady(e, t, w)
<1>1. Calm(e) /\ \A text, n, k : Shows(d, text, n, k) => Shows(e, text, n, k)
    BY SameShows DEF Steady
<1>2. \A b, n, o : Displays(d, b, n, o) => Displays(e, b, n, o)
    BY <1>1 DEF Displays
<1>3. CASE t = s
    BY <1>1, <1>2, <1>3 DEF Steady
<1>4. CASE /\ s.pc \in {"read", "escape"} /\ t.pc \in {"read", "escape"}
           /\ t.keyboard_command_buffer = s.keyboard_command_buffer
           /\ t.keyboard_command_length = s.keyboard_command_length
           /\ t.cursor_end_offset = s.cursor_end_offset
  <2>1. w = TRUE =>
          Displays(e, t.keyboard_command_buffer, t.keyboard_command_length, t.cursor_end_offset)
    BY <1>2, <1>4 DEF Steady
  <2> QED
    BY <1>1, <1>4, <2>1 DEF Steady
<1> QED
    BY <1>3, <1>4

\* A shell about to use terminal v, found as f.
Before(v, f) ==
    /\ v \in Vts /\ DOMAIN shell = Vts /\ Drawable(f)
    /\ LineOK(shell[v]) /\ Steady(f, shell[v], drawn[v])

\* Its locals afterwards.
Fits(t) == LineOK(t) /\ TypedText(t) /\ t.keyboard_command_length <= KEYBOARD_COMMAND_BUFFER_LENGTH

\* Its terminal shows its line again.
Ends(v) == \E e : vt' = [vt EXCEPT ![v] = e] /\ Steady(e, shell'[v], drawn'[v])

\* What is displayed depends on the picture only.
LEMMA SameDisplays ==
    ASSUME NEW d, NEW e, SamePicture(d, e)
    PROVE  \A b, n, o : Displays(d, b, n, o) => Displays(e, b, n, o)
    BY SameShows DEF Displays

\* The line is drawn again.
LEMMA RedrawSteady ==
    ASSUME NEW v, NEW f, Before(v, f), NEW u, ShellFields \subseteq DOMAIN u, Redraw(v, f, u), Fits(shell'[v])
    PROVE  Ends(v)
<1> DEFINE t == [u EXCEPT !.pc = "read"]
           b == t.keyboard_command_buffer
           n == t.keyboard_command_length
           o == t.cursor_end_offset
           bytes == rewrite_command_line(u.keyboard_command_buffer, u.keyboard_command_length,
                                         u.cursor_end_offset)
<1>1. shell' = [shell EXCEPT ![v] = t] /\ vt_write(v, f, bytes)
    BY DEF Redraw
<1>2. /\ t.pc = "read" /\ b = u.keyboard_command_buffer /\ n = u.keyboard_command_length
      /\ o = u.cursor_end_offset
    BY DEF ShellFields
<1> HIDE DEF t
<1>3. shell'[v] = t
    BY <1>1 DEF Before
<1>4. LineOK(t) /\ TypedText(t) /\ ~ Waits(t)
    BY <1>2, <1>3 DEF Fits, Waits
<1>5. n \in Nat /\ o \in Nat /\ o <= n
    BY <1>4 DEF LineOK, Editing
<1>6. \A i \in 1 .. n : Plain(b[i - 1])
    BY <1>4, TypedLine, TypedPlain
<1>7. bytes = rewrite_command_line(b, n, o)
    BY <1>2
<1>8. Sequence(bytes)
    BY <1>5, <1>7, LineSequence
<1> DEFINE g == FoldLeft(PutChar, f, bytes)
<1>9. Drawable(f) /\ Calm(f)
    BY DEF Before, Steady
<1> HIDE DEF b, n, o
<1>10. Displays(g, b, n, o)
  <2>1. Displays(FoldLeft(PutChar, f, rewrite_command_line(b, n, o)), b, n, o)
    BY <1>5, <1>6, <1>9, RewriteShows
  <2> QED
    BY <1>7, <2>1
<1> HIDE DEF bytes
<1>11. PICK e : vt' = [vt EXCEPT ![v] = e] /\ SamePicture(g, e)
    BY <1>1, <1>8, <1>9, WriteWritten DEF Written
<1> HIDE DEF g
<1>12. Displays(e, b, n, o)
    BY <1>10, <1>11, SameDisplays
<1>13. Steady(e, t, drawn'[v])
    BY <1>2, <1>12 DEF Steady, Displays, b, n, o
<1> QED
    BY <1>3, <1>11, <1>13 DEF Ends

\* Nothing is drawn.
LEMMA SwallowSteady ==
    ASSUME NEW v, NEW f, Before(v, f), shell[v].pc \in {"read", "escape"}, vt' = [vt EXCEPT ![v] = f],
           NEW t, shell' = [shell EXCEPT ![v] = t], t.pc \in {"read", "escape"},
           t.keyboard_command_buffer = shell[v].keyboard_command_buffer,
           t.keyboard_command_length = shell[v].keyboard_command_length,
           t.cursor_end_offset = shell[v].cursor_end_offset, drawn' = drawn
    PROVE  Ends(v)
<1>1. shell'[v] = t
    BY DEF Before
<1> DEFINE s == shell[v]
<1>2. Steady(f, s, drawn[v])
    BY DEF Before
<1>3. /\ s.pc \in {"read", "escape"} /\ t.keyboard_command_buffer = s.keyboard_command_buffer
      /\ t.keyboard_command_length = s.keyboard_command_length
      /\ t.cursor_end_offset = s.cursor_end_offset
    OBVIOUS
<1> HIDE DEF s
<1>4. SamePicture(f, f)
    BY DEF SamePicture
<1>5. Steady(f, t, drawn[v])
    BY <1>2, <1>3, <1>4, SteadyStays
<1> QED
    BY <1>1, <1>5 DEF Ends

\* The erase key and the arrow keys.
LEMMA LineKeysSteady ==
    ASSUME NEW v, NEW f, Before(v, f), shell[v].pc \in {"read", "escape"}, Fits(shell'[v]),
           \/ EraseKey(v, f, shell[v]) \/ ArrowUp(v, f, shell[v]) \/ ArrowRight(v, f, shell[v])
           \/ ArrowLeft(v, f, shell[v]) \/ Swallow(v, f, shell[v])
    PROVE  Ends(v)
<1> DEFINE s == shell[v]
<1>1. ShellFields \subseteq DOMAIN s
    BY DEF Before, LineOK, Editing
<1> HIDE DEF s
<1>2. Swallow(v, f, s) \/ \E u : ShellFields \subseteq DOMAIN u /\ Redraw(v, f, u)
  <2>1. CASE EraseKey(v, f, s)
    BY <1>1, <2>1 DEF EraseKey
  <2>2. CASE ArrowUp(v, f, s)
    BY <1>1, <2>2 DEF ArrowUp
  <2>3. CASE ArrowRight(v, f, s)
    BY <1>1, <2>3 DEF ArrowRight
  <2>4. CASE ArrowLeft(v, f, s)
    BY <1>1, <2>4 DEF ArrowLeft
  <2>5. CASE Swallow(v, f, s)
    BY <2>5
  <2> QED
    BY <2>1, <2>2, <2>3, <2>4, <2>5 DEF s
<1>3. CASE Swallow(v, f, s)
  <2> DEFINE t == [s EXCEPT !.pc = "read"]
  <2>1. vt' = [vt EXCEPT ![v] = f] /\ shell' = [shell EXCEPT ![v] = t] /\ drawn' = drawn
    BY <1>3 DEF Swallow
  <2>2. /\ t.pc \in {"read", "escape"} /\ t.keyboard_command_buffer = s.keyboard_command_buffer
        /\ t.keyboard_command_length = s.keyboard_command_length
        /\ t.cursor_end_offset = s.cursor_end_offset
    BY <1>1 DEF ShellFields
  <2> HIDE DEF t
  <2> QED
    BY <2>1, <2>2, SwallowSteady DEF s
<1> QED
    BY <1>2, <1>3, RedrawSteady

\* A typed character goes behind the line on the screen, or into it.
LEMMA TypeSteady ==
    ASSUME NEW v, NEW f, Before(v, f), shell[v].pc = "read", Fits(shell'[v]), NEW c, TypeKey(v, f, shell[v], c)
    PROVE  Ends(v)
<1> DEFINE s == shell[v]
           t == Insert(s, c)
           n == s.keyboard_command_length
           x == s.keyboard_command_buffer
           y == t.keyboard_command_buffer
<1>1. /\ ShellFields \subseteq DOMAIN s /\ n \in Nat /\ s.cursor_end_offset \in Nat
      /\ Drawable(f) /\ Steady(f, s, drawn[v]) /\ v \in DOMAIN shell /\ s.pc = "read"
    BY DEF Before, LineOK, Editing
<1>2. CASE s.cursor_end_offset > 0
  <2>1. Redraw(v, f, t)
    BY <1>2 DEF TypeKey
  <2>2. ShellFields \subseteq DOMAIN t
    BY <1>1 DEF Insert
  <2> HIDE DEF t
  <2> QED
    BY <2>1, <2>2, RedrawSteady
<1>3. CASE ~ (s.cursor_end_offset > 0)
  <2>1. s.cursor_end_offset = 0 /\ n - s.cursor_end_offset = n
    BY <1>1, <1>3
  <2>2. vt_write(v, f, <<c>>) /\ shell' = [shell EXCEPT ![v] = t] /\ drawn' = drawn
    BY <1>3 DEF TypeKey
  <2>3. shell'[v] = t
    BY <1>1, <2>2
  <2>4. /\ t.pc = "read" /\ t.cursor_end_offset = 0 /\ t.keyboard_command_length = n + 1
        /\ y = [i \in Positions |-> CASE i = n -> c
                                      [] i \in n + 1 .. n -> x[i - 1]
                                      [] OTHER -> x[i]]
    BY <1>1, <2>1 DEF Insert, ShellFields
  <2> HIDE DEF t
  <2>5. LineOK(t) /\ TypedText(t) /\ ~ Waits(t) /\ n + 1 <= KEYBOARD_COMMAND_BUFFER_LENGTH
    BY <2>3, <2>4 DEF Fits, Waits
  <2>6. KEYBOARD_COMMAND_BUFFER_LENGTH \in Nat
    BY ShellAssumption
  <2>7. n \in Positions /\ y[n] = c /\ \A i \in 1 .. n : y[i - 1] = x[i - 1]
    <3>1. n \in Positions /\ \A i \in 1 .. n : i - 1 \in Positions /\ i - 1 # n /\ i - 1 \notin n + 1 .. n
      BY <1>1, <2>5, <2>6 DEF Positions
    <3> HIDE DEF n, x, y
    <3> QED
      BY <2>4, <3>1
  <2>8. Plain(c)
    <3>1. \A i \in 1 .. n + 1 : y[i - 1] \in TypedChars
      BY <2>4, <2>5, TypedLine
    <3>2. n + 1 \in 1 .. n + 1 /\ (n + 1) - 1 = n
      BY <1>1
    <3> QED
      BY <2>7, <3>1, <3>2, TypedPlain
  <2> DEFINE one == <<c>>
             g == FoldLeft(PutChar, f, one)
  <2>9. Sequence(one) /\ DOMAIN one = 1 .. 1 /\ one[1] = c
    BY MessagesAreSequences
  <2>10. vt_write(v, f, one)
    BY <2>2
  <2> HIDE DEF one
  <2>11. g = PutChar(f, c)
    BY <2>9, FoldShort
  <2>12. PICK e : vt' = [vt EXCEPT ![v] = e] /\ SamePicture(g, e)
    BY <1>1, <2>9, <2>10, WriteWritten DEF Written
  <2> HIDE DEF g
  <2> DEFINE old == ShownLine(x, n)
             new == ShownLine(y, n + 1)
             m == n + 2
  <2>13. Calm(f) /\ (drawn[v] = TRUE /\ m < terminal_width => Shows(f, old, m, m))
    <3>1. Calm(f) /\ (drawn[v] = TRUE => Displays(f, x, n, 0))
      BY <1>1, <2>1 DEF Steady
    <3>2. (n + 2) - 0 = n + 2
      BY <1>1
    <3> QED
      BY <3>1, <3>2 DEF Displays
  <2>14. m \in Nat /\ (\A i \in 1 .. m : new[i] = old[i]) /\ new[m + 1] = c
    <3>1. /\ \A i \in 1 .. 2 : old[i] = command_prompt[i]
          /\ \A i \in 1 .. n : old[2 + i] = x[i - 1]
      BY <1>1, ShownElements
    <3>2. /\ \A i \in 1 .. 2 : new[i] = command_prompt[i]
          /\ \A i \in 1 .. n + 1 : new[2 + i] = y[i - 1]
      BY <1>1, ShownElements
    <3> HIDE DEF old, new
    <3>3. ASSUME NEW i \in 1 .. m PROVE new[i] = old[i]
      <4>1. CASE i <= 2
        <5>1. i \in 1 .. 2
          BY <1>1, <4>1
        <5> QED
          BY <3>1, <3>2, <5>1
      <4>2. CASE i > 2
        <5>1. i - 2 \in 1 .. n /\ i - 2 \in 1 .. n + 1 /\ 2 + (i - 2) = i
          BY <1>1, <4>2
        <5>2. new[2 + (i - 2)] = y[(i - 2) - 1] /\ old[2 + (i - 2)] = x[(i - 2) - 1]
          BY <3>1, <3>2, <5>1
        <5> QED
          BY <2>7, <5>1, <5>2
      <4> QED
        BY <1>1, <4>1, <4>2
    <3>4. n + 1 \in 1 .. n + 1 /\ 2 + (n + 1) = m + 1 /\ (n + 1) - 1 = n
      BY <1>1
    <3>5. new[2 + (n + 1)] = y[(n + 1) - 1]
      BY <3>2, <3>4
    <3>6. new[m + 1] = c
      BY <2>7, <3>4, <3>5
    <3> QED
      BY <1>1, <3>3, <3>6
  <2>18. Calm(g)
    BY <1>1, <2>8, <2>11, <2>13, PlainShows
  <2>15. ASSUME drawn[v] = TRUE PROVE Displays(g, y, n + 1, 0)
    <3>2. ASSUME (n + 1) + 2 < terminal_width PROVE Shows(g, new, (n + 1) + 2, ((n + 1) + 2) - 0)
      <4>1. m < terminal_width /\ m + 1 < terminal_width /\ m + 1 = (n + 1) + 2 /\ m + 1 = ((n + 1) + 2) - 0
        BY <1>1, <3>2, CellParts
      <4> HIDE DEF old, new, m
      <4>2. Shows(f, new, m, m)
        BY <2>13, <2>14, <2>15, <4>1, ShowsPrefix
      <4>3. Shows(g, new, m + 1, m + 1)
        BY <1>1, <2>8, <2>11, <2>13, <2>14, <4>1, <4>2, PlainShows
      <4> QED
        BY <4>1, <4>3
    <3> QED
      BY <2>18, <3>2 DEF Displays
  <2>16. Calm(e) /\ (drawn[v] = TRUE => Displays(e, y, n + 1, 0))
    BY <2>12, <2>15, <2>18, SameDisplays, SameShows
  <2>17. Steady(e, t, drawn[v])
    BY <2>4, <2>16 DEF Steady
  <2> QED
    BY <2>2, <2>3, <2>12, <2>17 DEF Ends
<1> QED
    BY <1>2, <1>3

\* Commands write lines, and so does the kernel.
PlainOutputs == \A o \in Outputs \cup KernelMessages : PlainOutput(o)

\* The prompt in an empty row is the display of an empty line.
LEMMA PromptDisplays ==
    ASSUME NEW d, Drawable(d), \A text : Shows(d, text, 0, 0), NEW b
    PROVE  Displays(FoldLeft(PutChar, d, command_prompt), b, 0, 0)
<1> DEFINE e == FoldLeft(PutChar, d, command_prompt)
<1>1. 0 \in Nat /\ 0 + 2 = 2 /\ (0 + 2) - 0 = 2
    OBVIOUS
<1>2. Calm(e) /\ (2 < terminal_width => Shows(e, ShownLine(b, 0), 2, 2))
    BY <1>1, PromptShows
<1> HIDE DEF e
<1>3. Displays(e, b, 0, 0)
    BY <1>1, <1>2 DEF Displays
<1> QED
    BY <1>3 DEF e

\* Behind lines, too.
LEMMA OutputDisplays ==
    ASSUME NEW d, Drawable(d), \A text : Shows(d, text, 0, 0), NEW s, Sequence(s), PlainOutput(s), NEW b
    PROVE  Displays(FoldLeft(PutChar, d, s \o command_prompt), b, 0, 0)
<1> DEFINE e == FoldLeft(PutChar, d, s)
<1>1. FoldLeft(PutChar, d, s \o command_prompt) = FoldLeft(PutChar, e, command_prompt)
    BY MessagesAreSequences, FoldConcat
<1>2. Drawable(e) /\ \A text : Shows(e, text, 0, 0)
    BY WriteDrawable, OutputShows
<1> HIDE DEF e
<1>3. Displays(FoldLeft(PutChar, e, command_prompt), b, 0, 0)
    BY <1>2, PromptDisplays
<1> QED
    BY <1>1, <1>3

\* exec_shell_line's message is a line.
LEMMA MessagePlain == PlainOutput(ERROR_MESSAGE) /\ PlainOutput(<<>>)
<1>1. Len(ERROR_MESSAGE) = 2 /\ ERROR_MESSAGE[1] = "!" /\ ERROR_MESSAGE[2] = NL
    BY DEF ERROR_MESSAGE
<1>2. Plain("!")
    BY DEF Plain, NUL, ESC, NL, CR, BS, ERASE
<1>3. \A i \in 1 .. 2 : i = 1 \/ i = 2
    OBVIOUS
<1>4. PlainOutput(ERROR_MESSAGE)
  <2> DEFINE m == ERROR_MESSAGE
  <2> HIDE DEF m
  <2>1. Len(m) = 2 /\ m[1] = "!" /\ m[2] = NL
    BY <1>1 DEF m
  <2>2. PlainOutput(m)
    BY <1>2, <1>3, <2>1 DEF PlainOutput
  <2> QED
    BY <2>2 DEF m
<1>5. PlainOutput(<<>>)
  <2> DEFINE m == <<>>
  <2>1. Len(m) = 0
    OBVIOUS
  <2> HIDE DEF m
  <2>2. PlainOutput(m)
    BY <2>1 DEF PlainOutput
  <2> QED
    BY <2>2 DEF m
<1> QED
    BY <1>4, <1>5

\* A shell writes bytes and shows an empty line then.
LEMMA PromptSteady ==
    ASSUME NEW v, NEW f, Before(v, f), NEW bytes, Sequence(bytes), vt_write(v, f, bytes),
           NEW t, shell' = [shell EXCEPT ![v] = t], t.pc = "read", t.keyboard_command_length = 0,
           t.cursor_end_offset = 0,
           Displays(FoldLeft(PutChar, f, bytes), t.keyboard_command_buffer, 0, 0)
    PROVE  Ends(v)
<1> DEFINE g == FoldLeft(PutChar, f, bytes)
           b == t.keyboard_command_buffer
<1>1. PICK e : vt' = [vt EXCEPT ![v] = e] /\ SamePicture(g, e)
    BY WriteWritten DEF Written, Before
<1>2. Displays(g, b, 0, 0)
    OBVIOUS
<1> HIDE DEF g, b
<1>3. Displays(e, b, 0, 0)
    BY <1>1, <1>2, SameDisplays
<1>4. Steady(e, t, drawn'[v])
    BY <1>3 DEF Steady, Displays, b
<1>5. shell'[v] = t
    BY DEF Before
<1> QED
    BY <1>1, <1>4, <1>5 DEF Ends

\* StartShell.
LEMMA StartSteady ==
    ASSUME NEW v, Before(v, vt[v]), StartShell(v)
    PROVE  Ends(v)
<1> DEFINE s == shell[v]
           t == [s EXCEPT !.pc = "read"]
           d == vt[v]
<1>1. s.pc = "start" /\ vt_write(v, d, command_prompt) /\ shell' = [shell EXCEPT ![v] = t]
    BY DEF StartShell
<1>2. /\ LineOK(s) /\ Drawable(d) /\ (\A text : Shows(d, text, 0, 0))
      /\ s.keyboard_command_length = 0 /\ Before(v, d)
    BY <1>1 DEF Before, Steady
<1> HIDE DEF s, d
<1>3. /\ t.pc = "read" /\ t.cursor_end_offset = s.cursor_end_offset
      /\ t.keyboard_command_length = s.keyboard_command_length
    BY <1>2 DEF LineOK, Editing, ShellFields
<1>4. s.cursor_end_offset = 0
    BY <1>2 DEF LineOK, Editing
<1> HIDE DEF t
<1>5. Displays(FoldLeft(PutChar, d, command_prompt), t.keyboard_command_buffer, 0, 0)
    BY <1>2, PromptDisplays
<1>6. Sequence(command_prompt)
    BY MessagesAreSequences
<1> QED
    BY <1>1, <1>2, <1>3, <1>4, <1>5, <1>6, PromptSteady

\* ChildDone.
LEMMA ChildSteady ==
    ASSUME PlainOutputs, NEW v, Before(v, vt[v]), ChildDone(v)
    PROVE  Ends(v)
<1> DEFINE s == shell[v]
           t == Prompt(s)
           d == vt[v]
           line == LineOf(s.keyboard_command_buffer, s.keyboard_command_length)
<1>1. s.pc = "waitpid" /\ shell' = [shell EXCEPT ![v] = t]
    BY DEF ChildDone
<1>2. PICK o \in ChildOutcomes(line) : vt_write(v, d, o.text \o command_prompt)
    BY DEF ChildDone
<1>3. o.text = ERROR_MESSAGE \/ o.text = <<>> \/ o.text \in Outputs
    BY <1>2 DEF ChildOutcomes
<1> DEFINE x == o.text
           bytes == x \o command_prompt
<1>4. Sequence(x) /\ PlainOutput(x)
    BY <1>3, MessagesAreSequences, MessagePlain DEF PlainOutputs
<1>5. vt_write(v, d, bytes)
    BY <1>2
<1> HIDE DEF x
<1>6. Sequence(bytes)
    BY <1>4, MessagesAreSequences, SequenceConcat
<1>7. LineOK(s) /\ Drawable(d) /\ (\A text : Shows(d, text, 0, 0)) /\ Before(v, d)
    BY <1>1 DEF Before, Steady
<1> HIDE DEF s, d
<1>8. t.pc = "read" /\ t.cursor_end_offset = s.cursor_end_offset /\ t.keyboard_command_length = 0
    BY <1>7 DEF LineOK, Editing, ShellFields, Prompt
<1>9. s.cursor_end_offset = 0
    BY <1>1, <1>7 DEF LineOK, Waits
<1> HIDE DEF t
<1>10. Displays(FoldLeft(PutChar, d, bytes), t.keyboard_command_buffer, 0, 0)
    BY <1>4, <1>7, OutputDisplays
<1> HIDE DEF bytes
<1> QED
    BY <1>1, <1>5, <1>6, <1>7, <1>8, <1>9, <1>10, PromptSteady

\* Enter.
LEMMA EnterSteady ==
    ASSUME EnterAtEnd, NEW v, NEW f, Before(v, f), EnterKey(v, f, shell[v])
    PROVE  Ends(v)
<1> DEFINE s == shell[v]
           line == LineOf(s.keyboard_command_buffer, s.keyboard_command_length)
           w == [s EXCEPT !.prev_keyboard_command_buffer = s.keyboard_command_buffer,
                          !.prev_keyboard_command_length = s.keyboard_command_length]
           kind == ExecKind(line)
           text == CASE kind = "syntax error" -> ERROR_MESSAGE \o command_prompt
                     [] kind = "no-op" -> command_prompt
                     [] kind = "word too long" -> ERROR_MESSAGE
                     [] kind \in {"exit", "fork"} -> <<>>
           t == CASE kind \in {"exit", "word too long"} -> [w EXCEPT !.pc = "exited"]
                  [] kind = "fork" -> [w EXCEPT !.pc = "waitpid"]
                  [] OTHER -> Prompt(w)
           nl == <<NL>>
           bytes == nl \o text
           d == PutChar(f, NL)
<1>1. vt_write(v, f, bytes) /\ shell' = [shell EXCEPT ![v] = t] /\ s.cursor_end_offset = 0
    BY DEF EnterKey
<1>2. ShellFields \subseteq DOMAIN s /\ Drawable(f) /\ Calm(f) /\ shell'[v] = t
    BY <1>1 DEF Before, LineOK, Editing, Steady
<1>3. kind \in {"syntax error", "no-op", "word too long", "exit", "fork"}
    BY Kinds
<1> HIDE DEF s, kind
<1>4. ShellFields \subseteq DOMAIN w /\ w.cursor_end_offset = 0
    BY <1>1, <1>2 DEF ShellFields
<1> HIDE DEF w
<1>5. /\ kind = "syntax error" => text = ERROR_MESSAGE \o command_prompt
      /\ kind = "no-op" => text = command_prompt
      /\ kind = "word too long" => text = ERROR_MESSAGE
      /\ kind \in {"exit", "fork"} => text = <<>>
    BY <1>3
<1>6. /\ kind \in {"exit", "word too long"} => t.pc = "exited"
      /\ kind = "fork" => t.pc = "waitpid"
      /\ kind \in {"syntax error", "no-op"} =>
            t.pc = "read" /\ t.cursor_end_offset = 0 /\ t.keyboard_command_length = 0
  <2>1. t = CASE kind \in {"exit", "word too long"} -> [w EXCEPT !.pc = "exited"]
              [] kind = "fork" -> [w EXCEPT !.pc = "waitpid"]
              [] OTHER -> Prompt(w)
    OBVIOUS
  <2> HIDE DEF t
  <2>2. CASE kind \in {"exit", "word too long"}
    BY <1>4, <2>1, <2>2 DEF ShellFields
  <2>3. CASE kind = "fork"
    BY <1>4, <2>1, <2>3 DEF ShellFields
  <2>4. CASE kind \in {"syntax error", "no-op"}
    <3>1. t = Prompt(w)
      BY <2>1, <2>4
    <3> QED
      BY <1>4, <2>4, <3>1 DEF ShellFields, Prompt
  <2> QED
    BY <1>3, <2>2, <2>3, <2>4
<1> HIDE DEF t, text
<1>7. Sequence(text)
  <2>1. Sequence(ERROR_MESSAGE \o command_prompt)
    BY MessagesAreSequences, SequenceConcat
  <2> QED
    BY <1>3, <1>5, <2>1, MessagesAreSequences
<1>8. Sequence(nl) /\ FoldLeft(PutChar, f, nl) = d
  <2>1. 1 \in Nat /\ DOMAIN nl = 1 .. 1 /\ nl[1] = NL
    OBVIOUS
  <2>2. Sequence(nl)
    BY MessagesAreSequences
  <2> HIDE DEF nl
  <2> QED
    BY <2>1, <2>2, FoldShort
<1> HIDE DEF nl
<1>9. Sequence(bytes) /\ FoldLeft(PutChar, f, bytes) = FoldLeft(PutChar, d, text)
  <2>1. Sequence(nl) /\ Sequence(text)
    BY <1>7, <1>8
  <2> HIDE DEF d
  <2>2. Sequence(nl \o text)
    BY <2>1, SequenceConcat
  <2>3. FoldLeft(PutChar, f, nl \o text) = FoldLeft(PutChar, FoldLeft(PutChar, f, nl), text)
    BY <2>1, FoldConcat
  <2>4. FoldLeft(PutChar, f, nl) = d
    BY <1>8
  <2> HIDE DEF nl, text
  <2>5. FoldLeft(PutChar, f, bytes) = FoldLeft(PutChar, d, text)
    BY <2>3, <2>4
  <2> QED
    BY <2>2, <2>5
<1> HIDE DEF bytes
<1>10. Drawable(d) /\ \A more : Shows(d, more, 0, 0)
    BY <1>2, WriteDrawable, NewlineShows
<1> HIDE DEF d
<1>11. CASE kind \in {"exit", "word too long", "fork"}
  <2> DEFINE g == FoldLeft(PutChar, f, bytes)
  <2>1. Sequence(text) /\ PlainOutput(text)
    BY <1>5, <1>7, <1>11, MessagePlain
  <2>2. \A more : Shows(FoldLeft(PutChar, d, text), more, 0, 0)
    BY <1>10, <2>1, OutputShows
  <2>4. \A more : Shows(g, more, 0, 0)
    BY <1>9, <2>2
  <2>5. PICK e : vt' = [vt EXCEPT ![v] = e] /\ SamePicture(g, e)
    BY <1>1, <1>2, <1>9, WriteWritten DEF Written
  <2> HIDE DEF g
  <2>6. Calm(e) /\ \A more : Shows(e, more, 0, 0)
    <3>1. \A more : Shows(e, more, 0, 0)
      BY <2>4, <2>5, SameShows
    <3>2. Shows(e, <<>>, 0, 0)
      BY <3>1
    <3>3. Calm(e)
      BY <3>2 DEF Shows
    <3> QED
      BY <3>1, <3>3
  <2>7. t.pc \in {"exited", "waitpid"}
    BY <1>6, <1>11
  <2>8. Steady(e, t, drawn'[v])
    BY <2>6, <2>7 DEF Steady
  <2> QED
    BY <1>2, <2>5, <2>8 DEF Ends
<1>12. CASE kind \in {"syntax error", "no-op"}
  <2>1. t.pc = "read" /\ t.cursor_end_offset = 0 /\ t.keyboard_command_length = 0
    BY <1>6, <1>12
  <2>2. Displays(FoldLeft(PutChar, d, text), t.keyboard_command_buffer, 0, 0)
    <3>1. CASE kind = "no-op"
      BY <1>5, <1>10, <3>1, PromptDisplays
    <3>2. CASE kind = "syntax error"
      <4>1. Displays(FoldLeft(PutChar, d, ERROR_MESSAGE \o command_prompt), t.keyboard_command_buffer, 0, 0)
        BY <1>10, MessagesAreSequences, MessagePlain, OutputDisplays
      <4> QED
        BY <1>5, <3>2, <4>1
    <3> QED
      BY <1>12, <3>1, <3>2
  <2>3. Displays(FoldLeft(PutChar, f, bytes), t.keyboard_command_buffer, 0, 0)
    BY <1>9, <2>2
  <2> QED
    BY <1>1, <1>9, <2>1, <2>3, PromptSteady
<1> QED
    BY <1>3, <1>11, <1>12

\* Reading leaves the picture.
LEMMA TakingBefore ==
    ASSUME NEW v, v \in Vts, DOMAIN shell = Vts, Device(vt[v]), RingOK(vt[v]), ScreenOK(vt[v]),
           LineOK(shell[v]), Steady(vt[v], shell[v], drawn[v]), NEW n, NEW f, Taking(vt[v], f, n)
    PROVE  Before(v, f)
<1> DEFINE d == vt[v]
           s == shell[v]
<1>1. Device(d) /\ RingOK(d) /\ ScreenOK(d) /\ LineOK(s) /\ Steady(d, s, drawn[v])
      /\ Taking(d, f, n)
    OBVIOUS
<1> HIDE DEF d, s
<1>2. Device(f) /\ ScreenOK(f)
    BY <1>1, TakenFits
<1>3. SamePicture(d, f)
    BY <1>1, TakingRing DEF SameScreen, SamePicture
<1>4. Steady(f, s, drawn[v])
    BY <1>1, <1>3, SteadyStays
<1> QED
    BY <1>1, <1>2, <1>4 DEF Before, Drawable, s

\* ReadKey.
LEMMA KeySteady ==
    ASSUME EnterAtEnd, NEW v, v \in Vts, DOMAIN shell = Vts, Device(vt[v]), RingOK(vt[v]),
           ScreenOK(vt[v]), LineOK(shell[v]), Steady(vt[v], shell[v], drawn[v]), Fits(shell'[v]),
           ReadKey(v)
    PROVE  Ends(v)
<1> DEFINE s == shell[v]
           r == vt_read(vt[v], 1)
           c == r.chars[1]
           f == r.left
<1>1. s.pc = "read" /\ r.chars # <<>>
    BY DEF ReadKey
<1>2. \/ /\ c = ESC /\ vt' = [vt EXCEPT ![v] = f] /\ drawn' = drawn
         /\ shell' = [shell EXCEPT ![v].pc = "escape", ![v].arrow_code = <<>>]
      \/ EraseKey(v, f, s) \/ EnterKey(v, f, s) \/ TypeKey(v, f, s, c)
    BY DEF ReadKey, ESC, ERASE, NL
<1>3. PICK m \in 1 .. 1 : Taking(vt[v], r.left, m)
    BY <1>1, ReadParts
<1>4. Before(v, f)
    BY <1>3, TakingBefore
<1>5. LineOK(s)
    OBVIOUS
<1> HIDE DEF r, c, f
<1>6. CASE /\ c = ESC /\ vt' = [vt EXCEPT ![v] = f] /\ drawn' = drawn
           /\ shell' = [shell EXCEPT ![v].pc = "escape", ![v].arrow_code = <<>>]
  <2> DEFINE t == [s EXCEPT !.pc = "escape", !.arrow_code = <<>>]
  <2>1. shell' = [shell EXCEPT ![v] = t]
    BY <1>6
  <2> HIDE DEF s
  <2>2. /\ t.pc = "escape" /\ t.keyboard_command_buffer = s.keyboard_command_buffer
        /\ t.keyboard_command_length = s.keyboard_command_length
        /\ t.cursor_end_offset = s.cursor_end_offset
    BY <1>5 DEF LineOK, Editing, ShellFields
  <2> HIDE DEF t
  <2> QED
    BY <1>1, <1>4, <1>6, <2>1, <2>2, SwallowSteady DEF s
<1>7. CASE EraseKey(v, f, s)
    BY <1>1, <1>4, <1>7, LineKeysSteady
<1>8. CASE EnterKey(v, f, s)
    BY <1>4, <1>8, EnterSteady
<1>9. CASE TypeKey(v, f, s, c)
    BY <1>1, <1>4, <1>9, TypeSteady
<1> QED
    BY <1>2, <1>6, <1>7, <1>8, <1>9

\* ReadEscape.
LEMMA EscapeSteady ==
    ASSUME NEW v, v \in Vts, DOMAIN shell = Vts, Device(vt[v]), RingOK(vt[v]),
           ScreenOK(vt[v]), LineOK(shell[v]), Steady(vt[v], shell[v], drawn[v]), Fits(shell'[v]),
           ReadEscape(v)
    PROVE  Ends(v)
<1> DEFINE s == shell[v]
           a == Len(s.arrow_code)
           r == vt_read(vt[v], 2 - a)
           f == r.left
           code == s.arrow_code \o r.chars
<1>1. s.pc = "escape" /\ r.chars # <<>> /\ LineOK(s)
    BY DEF ReadEscape
<1>2. 2 - a \in Nat
    BY <1>1, SequenceDomain DEF LineOK, Editing
<1>3. PICK m \in 1 .. 2 - a : Taking(vt[v], r.left, m)
    BY <1>1, <1>2, ReadParts
<1>4. Before(v, f)
    BY <1>3, TakingBefore
<1>5. \/ vt' = [vt EXCEPT ![v] = f] /\ shell' = [shell EXCEPT ![v].arrow_code = code] /\ drawn' = drawn
      \/ ArrowUp(v, f, s) \/ ArrowRight(v, f, s) \/ ArrowLeft(v, f, s) \/ Swallow(v, f, s)
    BY DEF ReadEscape
<1> HIDE DEF r, f, code, a
<1>6. CASE vt' = [vt EXCEPT ![v] = f] /\ shell' = [shell EXCEPT ![v].arrow_code = code] /\ drawn' = drawn
  <2> DEFINE t == [s EXCEPT !.arrow_code = code]
  <2>1. shell' = [shell EXCEPT ![v] = t]
    BY <1>6
  <2> HIDE DEF s
  <2>2. /\ t.pc = "escape" /\ t.keyboard_command_buffer = s.keyboard_command_buffer
        /\ t.keyboard_command_length = s.keyboard_command_length
        /\ t.cursor_end_offset = s.cursor_end_offset
    BY <1>1 DEF LineOK, Editing, ShellFields
  <2> HIDE DEF t
  <2> QED
    BY <1>1, <1>4, <1>6, <2>1, <2>2, SwallowSteady DEF s
<1>7. CASE ArrowUp(v, f, s) \/ ArrowRight(v, f, s) \/ ArrowLeft(v, f, s) \/ Swallow(v, f, s)
    BY <1>1, <1>4, <1>7, LineKeysSteady
<1> QED
    BY <1>5, <1>6, <1>7

\* Others write lines: the line of the shell is spoilt, but the cursor's row is
\* empty and no escape sequence is open.
LEMMA ForeignSteady ==
    ASSUME PlainOutputs, NEW v, v \in Vts, Before(v, vt[v]), v \in DOMAIN drawn, ForeignWrite(v)
    PROVE  Ends(v)
<1> DEFINE s == shell[v]
           d == vt[v]
<1>1. /\ Drawable(d) /\ Calm(d) /\ shell' = shell /\ drawn'[v] = FALSE
      /\ s.pc = "start" => s.keyboard_command_length = 0
    BY ForeignText DEF Before, Steady
<1>2. PICK text \in Outputs \cup KernelMessages : text # <<>> /\ vt_write(v, d, text)
    BY ForeignText
<1>3. Sequence(text) /\ PlainOutput(text)
    BY MessagesAreSequences DEF PlainOutputs
<1>4. Len(text) \in Nat /\ Len(text) > 0
  <2>1. Len(text) \in Nat
    BY <1>3, SequenceDomain
  <2>2. Len(text) # 0
    BY <1>2, <1>3, NoElements
  <2> QED
    BY <2>1, <2>2
<1> HIDE DEF d, s
<1> DEFINE g == FoldLeft(PutChar, d, text)
<1>5. \A more : Shows(g, more, 0, 0)
    BY <1>1, <1>3, <1>4, OutputShows
<1>6. PICK e : vt' = [vt EXCEPT ![v] = e] /\ SamePicture(g, e)
    BY <1>1, <1>2, <1>3, WriteWritten DEF Written
<1> HIDE DEF g
<1>7. Calm(e) /\ \A more : Shows(e, more, 0, 0)
    BY <1>5, <1>6, SameShows DEF Shows
<1>8. Steady(e, s, drawn'[v])
    BY <1>1, <1>7 DEF Steady
<1>9. shell'[v] = s
    BY <1>1 DEF s
<1> QED
    BY <1>6, <1>8, <1>9 DEF Ends

\* Every terminal shows what its shell is at.
PicturesInv == \A v \in Vts : Steady(vt[v], shell[v], drawn[v]) /\ TypedText(shell[v])

\* keyboard_rb_fill draws nothing.
LEMMA KeyPictures ==
    ASSUME LinesInv, PicturesInv, NEW key \in Keys, keyboard_rb_fill(key), shell' = shell,
           drawn' = drawn
    PROVE  PicturesInv'
<1> DEFINE a == active_vt_device
           to == SwitchesTo(depressed_mod_keys, key)
<1>1. DOMAIN vt = Vts /\ a \in Vts /\ \A v \in Vts : Device(vt[v]) /\ RingOK(vt[v])
    BY DEF LinesInv, Paired
<1>2. \A v \in Vts : Steady(vt[v], shell[v], drawn[v]) /\ TypedText(shell'[v])
    BY DEF PicturesInv
<1>3. ASSUME NEW w \in Vts, NEW e, vt' = [vt EXCEPT ![w] = e], SamePicture(vt[w], e) PROVE PicturesInv'
  <2>1. vt'[w] = e /\ \A v \in Vts : v # w => vt'[v] = vt[v]
    BY <1>1, <1>3
  <2>2. Steady(e, shell[w], drawn[w])
    BY <1>2, <1>3, SteadyStays
  <2> QED
    BY <1>2, <2>1, <2>2 DEF PicturesInv
<1>4. CASE vt' = vt
    BY <1>2, <1>4 DEF PicturesInv
<1>5. CASE to # 0 /\ set_active_vt(to)
  <2>1. to \in Vts
    BY <1>5, TerminalAssumption DEF SwitchesTo
  <2> HIDE DEF to
  <2> DEFINE e == [vt[to] EXCEPT !.repaint_flags = {}]
  <2>2. vt' = [vt EXCEPT ![to] = e]
    BY <1>5 DEF set_active_vt
  <2>3. SamePicture(vt[to], e)
    BY <1>1, <2>1 DEF SamePicture, Device, DeviceFields
  <2> HIDE DEF e
  <2> QED
    BY <1>3, <2>1, <2>2, <2>3
<1>6. CASE vt' = [vt EXCEPT ![active_vt_device] = vt_update_input(@, Event(depressed_mod_keys, key))]
  <2> DEFINE bytes == InputOf(Event(depressed_mod_keys, key))
             e == FoldLeft(vt_append_input_character, vt[a], bytes)
  <2>1. vt' = [vt EXCEPT ![a] = e]
    BY <1>6 DEF vt_update_input
  <2>2. Sequence(bytes)
    BY InputOfSequence
  <2> HIDE DEF bytes
  <2>3. Adds(vt[a], e)
    BY <1>1, <2>2, SequenceDomain, UpdateAdds
  <2> HIDE DEF e
  <2>4. SamePicture(vt[a], e)
    BY <2>3 DEF Adds, SameScreen, SamePicture
  <2> QED
    BY <1>1, <1>3, <2>1, <2>4
<1> QED
    BY <1>4, <1>5, <1>6 DEF keyboard_rb_fill

\* Every step keeps it.
LEMMA PicturesPreserved ==
    ASSUME EnterAtEnd, PlainOutputs
    PROVE  LinesInv /\ ForeignOK /\ PicturesInv /\ [Next]_vars => PicturesInv'
<1> SUFFICES ASSUME LinesInv, ForeignOK, PicturesInv, [Next]_vars PROVE PicturesInv'
    OBVIOUS
<1>1. /\ DOMAIN vt = Vts /\ DOMAIN shell = Vts
      /\ \A v \in Vts : /\ Device(vt[v]) /\ RingOK(vt[v]) /\ ScreenOK(vt[v])
                        /\ LineOK(shell[v]) /\ Steady(vt[v], shell[v], drawn[v])
    BY DEF LinesInv, Paired, PicturesInv
<1>2. LinesInv' /\ EditsLines
    BY LinesPreserved
<1>3. \A v \in Vts : TypedText(shell'[v])
    BY <1>2, EditsTyped DEF EditsLines, PicturesInv
<1>4. \A v \in Vts : Fits(shell'[v])
  <2> SUFFICES ASSUME NEW v \in Vts PROVE Fits(shell'[v])
    OBVIOUS
  <2>1. Paired(vt'[v], shell'[v], keys') /\ keys' \in 0 .. MaxKeys
    BY <1>2 DEF LinesInv
  <2>2. keys' \in Nat /\ keys' <= KEYBOARD_COMMAND_BUFFER_LENGTH
    BY <2>1, TerminalAssumption, ShellAssumption
  <2>3. shell'[v].keyboard_command_length \in 0 .. KEYBOARD_COMMAND_BUFFER_LENGTH
    BY <2>1, <2>2, PairedTypes
  <2>4. LineOK(shell'[v])
    BY <2>1 DEF Paired
  <2>5. KEYBOARD_COMMAND_BUFFER_LENGTH \in Nat
    BY ShellAssumption
  <2> QED
    BY <1>3, <2>3, <2>4, <2>5 DEF Fits
<1>5. CASE UNCHANGED <<terminalVars, shell, drawn>>
  <2>1. vt' = vt /\ shell' = shell /\ drawn' = drawn
    BY <1>5 DEF terminalVars
  <2> QED
    BY <2>1 DEF PicturesInv
<1>6. ASSUME NEW key \in Keys, KeyboardInterrupt(key) PROVE PicturesInv'
    BY <1>6, KeyPictures DEF KeyboardInterrupt
<1>7. ASSUME NEW v \in Vts,
             StartShell(v) \/ ReadKey(v) \/ ReadEscape(v) \/ ChildDone(v) \/ ForeignWrite(v)
      PROVE  PicturesInv'
  <2>1. Before(v, vt[v])
    BY <1>1 DEF Before, Drawable
  <2>2. Ends(v)
    <3>1. CASE StartShell(v)
      BY <2>1, <3>1, StartSteady
    <3>2. CASE ReadKey(v)
      BY <1>1, <1>4, <3>2, KeySteady
    <3>3. CASE ReadEscape(v)
      BY <1>1, <1>4, <3>3, EscapeSteady
    <3>4. CASE ChildDone(v)
      BY <2>1, <3>4, ChildSteady
    <3>5. CASE ForeignWrite(v)
      BY <2>1, <3>5, ForeignSteady DEF ForeignOK
    <3> QED
      BY <1>7, <3>1, <3>2, <3>3, <3>4, <3>5
  <2>3. PICK e : vt' = [vt EXCEPT ![v] = e] /\ Steady(e, shell'[v], drawn'[v])
    BY <2>2 DEF Ends
  <2>4. \A w \in Vts : w # v => shell'[w] = shell[w]
    <3>1. /\ keys \in Nat /\ keys <= KEYBOARD_COMMAND_BUFFER_LENGTH /\ DOMAIN framebuffer = Cells
          /\ Paired(vt[v], shell[v], keys)
      BY TerminalAssumption, ShellAssumption DEF LinesInv
    <3>2. Moves(v, keys)
      BY <1>1, <1>7, <3>1, StartMoves, KeyMoves, EscapeMoves, ChildMoves, ForeignMoves
    <3> QED
      BY <1>1, <3>2 DEF Moves
  <2>5. /\ vt'[v] = e /\ \A w \in Vts : w # v => vt'[w] = vt[w]
        /\ \A w \in Vts : w # v => shell'[w] = shell[w]
    BY <1>1, <2>3, <2>4
  <2>6. \A w \in Vts : w # v => drawn'[w] = drawn[w]
    BY <1>7, DrawnChanges
  <2> QED
    BY <1>1, <1>3, <2>3, <2>5, <2>6 DEF PicturesInv
<1>8. OpenScript \/ ScriptRead \/ ScriptChildDone \/ UNCHANGED vars
        => UNCHANGED <<terminalVars, shell, drawn>>
    BY DEF OpenScript, ScriptRead, ScriptChildDone, vars
<1> QED
    BY <1>5, <1>6, <1>7, <1>8 DEF Next

\* Initially every screen is empty.
LEMMA PicturesInitially == Init => PicturesInv
<1> SUFFICES ASSUME Init PROVE PicturesInv
    OBVIOUS
<1> DEFINE d == vt_device_init
           e == [d EXCEPT !.repaint_flags = {}]
           all == [v \in Vts |-> d]
<1>1. vt = [all EXCEPT ![1].repaint_flags = {}] /\ 1 \in Vts
    BY TerminalAssumption DEF Init, terminal_init_1
<1>2. vt[1] = e /\ \A v \in Vts : v # 1 => vt[v] = d
    BY <1>1
<1>3. /\ DeviceFields \subseteq DOMAIN d /\ d.escape_state = "VT_ESCAPE_NONE"
      /\ d.cursor_row = 0 /\ d.cursor_column = 0 /\ \A x \in Cells : d.terminal_buffer[x] = NUL
    BY DEF vt_device_init, DeviceFields
<1>4. SamePicture(d, e)
    BY <1>3 DEF SamePicture, DeviceFields
<1> HIDE DEF d, e
<1>5. Calm(d) /\ \A text : Shows(d, text, 0, 0)
  <2>1. Glyph(NUL) = SPACE
    BY DEF Glyph
  <2>2. \A x \in Cells : Glyph(d.terminal_buffer[x]) = SPACE
    BY <1>3, <2>1
  <2>3. Calm(d)
    BY <1>3, <2>2 DEF Calm
  <2>4. 0 \in Rows
    BY TerminalAssumption DEF Rows
  <2>5. \A k \in Cols : <<0, k>> \in Cells /\ ~ (k < 0)
    BY <2>4, CellParts
  <2> QED
    BY <1>3, <2>2, <2>3, <2>5 DEF Shows
<1>6. PICK pc : pc \in {"start", "none"} /\ shell = [v \in Vts |-> NewShell(pc)]
    BY DEF Init
<1> DEFINE s == NewShell(pc)
<1>7. s.pc = pc /\ s.keyboard_command_length = 0
    BY DEF NewShell
<1>8. TypedText(s)
  <2>1. LineOK(s) /\ s.cursor_end_offset = 0 /\ s.prev_keyboard_command_length = 0
    <3>1. shell[1] = s
      BY <1>1, <1>6
    <3>2. LineOK(shell[1])
      BY <1>1, LinesInitially DEF LinesInv, Paired
    <3> QED
      BY <3>1, <3>2 DEF NewShell
  <2> HIDE DEF s
  <2>2. ~ Waits(s)
    BY <1>6, <1>7 DEF Waits
  <2>3. /\ Sequence(TextBefore(s)) /\ Len(TextBefore(s)) = 0 - 0
        /\ Sequence(TextAfter(s)) /\ Len(TextAfter(s)) = 0
    BY <1>7, <2>1, <2>2, TextElements
  <2>4. Sequence(TextHistory(s)) /\ Len(TextHistory(s)) = 0
    BY <2>1, LineElements DEF TextHistory
  <2>5. TextBefore(s) = <<>> /\ TextAfter(s) = <<>> /\ TextHistory(s) = <<>>
    BY <2>3, <2>4, NoElements
  <2>6. <<>> \in Seq(TypedChars)
    OBVIOUS
  <2> QED
    BY <2>5, <2>6 DEF TypedText
<1> HIDE DEF s
<1>9. \A w : Steady(d, s, w)
    BY <1>5, <1>6, <1>7 DEF Steady
<1>10. \A w : Steady(e, s, w)
    BY <1>4, <1>9, SteadyStays
<1> QED
    BY <1>2, <1>6, <1>8, <1>9, <1>10 DEF PicturesInv, s

\* It says what LineOnScreen says.
LEMMA PicturesOnScreen == LinesInv /\ ForeignOK /\ PicturesInv => LineOnScreen
<1> SUFFICES ASSUME LinesInv, ForeignOK, PicturesInv PROVE LineOnScreen
    OBVIOUS
<1> SUFFICES ASSUME NEW v \in Vts,
                    shell[v].pc \in {"read", "escape"}, drawn[v],
                    Len(command_prompt \o LineOf(shell[v].keyboard_command_buffer, shell[v].keyboard_command_length))
                      < terminal_width
             PROVE  LET s == shell[v]
                        d == vt[v]
                        shown == command_prompt \o LineOf(s.keyboard_command_buffer, s.keyboard_command_length)
                    IN /\ d.cursor_column = Len(shown) - s.cursor_end_offset
                       /\ \A k \in Cols : Glyph(d.terminal_buffer[<<d.cursor_row, k>>])
                                            = IF k < Len(shown) THEN shown[k + 1] ELSE SPACE
    BY DEF LineOnScreen
<1> DEFINE s == shell[v]
           d == vt[v]
           b == s.keyboard_command_buffer
           n == s.keyboard_command_length
           shown == ShownLine(b, n)
<1>7. drawn[v] = TRUE
    BY DEF ForeignOK
<1>1. LineOK(s) /\ Steady(d, s, drawn[v]) /\ s.pc \in {"read", "escape"} /\ Len(shown) < terminal_width
    BY DEF LinesInv, Paired, PicturesInv, ShownLine
<1>2. n \in Nat
    BY <1>1 DEF LineOK, Editing
<1>3. Len(shown) = n + 2
    BY <1>2, ShownElements
<1>4. Shows(d, shown, n + 2, (n + 2) - s.cursor_end_offset)
  <2>1. Displays(d, b, n, s.cursor_end_offset)
    BY <1>1, <1>7 DEF Steady
  <2> QED
    BY <1>1, <1>3, <2>1 DEF Displays
<1>5. shown = command_prompt \o LineOf(s.keyboard_command_buffer, s.keyboard_command_length)
    BY DEF ShownLine
<1> HIDE DEF shown
<1>6. /\ d.cursor_column = Len(shown) - s.cursor_end_offset
      /\ \A k \in Cols : Glyph(d.terminal_buffer[<<d.cursor_row, k>>])
                           = IF k < Len(shown) THEN shown[k + 1] ELSE SPACE
    BY <1>3, <1>4 DEF Shows
<1> QED
    BY <1>5, <1>6

\* shell.c, tty.c and idt.c: with Enter pressed at the end of the line, and
\* commands and a kernel that write whole lines, the line on the screen is the
\* line in the buffer and the cursor is where the next character will be
\* inserted, whenever the shell waits for a key and nobody else has written to
\* its terminal since it drew the line.  What a fault report or a program in the
\* background writes into the line lasts until the shell draws it again.
THEOREM LineStaysOnScreen == ASSUME EnterAtEnd, PlainOutputs PROVE Spec => []LineOnScreen
<1>1. LinesInv /\ ForeignOK /\ PicturesInv /\ [Next]_vars => PicturesInv'
    BY PicturesPreserved
<1>2. Spec => [](LinesInv /\ ForeignOK)
    BY LinesAlways, PTL
<1> QED
    BY <1>1, <1>2, PicturesInitially, PicturesOnScreen, PTL DEF Spec
=============================================================================
