---------------------------- MODULE ShellParse ----------------------------
(***************************************************************************)
(* The parser of userspace/src/shell.c.                                    *)
(*                                                                         *)
(* A line is a sequence of characters.  Each parse_ function of the code   *)
(* looks at the line from a position on and returns a pair or NULL; here   *)
(* the operator of the same name takes the line and the position and       *)
(* returns the position after what it matched, and the operators below it  *)
(* rebuild what the shell takes from the tree of pairs: the words of the   *)
(* command with their quotes removed and the redirects.                    *)
(***************************************************************************)
EXTENDS Integers, Sequences, SequencesExt, FiniteSetsExt

LOCAL K == INSTANCE Keyboard

NULL == 0

QUOTE == "'"

is_ordinary_character(c) == c \notin {K!NL, QUOTE, K!SPACE, "<", ">"}

\* The first position from i on whose character is not in the set Class.
Skip(line, i, Class(_)) ==
    Min({j \in i .. Len(line) : ~ Class(line[j])} \cup {Len(line) + 1})

parse_zms(line, i) == Skip(line, i, LAMBDA c : c = K!SPACE)

parse_redirect_operator(line, i) ==
    IF i <= Len(line) /\ line[i] \in {"<", ">"} THEN i + 1 ELSE NULL

parse_unquoted_string(line, i) ==
    IF i <= Len(line) /\ is_ordinary_character(line[i]) THEN Skip(line, i, is_ordinary_character)
    ELSE NULL

parse_single_quoted_string(line, i) ==
    IF i > Len(line) \/ line[i] # QUOTE THEN NULL
    ELSE LET e == Skip(line, i + 1, LAMBDA c : c # QUOTE)
         IN IF e > Len(line) THEN NULL ELSE e + 1

\* The first of two alternatives that matches.
Either(a, b) == IF a # NULL THEN a ELSE b

parse_word_fragment(line, i) ==
    Either(parse_single_quoted_string(line, i), parse_unquoted_string(line, i))

\* parse_word: the positions where a fragment of the word at i starts, in order,
\* and the position after the last of them; only i when there is no word.
Fragments(line, i) ==
    LET Then(f, j, e) == IF e = NULL THEN <<j>> ELSE <<j>> \o f[e]
        f[j \in 1 .. Len(line) + 1] == Then(f, j, parse_word_fragment(line, j))
    IN f[i]

parse_word(line, i) ==
    LET Word(e) == IF e = i THEN NULL ELSE e
    IN Word(Last(Fragments(line, i)))

\* expand_word: the characters of the word at i, without the quotes.  (The
\* code ends the word one byte too far; the byte it leaves out is zero
\* already, as malloc never uses memory twice.  A word longer than the
\* buffer is the business of exec_shell_line: WordTooLong of Shell.)
expand_word(line, i) ==
    LET Text(from, to) == IF line[from] = QUOTE THEN SubSeq(line, from + 1, to - 2)
                          ELSE SubSeq(line, from, to - 1)
        Texts(fs) == [j \in 1 .. Len(fs) - 1 |-> Text(fs[j], fs[j + 1])]
    IN FlattenSeq(Texts(Fragments(line, i)))

\* Mutant of RedirectTarget: no spaces are allowed before the target.
RedirectTarget_mutant(line, i) == i + 1

\* parse_redirect: where the target of the operator at i starts.
RedirectTarget(line, i) == parse_zms(line, i + 1)

parse_redirect(line, i) ==
    IF parse_redirect_operator(line, i) = NULL THEN NULL
    ELSE parse_word(line, RedirectTarget(line, i))

parse_simple_command_element(line, i) ==
    Either(parse_redirect(line, i), parse_word(line, i))

\* What exec_shell_line makes of the element at i: an argument or a
\* redirect of descriptor 0 or 1.
Element(line, i) ==
    LET At(redirect) == [fd   |-> IF ~ redirect THEN -1 ELSE IF line[i] = "<" THEN 0 ELSE 1,
                         word |-> expand_word(line, IF redirect THEN RedirectTarget(line, i) ELSE i)]
    IN At(parse_redirect(line, i) # NULL)

\* parse_shell_stmt: the elements found, and the end of the last of them.
parse_shell_stmt(line) ==
    LET Join(i, e, rest) == [elements |-> <<Element(line, i)>> \o rest.elements,
                             end      |-> Either(rest.end, e)]
        From(f, i, e) == IF e = NULL THEN [elements |-> <<>>, end |-> NULL]
                         ELSE Join(i, e, f[parse_zms(line, e)])
        f[i \in 1 .. Len(line) + 1] == From(f, i, parse_simple_command_element(line, i))
    IN [f[1] EXCEPT !.end = Either(@, 1)]

\* What exec_shell_line finds in a line: whether all of it was matched, its
\* words in order, and its redirects in order.
Statement(line) ==
    LET Words(elements) == [i \in DOMAIN elements |-> elements[i].word]
        Of(s) == [ok        |-> s.end = Len(line) + 1,
                  argv      |-> Words(SelectSeq(s.elements, LAMBDA e : e.fd = -1)),
                  redirects |-> SelectSeq(s.elements, LAMBDA e : e.fd # -1)]
    IN Of(parse_shell_stmt(line))

(***************************************************************************)
(* The reference: the same language read in one pass, left to right, by an *)
(* automaton.  "start": nothing read; "bare", "quote": in a word; "gap":   *)
(* in the spaces after an element; "target": after < or >; "error".        *)
(***************************************************************************)
ReferenceStep(s, c) ==
    LET close == IF s.state = "bare"
                 THEN [s EXCEPT !.elements = Append(@, [fd |-> s.fd, word |-> s.word]),
                                !.word = <<>>, !.fd = -1]
                 ELSE s
        Gap   == CASE s.state = "target" -> "target"
                   [] s.state = "start"  -> "error"
                   [] OTHER -> "gap"
    IN IF s.state = "error" THEN s
       ELSE IF s.state = "quote"
       THEN IF c = QUOTE THEN [s EXCEPT !.state = "bare"] ELSE [s EXCEPT !.word = Append(@, c)]
       ELSE CASE c = QUOTE   -> [s EXCEPT !.state = "quote"]
              [] c = K!SPACE -> [close EXCEPT !.state = Gap]
              [] c \in {"<", ">"} -> [close EXCEPT !.state = IF s.state = "target" THEN "error" ELSE "target",
                                                   !.fd = IF c = "<" THEN 0 ELSE 1]
              [] OTHER -> [s EXCEPT !.state = "bare", !.word = Append(@, c)]

ReferenceStatement(line) ==
    LET s == FoldLeft(ReferenceStep, [state |-> "start", fd |-> -1, word |-> <<>>, elements |-> <<>>],
                      line)
        elements == IF s.state = "bare" THEN Append(s.elements, [fd |-> s.fd, word |-> s.word])
                    ELSE s.elements
        words == SelectSeq(elements, LAMBDA e : e.fd = -1)
    IN [ok        |-> s.state \in {"start", "bare"},
        argv      |-> [i \in DOMAIN words |-> words[i].word],
        redirects |-> SelectSeq(elements, LAMBDA e : e.fd # -1)]
=============================================================================
