------------------------------ MODULE MCShell ------------------------------
EXTENDS Shell

\* Every one-line script of at most 4 characters, and every script of at most
\* 6 over a command, an empty line and a line that exits.
SmallScripts ==
    LET Text(chars, n) == UNION {[1 .. k -> chars] : k \in 0 .. n}
    IN {Append(t, NL) : t \in Text({"a", "'", SPACE, "<", ">"}, 4)}
         \cup Text({"a", NL}, 6)
         \cup {<<"a", NL, "e", "x", "i", "t", NL, "a", NL>>}

CommandOutputs == {<<>>, <<"x", NL>>}

\* Longer than a row of the screen.
FaultMessages == {<<"f", "a", "u", "l", "t", "!", NL>>}
=============================================================================
