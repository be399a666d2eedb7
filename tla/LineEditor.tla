---------------------------- MODULE LineEditor ----------------------------
(***************************************************************************)
(* What the interactive shell promises its user: a line with a cursor in   *)
(* it, and the line before it to go back to.  The text is kept as the part *)
(* before the cursor and the part after it.                                *)
(***************************************************************************)
EXTENDS Sequences, SequencesExt

CONSTANT Chars

VARIABLES before, after, history

vars == <<before, after, history>>

Init == before = <<>> /\ after = <<>> /\ history = <<>>

Type(c) ==
    /\ before' = Append(before, c)
    /\ UNCHANGED <<after, history>>

Erase ==
    /\ before # <<>>
    /\ before' = Front(before)
    /\ UNCHANGED <<after, history>>

Left ==
    /\ before # <<>>
    /\ before' = Front(before)
    /\ after' = <<Last(before)>> \o after
    /\ UNCHANGED history

Right ==
    /\ after # <<>>
    /\ before' = Append(before, Head(after))
    /\ after' = Tail(after)
    /\ UNCHANGED history

\* The current line and the one before it change places.
Recall ==
    /\ before' = history
    /\ after' = <<>>
    /\ history' = before \o after

Enter ==
    /\ history' = before \o after
    /\ before' = <<>>
    /\ after' = <<>>

Next == (\E c \in Chars : Type(c)) \/ Erase \/ Left \/ Right \/ Recall \/ Enter

Spec == Init /\ [][Next]_vars
=============================================================================
