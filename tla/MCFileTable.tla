---------------------------- MODULE MCFileTable ----------------------------
(* Small instances of FileTable for TLC. *)
EXTENDS FileTable

\* Neither slots nor inodes are told apart by any step.
FileSymmetry == Permutations(Files) \cup Permutations(Inodes)

\* No step reads what a slot held before it was freed, by an earlier step:
\* states that differ only there, or in lost slots, are one state.
LiveView ==
    LET Live == UNION {Range(files[t]) : t \in Tasks}
    IN  <<[f \in Live |-> <<fd[f], inode[f], offset[f]>>], used, files, alive>>
=============================================================================
