------------------------------ MODULE MCRamFs ------------------------------
(* Small instances of RamFs for TLC. *)
EXTENDS RamFs, TLC

HandleSymmetry == Permutations(Handles)
=============================================================================
