---------------------------- MODULE MCScheduler ----------------------------
(* Small instances of Scheduler for TLC. *)
EXTENDS Scheduler, TLC

\* Slots are interchangeable: the slab hands out any free one.
SlotSymmetry == Permutations(Slots)
=============================================================================
