----------------------------- MODULE MCMemory -----------------------------
EXTENDS Memory, TLC

\* Text that ends inside a page, and text with zeroed data after it.
SmallPrograms ==
    {<<[p_vaddr |-> 2, p_memsz |-> 1, data |-> <<5>>]>>,
     <<[p_vaddr |-> 2, p_memsz |-> 2, data |-> <<5, 6>>], [p_vaddr |-> 0, p_memsz |-> 0, data |-> <<>>],
       [p_vaddr |-> 4, p_memsz |-> 2, data |-> <<8>>]>>}

Symmetry == Permutations(Procs)
=============================================================================
