--------------------------- MODULE AddressSpaces ---------------------------
(***************************************************************************)
(* What the kernel's memory management promises to processes: each has an  *)
(* address space of its own, a word for every address that is mapped, and  *)
(* only its own stores, brk and exec change it.  The empty function is the *)
(* address space of a process that does not exist.                         *)
(***************************************************************************)
EXTENDS Integers

CONSTANTS
    Tasks,      \* the processes there can be
    Addresses,  \* of user memory
    Words,      \* what a process can store
    Images      \* address spaces of freshly loaded programs

VARIABLE space

None == [a \in {} |-> 0]

Init == space = [p \in Tasks |-> None]

(***************************************************************************)
(* What may happen to one address space, from old to new.                  *)
(***************************************************************************)
Load(old, new) == new \in Images

Store(old, new) == \E a \in DOMAIN old, w \in Words : new = [old EXCEPT ![a] = w]

\* brk: the new addresses hold zeroes.
Grow(old, new) ==
    /\ old # None
    /\ DOMAIN old \subseteq DOMAIN new /\ DOMAIN new \subseteq Addresses
    /\ new = [a \in DOMAIN new |-> IF a \in DOMAIN old THEN old[a] ELSE 0]

Reap(old, new) == new = None

\* A new process starts with a copy of another's.
Fork(spaces, old, new) == old = None /\ \E p \in Tasks : new = spaces[p]

\* Only one of them changes.
Next ==
    \E old \in {space}, new \in {space'} : \E p \in Tasks :
       /\ new = [old EXCEPT ![p] = new[p]]
       /\ \/ Load(old[p], new[p])
          \/ Store(old[p], new[p])
          \/ Grow(old[p], new[p])
          \/ Reap(old[p], new[p])
          \/ Fork(old, old[p], new[p])

Spec == Init /\ [][Next]_space
=============================================================================
