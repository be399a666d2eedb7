----------------------------- MODULE Transfers -----------------------------
(***************************************************************************)
(* What reading and writing files on a disk promises: a call moves the     *)
(* bytes it asks for, in order and a few at a time, between the task's     *)
(* buffer and the places the file occupies on the disk, and no byte of the *)
(* disk changes but those a write asks for.                                *)
(***************************************************************************)
EXTENDS Naturals, Sequences

CONSTANTS
    Tasks,
    Places   \* for each file, where its bytes are on the disk: a sequence of addresses

VARIABLES
    disk,     \* address -> byte
    ready,    \* the size of the disk is known; until then files are empty
    call,     \* [op, file, offset, length, data, ready] or NoCall
    done,     \* bytes moved by the call so far
    got,      \* bytes read by it
    filp      \* the file a task has open: [file, offset]

vars == <<disk, ready, call, done, got, filp>>

NoCall == [op |-> "none"]
NoFile == [file |-> "none", offset |-> 0]

\* A call stops at the end of the file.
Extent(c) ==
    LET left == Len(Places[c.file]) - c.offset
    IN IF ~ c.ready THEN 0 ELSE IF c.length < left THEN c.length ELSE left

\* The address of the k-th byte the call moves.
Address(c, k) == Places[c.file][c.offset + k]

\* The task may have opened another file before, or moved its offset.
Begin(t) ==
    /\ call[t] = NoCall
    /\ call'[t].op \in {"read", "write"}
    /\ filp' = [filp EXCEPT ![t] = [file |-> call'[t].file, offset |-> call'[t].offset]]
    /\ call'[t].ready = ready
    /\ call' = [call EXCEPT ![t] = call'[t]]
    /\ done' = [done EXCEPT ![t] = 0]
    /\ got' = [got EXCEPT ![t] = <<>>]
    /\ UNCHANGED <<disk, ready>>

\* The next n bytes of a read, or of a write.
Move(t) ==
    LET c == call[t]
    IN /\ c # NoCall
       /\ \E n \in 1 .. Extent(c) - done[t] :
            LET moved == done[t] + 1 .. done[t] + n
            IN /\ done' = [done EXCEPT ![t] = @ + n]
               /\ \/ /\ c.op = "read"
                     /\ got' = [got EXCEPT ![t] = @ \o [i \in 1 .. n |-> disk[Address(c, Len(@) + i)]]]
                     /\ UNCHANGED disk
                  \/ /\ c.op = "write"
                     /\ disk' = [a \in DOMAIN disk |->
                                   IF \E k \in moved : Address(c, k) = a
                                   THEN c.data[CHOOSE k \in moved : Address(c, k) = a]
                                   ELSE disk[a]]
                     /\ UNCHANGED got
       /\ UNCHANGED <<ready, call, filp>>

\* After a write to an exFAT file the offset is of no use: vfs_write adds what
\* exfat_write has already added.
End(t) ==
    LET c == call[t]
    IN /\ c # NoCall
       /\ done[t] = Extent(c)
       /\ call' = [call EXCEPT ![t] = NoCall]
       /\ filp' = [filp EXCEPT ![t].offset = filp'[t].offset]
       /\ filp'[t].offset = c.offset + done[t] \/ (c.op = "write" /\ c.file = "exfat")
       /\ done' = [done EXCEPT ![t] = 0]
       /\ got' = [got EXCEPT ![t] = <<>>]
       /\ UNCHANGED <<disk, ready>>

\* The task is killed in the middle of a call; a new one takes its place.
Abort(t) ==
    /\ call' = [call EXCEPT ![t] = NoCall]
    /\ filp' = [filp EXCEPT ![t] = NoFile]
    /\ done' = [done EXCEPT ![t] = 0]
    /\ got' = [got EXCEPT ![t] = <<>>]
    /\ UNCHANGED <<disk, ready>>

Probe ==
    /\ ready' \in {ready, TRUE}
    /\ UNCHANGED <<disk, call, done, got, filp>>

Init ==
    /\ ready = FALSE
    /\ filp = [t \in Tasks |-> NoFile]
    /\ call = [t \in Tasks |-> NoCall]
    /\ done = [t \in Tasks |-> 0]
    /\ got = [t \in Tasks |-> <<>>]

Next == Probe \/ \E t \in Tasks : Begin(t) \/ Move(t) \/ End(t) \/ Abort(t)

Spec == Init /\ [][Next]_vars
=============================================================================
