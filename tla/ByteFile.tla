----------------------------- MODULE ByteFile ------------------------------
(***************************************************************************)
(* What a regular file promises the programs that use it through fs/vfs.c: *)
(* an array of bytes, and a position of its own for every open file.       *)
(* Bytes a file gains without being written may have any value.            *)
(***************************************************************************)
EXTENDS Integers, Sequences

CONSTANTS
    Handles, \* struct files open on the one inode
    Bytes,   \* values of a byte
    Lengths, \* lengths of reads and writes
    MaxSize  \* bound on sizes and offsets

VARIABLES
    data,    \* the file's contents
    offset,  \* position of each open file
    buffer   \* what the last read copied out

vars == <<data, offset, buffer>>

Lesser(m, n) == IF m < n THEN m ELSE n

Init == data = <<>> /\ offset = [h \in Handles |-> 0] /\ buffer = <<>>

\* read: as much as is there, from the position on, which moves behind it.
Read(h, n) ==
    /\ buffer' = SubSeq(data, offset[h] + 1, Lesser(offset[h] + n, Len(data)))
    /\ offset' = [offset EXCEPT ![h] = @ + Len(buffer')]
    /\ UNCHANGED data

\* write: the bytes replace what was there, the file grows if it must.
Write(h, bytes) ==
    /\ data' \in Seq(Bytes)
    /\ Len(data') = IF bytes = <<>> \/ Len(data) > offset[h] + Len(bytes)
                    THEN Len(data) ELSE offset[h] + Len(bytes)
    /\ \A i \in 1 .. Len(bytes) : data'[offset[h] + i] = bytes[i]
    /\ \A i \in 1 .. Len(data) :
          i \notin offset[h] + 1 .. offset[h] + Len(bytes) => data'[i] = data[i]
    /\ offset' = [offset EXCEPT ![h] = @ + Len(bytes)]
    /\ UNCHANGED buffer

\* ftruncate, and open with O_TRUNCATE.
SetSize(n) ==
    /\ data' \in Seq(Bytes)
    /\ Len(data') = n
    /\ \A i \in 1 .. Lesser(n, Len(data)) : data'[i] = data[i]
    /\ UNCHANGED <<offset, buffer>>

\* lseek.
Seek(h, o) == offset' = [offset EXCEPT ![h] = o] /\ UNCHANGED <<data, buffer>>

Next ==
    \/ \E h \in Handles, n \in Lengths : Read(h, n)
    \/ \E h \in Handles, n \in Lengths : \E bytes \in [1 .. n -> Bytes] : Write(h, bytes)
    \/ \E n \in 0 .. MaxSize : SetSize(n)
    \/ \E h \in Handles, o \in 0 .. MaxSize : Seek(h, o)

Spec == Init /\ [][Next]_vars
=============================================================================
