------------------------------- MODULE RamFs -------------------------------
(***************************************************************************)
(* A regular file of fs/ramfs.c behind fs/vfs.c: a size and a list of      *)
(* clusters of fixed capacity, read and written through struct files that  *)
(* tasks opened on it.  No operation gives up the CPU.                     *)
(*                                                                         *)
(* Shown to implement ByteFile.                                            *)
(***************************************************************************)
EXTENDS Integers, Sequences, FiniteSetsExt

CONSTANTS
    Handles,  \* struct files open on the inode
    Bytes,    \* values of a byte
    Lengths,  \* lengths of reads and writes
    MaxSize,  \* bound on sizes and offsets
    CAPACITY, \* RAMFS_CLUSTER_CAPACITY
    PastEnd   \* TRUE: programs also read at an offset beyond the size

ASSUME RamFsConstants ==
    /\ 0 \in Bytes
    /\ Lengths \subseteq Nat /\ MaxSize \in Nat
    /\ CAPACITY \in Nat \ {0}
    /\ PastEnd \in BOOLEAN

VARIABLES
    size, clusters, \* the struct ramfs_inode
    offset,         \* of each struct file
    buffer,         \* what the last read copied out
    wild            \* a memcpy has run outside a cluster or the buffer: anything may follow

vars == <<size, clusters, offset, buffer, wild>>

Cluster == [0 .. CAPACITY - 1 -> Bytes]

TypeOK ==
    /\ size \in 0 .. MaxSize
    /\ clusters \in Seq(Cluster)
    /\ offset \in [Handles -> 0 .. MaxSize]
    /\ buffer \in Seq(Bytes)
    /\ wild \in BOOLEAN

\* vfs_create and ramfs_create_file_inode: no cluster; the size is the zero
\* that slab_alloc's memset left, for a ramfs_inode is never freed.
Init ==
    /\ size = 0 /\ clusters = <<>>
    /\ offset = [h \in Handles |-> 0]
    /\ buffer = <<>> /\ wild = FALSE

-----------------------------------------------------------------------------
\* Mutant of ClusterCount: the loop runs once more at a multiple of the capacity.
ClusterCountMore(n) == n \div CAPACITY + 1

\* The loop of ramfs_set_size runs at least once and until the clusters cover
\* n bytes; then the clusters in excess are dropped.
ClusterCount(n) == IF n = 0 THEN 1 ELSE (n + CAPACITY - 1) \div CAPACITY

\* The clusters ramfs_set_size(n) leaves: new ones are zeroed, old ones kept.
Resized(n) ==
    [k \in 1 .. ClusterCount(n) |->
        IF k <= Len(clusters) THEN clusters[k] ELSE [b \in 0 .. CAPACITY - 1 |-> 0]]

\* The part [from, to) of [start, end) that the copy loops of ramfs_read and
\* ramfs_write give to cluster k, counted from 1.
Overlap(k, start, end) ==
    [from |-> Max({start, (k - 1) * CAPACITY}), to |-> Min({end, k * CAPACITY})]

\* The clusters for which those loops call memcpy.
Touched(start, end) ==
    {k \in 1 .. end : (k - 1) * CAPACITY < end /\ start < k * CAPACITY}

\* The k-th cluster with what a write from start on copies into it.
Written(cluster, k, start, bytes) ==
    LET o == Overlap(k, start, start + Len(bytes)) IN
    [b \in 0 .. CAPACITY - 1 |->
        LET i == (k - 1) * CAPACITY + b
        IN  IF o.from <= i /\ i < o.to THEN bytes[i - start + 1] ELSE cluster[b]]

-----------------------------------------------------------------------------
\* Mutant of ReadEnd: the size is not a limit.
ReadToLength(o, n) == o + n

\* read_end_offset.
ReadEnd(o, n) == IF o + n < size THEN o + n ELSE size

\* vfs_read and ramfs_read.  At an offset beyond the size, but inside the last
\* cluster, the length of the copy is negative.
Read(h, n) ==
    LET start == offset[h]
        end   == ReadEnd(start, n)
        ks    == Touched(start, end) \cap DOMAIN clusters
        upto  == Min({end, Len(clusters) * CAPACITY})
        bad   == end # start /\ \E k \in ks : Overlap(k, start, end).to < Overlap(k, start, end).from
    IN  /\ ~wild /\ (PastEnd \/ start <= size)
        /\ wild' = bad
        /\ buffer' = IF bad \/ ks = {} THEN <<>>
                     ELSE [i \in 1 .. upto - start |->
                             clusters[(start + i - 1) \div CAPACITY + 1][(start + i - 1) % CAPACITY]]
        /\ offset' = [offset EXCEPT ![h] = @ + Len(buffer')]
        /\ UNCHANGED <<size, clusters>>

\* Mutant of MustGrow: a write that ends past the size by one does not count.
MustGrowLate(end) == end > size + 1

\* The test in front of ramfs_set_size in ramfs_write.
MustGrow(end) == end > size

\* vfs_write and ramfs_write.  A cluster beyond the list would be the list
\* head itself.
Write(h, bytes) ==
    LET end == offset[h] + Len(bytes)
        cs  == IF MustGrow(end) THEN Resized(end) ELSE clusters
        ks  == Touched(offset[h], end)
    IN  /\ ~wild /\ end <= MaxSize
        /\ IF bytes = <<>> THEN UNCHANGED <<size, clusters, wild>>
           ELSE /\ size' = IF MustGrow(end) THEN end ELSE size
                /\ clusters' = [k \in DOMAIN cs |->
                     IF k \in ks THEN Written(cs[k], k, offset[h], bytes) ELSE cs[k]]
                /\ wild' = ~(ks \subseteq DOMAIN cs)
        /\ offset' = [offset EXCEPT ![h] = end]
        /\ UNCHANGED buffer

\* vfs_ftruncate and ramfs_set_size: SYSCALL_FTRUNCATE, open with O_TRUNCATE.
SetSize(n) ==
    /\ ~wild
    /\ size' = n
    /\ clusters' = Resized(n)
    /\ UNCHANGED <<offset, buffer, wild>>

\* SYSCALL_LSEEK.
Seek(h, o) ==
    /\ ~wild
    /\ offset' = [offset EXCEPT ![h] = o]
    /\ UNCHANGED <<size, clusters, buffer, wild>>

Next ==
    \/ \E h \in Handles, n \in Lengths : Read(h, n)
    \/ \E h \in Handles, n \in Lengths : \E bytes \in [1 .. n -> Bytes] : Write(h, bytes)
    \/ \E n \in 0 .. MaxSize : SetSize(n)
    \/ \E h \in Handles, o \in 0 .. MaxSize : Seek(h, o)

Spec == Init /\ [][Next]_vars

-----------------------------------------------------------------------------
(* Properties.                                                             *)

\* There are as many clusters as the size needs: no size without memory behind
\* it, and, the first one apart, no cluster kept that the size does not reach.
ClustersMatchSize ==
    /\ size <= Len(clusters) * CAPACITY
    /\ Len(clusters) > 1 => (Len(clusters) - 1) * CAPACITY < size

\* ramfs.c:100, "There is some overlap between the cluster's offset range and
\* the buffer's offset range": no memcpy has a negative length, and none runs
\* beyond the last cluster.
NoWildCopy == ~wild

\* The bytes of the file, cut out of the clusters.
Contents ==
    [i \in 1 .. size |-> clusters[(i - 1) \div CAPACITY + 1][(i - 1) % CAPACITY]]

Abstract == INSTANCE ByteFile WITH data <- Contents

\* Reads return what was last written, across clusters, handles, growth and
\* truncation: the clusters implement an array of bytes.
ImplementsByteFile == Abstract!Spec
=============================================================================
