------------------------------ MODULE MCDisk ------------------------------
EXTENDS Disk

\* Both partitions begin inside a page, the second in the page where the first ends.
SmallStart == [p1 |-> 1, p2 |-> 5]
SmallEnd == [p1 |-> 5, p2 |-> 8]

\* The file's first cluster comes second in its partition.
SmallClusters == <<2, 0>>

SmallBytes == [t \in Tasks |-> IF t = "t1" THEN 1 ELSE 2]
===========================================================================
