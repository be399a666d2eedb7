---------------------------- MODULE RamFsProof ----------------------------
(***************************************************************************)
(* The clusters of RamFs implement the array of bytes of ByteFile, for     *)
(* every capacity, size and number of open files, as long as no program    *)
(* reads at an offset beyond the size.                                     *)
(***************************************************************************)
EXTENDS RamFs, TLAPS, SequenceTheorems

-----------------------------------------------------------------------------
(* Natural numbers.                                                        *)

\* Division with remainder: an offset is in one cluster or page, at one place.
LEMMA DivMod ==
    ASSUME NEW x \in Nat, NEW c \in Nat \ {0}
    PROVE  /\ x \div c \in Nat /\ x % c \in 0 .. c - 1
           /\ x = (x \div c) * c + (x % c)
    OBVIOUS

\* Fewer bytes lie in fewer clusters.
LEMMA FewerMultiples ==
    ASSUME NEW a \in Int, NEW b \in Int, NEW c \in Nat \ {0}, a * c < b * c
    PROVE  a < b
<1> SUFFICES ASSUME a >= b PROVE FALSE
    OBVIOUS
<1>1. (a - b) * c >= 0
    OBVIOUS
<1>2. (a - b) * c = a * c - b * c
    OBVIOUS
<1>3. a * c \in Int /\ b * c \in Int
    OBVIOUS
<1> QED
    BY <1>1, <1>2, <1>3

\* Where the k-th cluster begins and ends.
LEMMA MultipleBefore ==
    ASSUME NEW k \in Nat \ {0}, NEW c \in Nat \ {0}
    PROVE  (k - 1) * c \in Nat /\ k * c = (k - 1) * c + c /\ (k - 1) * c >= k - 1
<1>1. k - 1 \in Nat /\ (k - 1) * c \in Nat
    OBVIOUS
<1>2. k * c = (k - 1) * c + c
    OBVIOUS
<1>3. (k - 1) * c >= k - 1
  <2> DEFINE m == k - 1
  <2>1. m \in Nat
    BY <1>1
  <2> HIDE DEF m
  <2>2. m * c >= m
    BY <2>1
  <2> QED
    BY <2>2 DEF m
<1> QED
    BY <1>1, <1>2, <1>3

\* Holds whatever programs do.
SizeInv == TypeOK /\ ClustersMatchSize

\* Holds if no program reads at an offset beyond the size.
IInv == SizeInv /\ NoWildCopy

-----------------------------------------------------------------------------
(* Arithmetic of offsets.                                                  *)

\* The greater and the lesser of two.
LEMMA MaxMinOfTwo ==
    ASSUME NEW a \in Int, NEW b \in Int
    PROVE  /\ Max({a, b}) = IF a >= b THEN a ELSE b
           /\ Min({a, b}) = IF a <= b THEN a ELSE b
    BY DEF Max, Min

\* Byte x of a file is byte x % CAPACITY of a cluster, and inside the first L
\* clusters if the file's first L clusters reach beyond x.
LEMMA Place ==
    ASSUME NEW x \in Nat
    PROVE  /\ x \div CAPACITY \in Nat /\ x % CAPACITY \in 0 .. CAPACITY - 1
           /\ x = ((x \div CAPACITY + 1) - 1) * CAPACITY + (x % CAPACITY)
           /\ x < (x \div CAPACITY + 1) * CAPACITY
           /\ ((x \div CAPACITY + 1) - 1) * CAPACITY <= x
           /\ x \div CAPACITY + 1 \in 1 .. x + 1
           /\ \A L \in Nat : x < L * CAPACITY => x \div CAPACITY + 1 \in 1 .. L
<1> DEFINE q == x \div CAPACITY
           r == x % CAPACITY
<1>1. CAPACITY \in Nat \ {0}
    BY RamFsConstants
<1>2. q \in Nat /\ r \in 0 .. CAPACITY - 1 /\ x = q * CAPACITY + r
    BY <1>1, DivMod
<1> HIDE DEF q, r
<1>3. q * CAPACITY \in Int /\ (q + 1) * CAPACITY = q * CAPACITY + CAPACITY /\ q * CAPACITY >= q
    BY <1>1, <1>2
<1>4. x < (q + 1) * CAPACITY /\ q * CAPACITY <= x /\ q <= x /\ (q + 1) - 1 = q
    BY <1>1, <1>2, <1>3
<1>5. ASSUME NEW L \in Nat, x < L * CAPACITY PROVE q + 1 \in 1 .. L
  <2>1. q * CAPACITY < L * CAPACITY
    BY <1>1, <1>3, <1>4, <1>5
  <2>2. q < L
    BY <1>1, <1>2, <2>1, FewerMultiples
  <2> QED
    BY <1>2, <2>2
<1> QED
    BY <1>2, <1>4, <1>5 DEF q, r

\* ramfs_set_size leaves enough clusters, and the first apart none too many.
LEMMA CountSpec ==
    ASSUME NEW n \in Nat
    PROVE  /\ ClusterCount(n) \in Nat \ {0}
           /\ n <= ClusterCount(n) * CAPACITY
           /\ ClusterCount(n) > 1 => (ClusterCount(n) - 1) * CAPACITY < n
<1>1. CAPACITY \in Nat \ {0}
    BY RamFsConstants
<1>2. CASE n = 0
  <2>1. ClusterCount(n) = 1
    BY <1>2 DEF ClusterCount
  <2> QED
    BY <1>1, <1>2, <2>1
<1>3. CASE n # 0
  <2> DEFINE x == n + CAPACITY - 1
             q == x \div CAPACITY
             r == x % CAPACITY
  <2>1. x \in Nat
    BY <1>1
  <2>2. q \in Nat /\ r \in 0 .. CAPACITY - 1 /\ x = q * CAPACITY + r
    BY <1>1, <2>1, DivMod
  <2>3. ClusterCount(n) = q
    BY <1>3 DEF ClusterCount
  <2> HIDE DEF q, r
  <2>4. q * CAPACITY \in Int /\ (q - 1) * CAPACITY = q * CAPACITY - CAPACITY
    BY <1>1, <2>2
  <2>5. q # 0
    BY <1>1, <1>3, <2>2
  <2> QED
    BY <1>1, <2>2, <2>3, <2>4, <2>5
<1> QED
    BY <1>2, <1>3

-----------------------------------------------------------------------------
(* Bytes in clusters.                                                      *)

\* Byte x of the file that the clusters cs hold.
At(cs, x) == cs[x \div CAPACITY + 1][x % CAPACITY]

\* Every byte the clusters reach is there.
LEMMA AtType ==
    ASSUME NEW cs \in Seq(Cluster), NEW x \in Nat, x < Len(cs) * CAPACITY
    PROVE  x \div CAPACITY + 1 \in DOMAIN cs /\ At(cs, x) \in Bytes
<1> DEFINE q == x \div CAPACITY + 1
           r == x % CAPACITY
<1>1. q \in 1 .. Len(cs) /\ r \in 0 .. CAPACITY - 1
    BY Place
<1> HIDE DEF q, r
<1>2. q \in DOMAIN cs /\ cs[q] \in Cluster
    BY <1>1
<1>3. cs[q][r] \in Bytes
    BY <1>1, <1>2 DEF Cluster
<1> QED
    BY <1>2, <1>3 DEF At, q, r

\* ramfs_set_size keeps every byte the old size and the new one have in common.
LEMMA ResizedSpec ==
    ASSUME TypeOK, ClustersMatchSize, NEW n \in Nat
    PROVE  /\ Resized(n) \in Seq(Cluster) /\ Len(Resized(n)) = ClusterCount(n)
           /\ n <= Len(Resized(n)) * CAPACITY
           /\ \A x \in Nat : x < n /\ x < size => At(Resized(n), x) = At(clusters, x)
<1> DEFINE L == ClusterCount(n)
           zero == [b \in 0 .. CAPACITY - 1 |-> 0]
           r == Resized(n)
<1>1. L \in Nat \ {0} /\ n <= L * CAPACITY
    BY CountSpec
<1> HIDE DEF L
<1>2. zero \in Cluster
    BY RamFsConstants DEF Cluster
<1>3. r = [k \in 1 .. L |-> IF k <= Len(clusters) THEN clusters[k] ELSE zero]
    BY DEF Resized, L
<1> HIDE DEF zero, r
<1>4. clusters \in Seq(Cluster) /\ Len(clusters) \in Nat
    BY DEF TypeOK
<1>5. \A k \in 1 .. L : (IF k <= Len(clusters) THEN clusters[k] ELSE zero) \in Cluster
    BY <1>1, <1>2, <1>4
<1>6. r \in Seq(Cluster) /\ Len(r) = L
    BY <1>1, <1>3, <1>5
<1>7. ASSUME NEW x \in Nat, x < n, x < size PROVE At(r, x) = At(clusters, x)
  <2>1. CAPACITY \in Nat /\ size \in Nat /\ size <= Len(clusters) * CAPACITY
    BY RamFsConstants DEF TypeOK, ClustersMatchSize
  <2>2. x < L * CAPACITY /\ x < Len(clusters) * CAPACITY
    BY <1>1, <1>4, <1>7, <2>1
  <2>3. x \div CAPACITY + 1 \in 1 .. L /\ x \div CAPACITY + 1 \in 1 .. Len(clusters)
    BY <1>1, <1>4, <2>2, Place
  <2>4. r[x \div CAPACITY + 1] = clusters[x \div CAPACITY + 1]
    BY <1>3, <1>4, <2>3
  <2> QED
    BY <2>4 DEF At
<1> QED
    BY <1>1, <1>6, <1>7 DEF L, r

\* The clusters cs after the copy loop of ramfs_write.
Rewritten(cs, start, bytes) ==
    [k \in DOMAIN cs |->
        IF k \in Touched(start, start + Len(bytes)) THEN Written(cs[k], k, start, bytes)
        ELSE cs[k]]

\* The copy loop of ramfs_write puts every byte in its place, touches no other
\* byte and no cluster that is not there.
LEMMA WrittenSpec ==
    ASSUME NEW cs \in Seq(Cluster), NEW start \in Nat, NEW bytes \in Seq(Bytes),
           start + Len(bytes) <= Len(cs) * CAPACITY
    PROVE  LET r == Rewritten(cs, start, bytes) IN
           /\ Touched(start, start + Len(bytes)) \subseteq DOMAIN cs
           /\ r \in Seq(Cluster) /\ Len(r) = Len(cs)
           /\ \A x \in Nat : x < Len(cs) * CAPACITY =>
                 At(r, x) = IF start <= x /\ x < start + Len(bytes) THEN bytes[x - start + 1]
                            ELSE At(cs, x)
<1> DEFINE ks == Touched(start, start + Len(bytes))
           r  == Rewritten(cs, start, bytes)
<1>1. r = [k \in DOMAIN cs |-> IF k \in ks THEN Written(cs[k], k, start, bytes) ELSE cs[k]]
    BY DEF Rewritten
<1> DEFINE end == start + Len(bytes)
           lim == Len(cs) * CAPACITY
<1>2. CAPACITY \in Nat \ {0} /\ Len(cs) \in Nat /\ DOMAIN cs = 1 .. Len(cs)
      /\ Len(bytes) \in Nat /\ end \in Nat /\ end <= lim /\ lim \in Nat
    BY RamFsConstants
<1>3. ks = {k \in 1 .. end : (k - 1) * CAPACITY < end /\ start < k * CAPACITY}
    BY DEF Touched
<1> HIDE DEF ks, r
<1>4. ks \subseteq DOMAIN cs
  <2> SUFFICES ASSUME NEW k \in ks PROVE k \in 1 .. Len(cs)
    BY <1>2
  <2> DEFINE base == (k - 1) * CAPACITY
  <2>1. k \in 1 .. end /\ base < end
    BY <1>3
  <2>2. base \in Int /\ k \in Nat \ {0}
    BY <1>2, <2>1, MultipleBefore
  <2> HIDE DEF base, lim, end
  <2>3. base < lim
    BY <1>2, <2>1, <2>2
  <2>4. k - 1 < Len(cs)
    BY <1>2, <2>1, <2>2, <2>3, FewerMultiples DEF base, lim
  <2> QED
    BY <1>2, <2>1, <2>2, <2>4
<1>5. ASSUME NEW k \in DOMAIN cs
      PROVE  /\ r[k] \in Cluster
             /\ \A b \in 0 .. CAPACITY - 1 :
                   r[k][b] = IF start <= (k - 1) * CAPACITY + b /\ (k - 1) * CAPACITY + b < end
                             THEN bytes[((k - 1) * CAPACITY + b) - start + 1] ELSE cs[k][b]
  <2>1. k \in Nat \ {0} /\ cs[k] \in Cluster
    BY <1>2
  <2> DEFINE base == (k - 1) * CAPACITY
  <2>2. base \in Nat /\ k * CAPACITY = base + CAPACITY /\ base >= k - 1
    BY <1>2, <2>1, MultipleBefore
  <2>3. k \in ks <=> base < end /\ start < base + CAPACITY
    <3>1. k \in ks <=> k \in 1 .. end /\ base < end /\ start < k * CAPACITY
      BY <1>3
    <3> HIDE DEF base, end
    <3> QED
      BY <1>2, <2>1, <2>2, <3>1
  <2> DEFINE o == Overlap(k, start, end)
             w == Written(cs[k], k, start, bytes)
  <2>4. /\ w = [b \in 0 .. CAPACITY - 1 |-> w[b]]
        /\ \A b \in 0 .. CAPACITY - 1 :
              w[b] = IF o.from <= base + b /\ base + b < o.to THEN bytes[(base + b) - start + 1]
                     ELSE cs[k][b]
    BY DEF Written
  <2>5. o.from = Max({start, base}) /\ o.to = Min({end, k * CAPACITY})
    BY DEF Overlap
  <2> HIDE DEF base, o, w
  <2>6. o.from = IF start >= base THEN start ELSE base
    <3>1. start \in Int /\ base \in Int
      BY <2>2
    <3>2. Max({start, base}) = IF start >= base THEN start ELSE base
      BY <3>1, MaxMinOfTwo
    <3> QED
      BY <2>5, <3>2
  <2>7. o.to = IF end <= base + CAPACITY THEN end ELSE base + CAPACITY
    <3> DEFINE top == base + CAPACITY
    <3>1. end \in Int /\ top \in Int /\ k * CAPACITY = top
      BY <1>2, <2>2
    <3> HIDE DEF top, end
    <3>2. Min({end, top}) = IF end <= top THEN end ELSE top
      BY <3>1, MaxMinOfTwo
    <3>3. o.to = Min({end, top})
      BY <2>5, <3>1
    <3> QED
      BY <3>2, <3>3 DEF top
  <2>8. ASSUME NEW b \in 0 .. CAPACITY - 1
        PROVE  r[k][b] = IF start <= base + b /\ base + b < end
                         THEN bytes[(base + b) - start + 1] ELSE cs[k][b]
    <3>1. CASE k \in ks
      <4>1. r[k][b] = IF o.from <= base + b /\ base + b < o.to
                      THEN bytes[(base + b) - start + 1] ELSE cs[k][b]
        BY <1>1, <2>4, <3>1 DEF w
      <4>2. o.from <= base + b /\ base + b < o.to
              <=> start <= base + b /\ base + b < end
        BY <1>2, <2>2, <2>6, <2>7
      <4> QED
        BY <4>1, <4>2
    <3>2. CASE k \notin ks
      <4>1. r[k][b] = cs[k][b]
        BY <1>1, <3>2
      <4>2. ~(start <= base + b /\ base + b < end)
        BY <1>2, <2>2, <2>3, <3>2
      <4> QED
        BY <4>1, <4>2
    <3> QED
      BY <3>1, <3>2
  <2>9. ASSUME NEW b \in 0 .. CAPACITY - 1 PROVE r[k][b] \in Bytes
    <3>1. CASE start <= base + b /\ base + b < end
      <4>1. (base + b) - start + 1 \in 1 .. Len(bytes)
        BY <1>2, <2>2, <3>1
      <4> QED
        BY <2>8, <3>1, <4>1
    <3>2. CASE ~(start <= base + b /\ base + b < end)
      BY <2>1, <2>8, <3>2 DEF Cluster
    <3> QED
      BY <3>1, <3>2
  <2>10. r[k] \in Cluster
    <3>1. CASE k \in ks
      BY <1>1, <2>4, <2>9, <3>1 DEF Cluster, w
    <3>2. CASE k \notin ks
      BY <1>1, <2>1, <3>2
    <3> QED
      BY <3>1, <3>2
  <2> QED
    BY <2>8, <2>10 DEF base
<1>6. r \in Seq(Cluster) /\ Len(r) = Len(cs)
  <2>1. r \in [1 .. Len(cs) -> Cluster]
    BY <1>1, <1>2, <1>5
  <2> QED
    BY <1>2, <2>1
<1>7. ASSUME NEW x \in Nat, x < Len(cs) * CAPACITY
      PROVE  At(r, x) = IF start <= x /\ x < end THEN bytes[x - start + 1] ELSE At(cs, x)
  <2> DEFINE q == x \div CAPACITY + 1
             b == x % CAPACITY
  <2>1. q \in 1 .. Len(cs)
    BY <1>2, <1>7, Place
  <2>2. b \in 0 .. CAPACITY - 1 /\ x = (q - 1) * CAPACITY + b
    BY Place
  <2> HIDE DEF q, b
  <2>3. r[q][b] = IF start <= (q - 1) * CAPACITY + b /\ (q - 1) * CAPACITY + b < end
                  THEN bytes[((q - 1) * CAPACITY + b) - start + 1] ELSE cs[q][b]
    BY <1>2, <1>5, <2>1, <2>2
  <2> DEFINE y == (q - 1) * CAPACITY + b
  <2>4. r[q][b] = IF start <= y /\ y < end THEN bytes[y - start + 1] ELSE cs[q][b]
    BY <2>3
  <2>5. x = y
    BY <2>2
  <2> HIDE DEF y, end
  <2>6. r[q][b] = IF start <= x /\ x < end THEN bytes[x - start + 1] ELSE cs[q][b]
    BY <2>4, <2>5
  <2> QED
    BY <2>6 DEF At, q, b
<1> QED
    BY <1>4, <1>6, <1>7 DEF ks, r

-----------------------------------------------------------------------------
(* The contents of the file, before a step and after it.                   *)

\* A file of n bytes cut out of the clusters cs.
Cut(cs, n) == [i \in 1 .. n |-> At(cs, i - 1)]

\* Contents is such a cut, before a step and after it.
LEMMA ContentsIsCut ==
    Contents = Cut(clusters, size) /\ Contents' = Cut(clusters', size')
    BY DEF Contents, Cut, At

\* The cut is a sequence of bytes, as long as the clusters cover it.
LEMMA CutSpec ==
    ASSUME NEW cs \in Seq(Cluster), NEW n \in Nat, n <= Len(cs) * CAPACITY
    PROVE  /\ Cut(cs, n) \in Seq(Bytes) /\ Len(Cut(cs, n)) = n
           /\ \A x \in Nat : x < n => At(cs, x) \in Bytes
           /\ \A i \in 1 .. n : Cut(cs, n)[i] = At(cs, i - 1)
<1>1. Len(cs) * CAPACITY \in Nat
    BY RamFsConstants
<1>2. ASSUME NEW x \in Nat, x < n PROVE At(cs, x) \in Bytes
  <2> DEFINE lim == Len(cs) * CAPACITY
  <2>1. x < lim
    <3>1. lim \in Nat /\ n <= lim
      BY <1>1
    <3> HIDE DEF lim
    <3> QED
      BY <1>2, <3>1
  <2> QED
    BY <2>1, AtType
<1>3. Cut(cs, n) \in [1 .. n -> Bytes]
  <2>1. \A i \in 1 .. n : i - 1 \in Nat /\ i - 1 < n
    OBVIOUS
  <2> QED
    BY <1>2, <2>1 DEF Cut
<1> QED
    BY <1>2, <1>3 DEF Cut

\* What the invariant says of the contents and of sizes.
LEMMA ContentsSpec ==
    ASSUME IInv
    PROVE  /\ clusters \in Seq(Cluster) /\ size \in Nat /\ size <= MaxSize
           /\ size <= Len(clusters) * CAPACITY
           /\ Contents \in Seq(Bytes) /\ Len(Contents) = size
           /\ \A i \in 1 .. size : Contents[i] = At(clusters, i - 1)
<1>1. /\ clusters \in Seq(Cluster) /\ size \in Nat /\ size <= MaxSize
      /\ size <= Len(clusters) * CAPACITY
    BY RamFsConstants DEF IInv, SizeInv, TypeOK, ClustersMatchSize
<1> QED
    BY <1>1, CutSpec, ContentsIsCut

\* The file starts empty, with no cluster.
LEMMA InitEstablishes == Init => IInv /\ Abstract!Init
<1> SUFFICES ASSUME Init PROVE IInv /\ Abstract!Init
    OBVIOUS
<1>1. IInv
  <2>1. TypeOK /\ NoWildCopy
    <3>1. size \in 0 .. MaxSize /\ offset \in [Handles -> 0 .. MaxSize]
      BY RamFsConstants DEF Init
    <3>2. clusters \in Seq(Cluster) /\ buffer \in Seq(Bytes) /\ wild = FALSE
      BY DEF Init
    <3> QED
      BY <3>1, <3>2 DEF TypeOK, NoWildCopy
  <2>2. Len(clusters) = 0 /\ 0 * CAPACITY = 0 /\ size = 0
    BY RamFsConstants DEF Init
  <2>3. ClustersMatchSize
    BY <2>2 DEF ClustersMatchSize
  <2> QED
    BY <2>1, <2>3 DEF IInv, SizeInv
<1>2. Contents = <<>>
    BY <1>1, ContentsSpec DEF Init
<1> QED
    BY <1>1, <1>2 DEF Init, Abstract!Init

\* ramfs_set_size is a SetSize of the bytes.
LEMMA SetSizeStep ==
    ASSUME IInv, NEW n \in 0 .. MaxSize, SetSize(n)
    PROVE  IInv' /\ Abstract!SetSize(n)
<1>1. /\ size' = n /\ clusters' = Resized(n) /\ UNCHANGED <<offset, buffer, wild>>
      /\ n \in Nat
    BY RamFsConstants DEF SetSize
<1>2. /\ clusters' \in Seq(Cluster) /\ Len(clusters') = ClusterCount(n)
      /\ n <= Len(clusters') * CAPACITY
      /\ \A x \in Nat : x < n /\ x < size => At(clusters', x) = At(clusters, x)
    BY <1>1, ResizedSpec DEF IInv, SizeInv
<1>3. IInv'
  <2>1. ClusterCount(n) > 1 => (ClusterCount(n) - 1) * CAPACITY < n
    BY <1>1, CountSpec
  <2>2. ClustersMatchSize'
    BY <1>1, <1>2, <2>1 DEF ClustersMatchSize
  <2> QED
    BY <1>1, <1>2, <2>2 DEF IInv, SizeInv, TypeOK, NoWildCopy
<1>4. /\ Contents' \in Seq(Bytes) /\ Len(Contents') = n
      /\ \A i \in 1 .. n : Contents'[i] = At(clusters', i - 1)
    BY <1>1, <1>2, CutSpec, ContentsIsCut
<1>5. size \in Nat /\ Len(Contents) = size /\ \A i \in 1 .. size : Contents[i] = At(clusters, i - 1)
    BY ContentsSpec
<1>6. \A i \in 1 .. (IF n < size THEN n ELSE size) : Contents'[i] = Contents[i]
  <2> TAKE i \in 1 .. (IF n < size THEN n ELSE size)
  <2>1. i \in 1 .. n /\ i \in 1 .. size /\ i - 1 \in Nat /\ i - 1 < n /\ i - 1 < size
    BY <1>1, <1>5
  <2> QED
    BY <1>2, <1>4, <1>5, <2>1
<1> QED
    BY <1>1, <1>3, <1>4, <1>5, <1>6 DEF Abstract!SetSize, Abstract!Lesser

\* lseek moves one offset.
LEMMA SeekStep ==
    ASSUME IInv, NEW h \in Handles, NEW o \in 0 .. MaxSize, Seek(h, o)
    PROVE  IInv' /\ Abstract!Seek(h, o)
<1>1. /\ offset' = [offset EXCEPT ![h] = o] /\ UNCHANGED <<size, clusters, buffer, wild>>
    BY DEF Seek
<1>2. IInv'
    BY <1>1 DEF IInv, SizeInv, TypeOK, ClustersMatchSize, NoWildCopy
<1>3. Contents' = Contents
    BY <1>1, ContentsIsCut
<1> QED
    BY <1>1, <1>2, <1>3 DEF Abstract!Seek

\* ramfs_write, growth included, is a Write of the bytes.
LEMMA WriteStep ==
    ASSUME IInv, NEW h \in Handles, NEW n \in Lengths, NEW bytes \in [1 .. n -> Bytes],
           Write(h, bytes)
    PROVE  IInv' /\ Abstract!Write(h, bytes)
<1> DEFINE start == offset[h]
           end   == start + Len(bytes)
           ks    == Touched(start, end)
<1>1. /\ n \in Nat /\ MaxSize \in Nat /\ bytes \in Seq(Bytes) /\ Len(bytes) = n
      /\ start \in Nat /\ offset \in [Handles -> 0 .. MaxSize]
    BY RamFsConstants DEF IInv, SizeInv, TypeOK
<1>2. /\ end \in Nat /\ end <= MaxSize /\ offset' = [offset EXCEPT ![h] = end]
      /\ buffer' = buffer
    BY <1>1 DEF Write
<1>3. /\ clusters \in Seq(Cluster) /\ size \in Nat /\ size <= MaxSize
      /\ size <= Len(clusters) * CAPACITY
      /\ Contents \in Seq(Bytes) /\ Len(Contents) = size
      /\ \A i \in 1 .. size : Contents[i] = At(clusters, i - 1)
    BY ContentsSpec
<1>4. offset' \in [Handles -> 0 .. MaxSize] /\ offset' = [offset EXCEPT ![h] = @ + Len(bytes)]
    BY <1>1, <1>2
<1>5. CASE bytes = <<>>
  <2>1. UNCHANGED <<size, clusters, wild>> /\ Len(bytes) = 0
    BY <1>5 DEF Write
  <2>2. IInv'
    BY <1>2, <1>4, <2>1 DEF IInv, SizeInv, TypeOK, ClustersMatchSize, NoWildCopy
  <2>3. Contents' = Contents
    BY <2>1, ContentsIsCut
  <2> QED
    BY <1>1, <1>2, <1>3, <1>4, <1>5, <2>1, <2>2, <2>3 DEF Abstract!Write
<1>6. CASE bytes # <<>>
  <2> DEFINE cs  == IF end > size THEN Resized(end) ELSE clusters
             len == IF end > size THEN end ELSE size
  <2>1. /\ size' = len
        /\ clusters' = [k \in DOMAIN cs |->
              IF k \in ks THEN Written(cs[k], k, start, bytes) ELSE cs[k]]
        /\ wild' = ~(ks \subseteq DOMAIN cs)
    BY <1>6 DEF Write, MustGrow
  <2>2. /\ cs \in Seq(Cluster) /\ len \in Nat /\ len <= MaxSize /\ end <= len /\ size <= len
        /\ len <= Len(cs) * CAPACITY
        /\ Len(cs) > 1 => (Len(cs) - 1) * CAPACITY < len
        /\ \A x \in Nat : x < size => At(cs, x) = At(clusters, x)
    <3>1. CASE end > size
      <4>1. /\ Resized(end) \in Seq(Cluster) /\ Len(Resized(end)) = ClusterCount(end)
            /\ end <= Len(Resized(end)) * CAPACITY
            /\ \A x \in Nat : x < end /\ x < size => At(Resized(end), x) = At(clusters, x)
        BY <1>2, ResizedSpec DEF IInv, SizeInv
      <4>2. ClusterCount(end) > 1 => (ClusterCount(end) - 1) * CAPACITY < end
        BY <1>2, CountSpec
      <4>3. \A x \in Nat : x < size => x < end
        BY <1>2, <1>3, <3>1
      <4>4. cs = Resized(end) /\ len = end
        BY <3>1
      <4> HIDE DEF cs, len, end
      <4> QED
        BY <1>2, <1>3, <3>1, <4>1, <4>2, <4>3, <4>4
    <3>2. CASE ~(end > size)
      <4>1. cs = clusters /\ len = size
        BY <3>2
      <4>2. Len(clusters) > 1 => (Len(clusters) - 1) * CAPACITY < size
        BY DEF IInv, SizeInv, ClustersMatchSize
      <4>3. end <= size
        BY <1>2, <1>3, <3>2
      <4> HIDE DEF cs, len, end
      <4> QED
        BY <1>3, <4>1, <4>2, <4>3
    <3> QED
      BY <3>1, <3>2
  <2> HIDE DEF cs, len
  <2>3. end <= Len(cs) * CAPACITY
    <3> DEFINE lim == Len(cs) * CAPACITY
    <3>1. lim \in Nat /\ len <= lim
      BY <2>2, RamFsConstants
    <3> HIDE DEF lim, end
    <3>2. end <= lim
      BY <1>2, <2>2, <3>1
    <3> QED
      BY <3>2 DEF lim
  <2>4. /\ ks \subseteq DOMAIN cs
        /\ clusters' \in Seq(Cluster) /\ Len(clusters') = Len(cs)
        /\ \A x \in Nat : x < Len(cs) * CAPACITY =>
              At(clusters', x) = IF start <= x /\ x < end THEN bytes[x - start + 1] ELSE At(cs, x)
    <3>1. clusters' = Rewritten(cs, start, bytes)
      BY <2>1 DEF Rewritten
    <3>2. cs \in Seq(Cluster) /\ start \in Nat /\ bytes \in Seq(Bytes)
          /\ start + Len(bytes) <= Len(cs) * CAPACITY
      BY <1>1, <1>2, <2>2, <2>3
    <3> HIDE DEF start
    <3>3. LET r == Rewritten(cs, start, bytes) IN
          /\ Touched(start, start + Len(bytes)) \subseteq DOMAIN cs
          /\ r \in Seq(Cluster) /\ Len(r) = Len(cs)
          /\ \A x \in Nat : x < Len(cs) * CAPACITY =>
                At(r, x) = IF start <= x /\ x < start + Len(bytes) THEN bytes[x - start + 1]
                           ELSE At(cs, x)
      BY ZenonT(60), <3>2, WrittenSpec
    <3> QED
      BY ZenonT(60), <3>1, <3>3
  <2> HIDE DEF ks
  <2>5. IInv'
    <3>1. TypeOK' /\ NoWildCopy'
      BY <1>2, <1>4, <2>1, <2>2, <2>4 DEF IInv, SizeInv, TypeOK, NoWildCopy
    <3>2. ClustersMatchSize'
      BY <2>1, <2>2, <2>4 DEF ClustersMatchSize
    <3> QED
      BY <3>1, <3>2 DEF IInv, SizeInv
  <2>6. /\ Contents' \in Seq(Bytes) /\ Len(Contents') = len
        /\ \A i \in 1 .. len : Contents'[i] = At(clusters', i - 1)
    BY <2>1, <2>2, <2>4, CutSpec, ContentsIsCut
  <2>7. ASSUME NEW i \in 1 .. len
        PROVE  Contents'[i] = IF start < i /\ i <= end THEN bytes[i - start] ELSE At(cs, i - 1)
    <3> DEFINE lim == Len(cs) * CAPACITY
               x == i - 1
    <3>1. lim \in Nat /\ len <= lim /\ x \in Nat /\ x < len
      BY <2>2, RamFsConstants
    <3>2. Contents'[i] = At(clusters', x)
      BY <2>6
    <3>3. x < lim => At(clusters', x) =
             IF start <= x /\ x < end THEN bytes[x - start + 1] ELSE At(cs, x)
      BY <2>4, <3>1
    <3>4. (start <= x <=> start < i) /\ (x < end <=> i <= end) /\ x - start + 1 = i - start
      BY <1>1, <1>2, <2>2
    <3> HIDE DEF lim
    <3>5. x < lim
      BY <2>2, <3>1
    <3> HIDE DEF x, end
    <3>6. Contents'[i] = IF start < i /\ i <= end THEN bytes[i - start] ELSE At(cs, x)
      BY <3>2, <3>3, <3>4, <3>5
    <3> QED
      BY <3>6 DEF x
  <2>8. \A i \in 1 .. Len(bytes) : Contents'[start + i] = bytes[i]
    <3> TAKE i \in 1 .. Len(bytes)
    <3> DEFINE j == start + i
    <3>1. j \in 1 .. len /\ start < j /\ j <= end /\ j - start = i
      BY <1>1, <1>2, <2>2
    <3> HIDE DEF j, end
    <3>2. Contents'[j] = bytes[i]
      BY <2>7, <3>1
    <3> QED
      BY <3>2 DEF j
  <2>9. \A i \in 1 .. size : i \notin start + 1 .. end => Contents'[i] = Contents[i]
    <3> TAKE i \in 1 .. size
    <3> HAVE i \notin start + 1 .. end
    <3>1. i \in 1 .. len /\ ~(start < i /\ i <= end) /\ i - 1 \in Nat /\ i - 1 < size
      BY <1>1, <1>2, <1>3, <2>2
    <3>2. Contents'[i] = At(cs, i - 1)
      BY <2>7, <3>1
    <3> QED
      BY <1>3, <2>2, <3>1, <3>2
  <2>10. len = IF size > end THEN size ELSE end
    BY <1>2, <1>3 DEF len
  <2> QED
    BY <1>2, <1>3, <1>4, <1>6, <2>5, <2>6, <2>8, <2>9, <2>10 DEF Abstract!Write
<1> QED
    BY <1>5, <1>6

\* ramfs_read inside the file is a Read of the bytes.
LEMMA ReadStep ==
    ASSUME IInv, NEW h \in Handles, NEW n \in Lengths, Read(h, n), offset[h] <= size
    PROVE  IInv' /\ Abstract!Read(h, n)
<1> DEFINE start == offset[h]
           end   == ReadEnd(start, n)
           ks    == Touched(start, end) \cap DOMAIN clusters
           lim   == Len(clusters) * CAPACITY
           bad   == end # start /\ \E k \in ks : Overlap(k, start, end).to < Overlap(k, start, end).from
<1>1. /\ clusters \in Seq(Cluster) /\ size \in Nat /\ size <= MaxSize /\ size <= lim
      /\ Contents \in Seq(Bytes) /\ Len(Contents) = size
      /\ \A i \in 1 .. size : Contents[i] = At(clusters, i - 1)
    BY ContentsSpec
<1>2. /\ n \in Nat /\ MaxSize \in Nat /\ CAPACITY \in Nat \ {0} /\ lim \in Nat
      /\ start \in Nat /\ offset \in [Handles -> 0 .. MaxSize]
      /\ DOMAIN clusters = 1 .. Len(clusters) /\ Len(clusters) \in Nat
    BY <1>1, RamFsConstants DEF IInv, SizeInv, TypeOK
<1>3. /\ wild' = bad /\ UNCHANGED <<size, clusters>>
      /\ buffer' = IF bad \/ ks = {} THEN <<>>
                   ELSE [i \in 1 .. Min({end, lim}) - start |->
                           clusters[(start + i - 1) \div CAPACITY + 1][(start + i - 1) % CAPACITY]]
      /\ offset' = [offset EXCEPT ![h] = @ + Len(buffer')]
    BY DEF Read
<1>4. end = (IF start + n < size THEN start + n ELSE size)
    BY DEF ReadEnd
<1>5. end \in Nat /\ start <= end /\ end <= size
    BY <1>1, <1>2, <1>3, <1>4
<1> HIDE DEF end, lim
<1>6. Min({end, lim}) = end
  <2>1. end \in Int /\ lim \in Int /\ end <= lim
    BY <1>1, <1>2, <1>5
  <2> QED
    BY <2>1, MaxMinOfTwo
<1>7. ~bad
  <2> SUFFICES ASSUME end # start, NEW k \in ks,
                      Overlap(k, start, end).to < Overlap(k, start, end).from
               PROVE  FALSE
    OBVIOUS
  <2> DEFINE base == (k - 1) * CAPACITY
             top  == k * CAPACITY
  <2>1. k \in 1 .. end /\ base < end /\ start < top
    BY DEF Touched
  <2>2. base \in Nat /\ top = base + CAPACITY
    BY <1>2, <1>5, <2>1, MultipleBefore
  <2>3. Overlap(k, start, end).from = Max({start, base}) /\ Overlap(k, start, end).to = Min({end, top})
    BY DEF Overlap
  <2> HIDE DEF base, top
  <2>4. Max({start, base}) = IF start >= base THEN start ELSE base
    BY <1>2, <2>2, MaxMinOfTwo
  <2>5. Min({end, top}) = IF end <= top THEN end ELSE top
    <3>1. end \in Int /\ top \in Int
      BY <1>2, <1>5, <2>2
    <3> QED
      BY <3>1, MaxMinOfTwo
  <2> QED
    BY <1>2, <1>5, <2>1, <2>2, <2>3, <2>4, <2>5
<1>8. ks = {} => end = start
  <2> SUFFICES ASSUME end # start PROVE start \div CAPACITY + 1 \in ks
    OBVIOUS
  <2> DEFINE k == start \div CAPACITY + 1
  <2>1. start < k * CAPACITY /\ (k - 1) * CAPACITY <= start /\ k \in 1 .. start + 1
    BY <1>2, Place
  <2>2. start < lim
    BY <1>1, <1>2, <1>5
  <2>3. k \in 1 .. Len(clusters)
    BY <1>2, <2>2, Place DEF lim
  <2> HIDE DEF k
  <2>4. (k - 1) * CAPACITY \in Int
    BY <1>2, <2>3
  <2>5. (k - 1) * CAPACITY < end
    <3> DEFINE base == (k - 1) * CAPACITY
    <3>1. base \in Int /\ base <= start
      BY <2>1, <2>4
    <3> HIDE DEF base
    <3>2. base < end
      BY <1>2, <1>5, <3>1
    <3> QED
      BY <3>2 DEF base
  <2>6. k \in 1 .. end
    BY <1>2, <1>5, <2>1
  <2> QED
    BY <1>2, <2>1, <2>3, <2>5, <2>6 DEF Touched, k
<1> DEFINE part == SubSeq(Contents, start + 1, end)
<1> HIDE DEF bad, ks
<1>9. /\ part \in Seq(Bytes) /\ Len(part) = end - start
      /\ \A i \in 1 .. end - start : part[i] = Contents[start + i]
  <2>1. \A i \in start + 1 .. end : Contents[i] \in Bytes
    BY <1>1, <1>2, <1>5
  <2>2. /\ part \in Seq(Bytes)
        /\ Len(part) = IF start + 1 <= end THEN end - (start + 1) + 1 ELSE 0
        /\ \A i \in 1 .. end - (start + 1) + 1 : part[i] = Contents[(start + 1) + i - 1]
    <3>1. start + 1 \in Int /\ end \in Int
      BY <1>2, <1>5
    <3> QED
      BY <2>1, <3>1, SubSeqProperties
  <2> HIDE DEF part
  <2>3. /\ end - (start + 1) + 1 = end - start
        /\ \A i \in 1 .. end - start : (start + 1) + i - 1 = start + i
    BY <1>2, <1>5
  <2> QED
    BY <1>2, <1>5, <2>2, <2>3
<1> HIDE DEF part
<1>10. buffer' = part
  <2>1. CASE ks = {}
    BY <1>3, <1>5, <1>8, <1>9, <2>1
  <2>2. CASE ks # {}
    <3> DEFINE m == end - start
    <3>1. m \in Nat /\ buffer' = [i \in 1 .. m |-> At(clusters, start + i - 1)]
      <4>1. buffer' = [i \in 1 .. Min({end, lim}) - start |-> At(clusters, start + i - 1)]
        BY <1>3, <1>7, <2>2 DEF At
      <4> QED
        BY <1>2, <1>5, <1>6, <4>1
    <3>2. ASSUME NEW i \in 1 .. m PROVE At(clusters, start + i - 1) = part[i]
      <4>1. start + i \in 1 .. size /\ (start + i) - 1 = start + i - 1
        BY <1>1, <1>2, <1>5
      <4> QED
        BY <1>1, <1>9, <4>1
    <3>3. part = [i \in 1 .. m |-> part[i]]
      BY <1>9, <3>1
    <3> QED
      BY <3>1, <3>2, <3>3
  <2> QED
    BY <2>1, <2>2
<1>11. IInv'
  <2>1. buffer' \in Seq(Bytes) /\ start + Len(buffer') = end
    BY <1>2, <1>5, <1>9, <1>10
  <2>2. offset' \in [Handles -> 0 .. MaxSize]
    <3>1. offset' = [offset EXCEPT ![h] = end]
      BY <1>3, <2>1
    <3> QED
      BY <1>1, <1>2, <1>5, <3>1
  <2>3. wild' = FALSE
    BY <1>3, <1>7, Zenon DEF bad
  <2> QED
    BY <1>3, <2>1, <2>2, <2>3 DEF IInv, SizeInv, TypeOK, ClustersMatchSize, NoWildCopy
<1>12. Contents' = Contents
    BY <1>3, ContentsIsCut
<1> QED
    BY <1>1, <1>3, <1>4, <1>10, <1>11, <1>12 DEF Abstract!Read, Abstract!Lesser, part

\* A read beyond the end leaves the file alone and, if it comes back, has read
\* nothing.
LEMMA ReadPastEndStep ==
    ASSUME IInv, NEW h \in Handles, NEW n \in Lengths, Read(h, n), offset[h] > size
    PROVE  SizeInv'
<1> DEFINE start == offset[h]
           end   == ReadEnd(start, n)
           lim   == Len(clusters) * CAPACITY
<1>1. size \in Nat /\ size <= lim
    BY ContentsSpec
<1>2. n \in Nat /\ lim \in Nat /\ start \in Nat /\ offset \in [Handles -> 0 .. MaxSize]
    BY RamFsConstants, ContentsSpec DEF IInv, SizeInv, TypeOK
<1>3. end = size
    BY <1>1, <1>2 DEF ReadEnd
<1>4. /\ wild' \in BOOLEAN /\ UNCHANGED <<size, clusters>>
      /\ \/ buffer' = <<>>
         \/ buffer' = [i \in 1 .. Min({end, lim}) - start |->
                         clusters[(start + i - 1) \div CAPACITY + 1][(start + i - 1) % CAPACITY]]
      /\ offset' = [offset EXCEPT ![h] = @ + Len(buffer')]
    BY DEF Read
<1> HIDE DEF end, lim
<1>5. Min({end, lim}) = size
  <2>1. end \in Int /\ lim \in Int /\ end <= lim
    BY <1>1, <1>2, <1>3
  <2> QED
    BY <1>3, <2>1, MaxMinOfTwo
<1>6. 1 .. size - start = {}
    BY <1>1, <1>2
<1>7. buffer' = <<>>
  <2> DEFINE f == [i \in 1 .. size - start |->
                     clusters[(start + i - 1) \div CAPACITY + 1][(start + i - 1) % CAPACITY]]
  <2>1. f \in [1 .. 0 -> Bytes]
    BY <1>6
  <2> HIDE DEF f
  <2>2. f \in Seq(Bytes) /\ Len(f) = 0
    BY <2>1
  <2>3. f = <<>>
    BY <2>2, EmptySeq
  <2> QED
    BY <1>4, <1>5, <2>3 DEF f
<1>8. offset' = offset
    BY <1>2, <1>4, <1>7
<1> QED
    BY <1>4, <1>7, <1>8 DEF IInv, SizeInv, TypeOK, ClustersMatchSize

-----------------------------------------------------------------------------
\* Every step preserves the invariant, and is a step of the bytes.
LEMMA StepRefines ==
    ASSUME IInv, ~PastEnd, [Next]_vars
    PROVE  IInv' /\ [Abstract!Next]_Abstract!vars
<1>1. ASSUME NEW h \in Handles, NEW n \in Lengths, Read(h, n)
      PROVE  IInv' /\ Abstract!Next
    BY <1>1, ReadStep DEF Read, Abstract!Next
<1>2. ASSUME NEW h \in Handles, NEW n \in Lengths, NEW bytes \in [1 .. n -> Bytes],
             Write(h, bytes)
      PROVE  IInv' /\ Abstract!Next
    BY <1>2, WriteStep DEF Abstract!Next
<1>3. ASSUME NEW n \in 0 .. MaxSize, SetSize(n)
      PROVE  IInv' /\ Abstract!Next
    BY <1>3, SetSizeStep DEF Abstract!Next
<1>4. ASSUME NEW h \in Handles, NEW o \in 0 .. MaxSize, Seek(h, o)
      PROVE  IInv' /\ Abstract!Next
    BY <1>4, SeekStep DEF Abstract!Next
<1>5. CASE UNCHANGED vars
  <2>1. IInv'
    BY <1>5 DEF vars, IInv, SizeInv, TypeOK, ClustersMatchSize, NoWildCopy
  <2>2. Contents' = Contents
    BY <1>5, ContentsIsCut DEF vars
  <2> QED
    BY <1>5, <2>1, <2>2 DEF vars, Abstract!vars
<1> QED
    BY <1>1, <1>2, <1>3, <1>4, <1>5 DEF Next

\* The invariant holds in every reachable state, if no program reads at an
\* offset beyond the size.
THEOREM Invariance == ~PastEnd => (Spec => []IInv)
<1> SUFFICES ASSUME ~PastEnd PROVE Spec => []IInv
    OBVIOUS
<1>1. IInv /\ [Next]_vars => IInv'
    BY StepRefines
<1>2. Init => IInv
    BY InitEstablishes
<1> QED
    BY <1>1, <1>2, PTL DEF Spec

\* ramfs_set_size and the writes that call it always leave as many clusters as
\* the size needs, wherever programs read.
THEOREM ClustersAlwaysMatch == Spec => []ClustersMatchSize
<1>1. SizeInv /\ [Next]_vars => SizeInv'
  <2> SUFFICES ASSUME SizeInv, [Next]_vars PROVE SizeInv'
    OBVIOUS
  <2>1. CASE UNCHANGED vars
    BY <2>1 DEF vars, SizeInv, TypeOK, ClustersMatchSize
  <2>2. CASE Next
    <3>1. IInv
      BY <2>2 DEF Next, Read, Write, SetSize, Seek, IInv, NoWildCopy
    <3>2. ASSUME NEW h \in Handles, NEW n \in Lengths, Read(h, n) PROVE SizeInv'
      <4>1. size \in Int /\ offset[h] \in Int
        BY RamFsConstants DEF SizeInv, TypeOK
      <4> QED
        BY <3>1, <3>2, <4>1, ReadStep, ReadPastEndStep DEF IInv
    <3>3. ASSUME NEW h \in Handles, NEW n \in Lengths, NEW bytes \in [1 .. n -> Bytes],
                 Write(h, bytes)
          PROVE  SizeInv'
      BY <3>1, <3>3, WriteStep DEF IInv
    <3> QED
      BY <2>2, <3>1, <3>2, <3>3, SetSizeStep, SeekStep DEF Next, IInv
  <2> QED
    BY <2>1, <2>2
<1>2. Init => SizeInv
    BY InitEstablishes DEF IInv
<1>3. SizeInv => ClustersMatchSize
    BY DEF SizeInv
<1> QED
    BY <1>1, <1>2, <1>3, PTL DEF Spec

\* ramfs.c:100: the copy loops of ramfs_read and ramfs_write stay inside the
\* clusters and the buffer, for any capacity and any mix of handles.
THEOREM CopiesStayInside == ~PastEnd => (Spec => []NoWildCopy)
<1>1. IInv => NoWildCopy
    BY DEF IInv, SizeInv
<1> QED
    BY <1>1, Invariance, PTL

\* A ramfs file is an array of bytes: every read, write, truncation and seek on
\* the clusters is one on the array.
THEOREM RefinesByteFile == ~PastEnd => (Spec => ImplementsByteFile)
<1> SUFFICES ASSUME ~PastEnd PROVE Spec => ImplementsByteFile
    OBVIOUS
<1>1. Init => Abstract!Init
    BY InitEstablishes
<1>2. IInv /\ [Next]_vars => [Abstract!Next]_Abstract!vars
    BY StepRefines
<1>3. Spec => []IInv
    BY Invariance
<1> QED
    BY <1>1, <1>2, <1>3, PTL DEF Spec, ImplementsByteFile, Abstract!Spec
=============================================================================
