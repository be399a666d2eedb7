----------------------------- MODULE DiskProof -----------------------------
(***************************************************************************)
(* The page transfers of Disk implement Transfers, for every size of page  *)
(* and disk, every layout of partitions and clusters and any number of     *)
(* tasks, when callers keep to what the drivers handle.                    *)
(***************************************************************************)
EXTENDS Disk, TLAPS, WellFoundedInduction, SequenceTheorems

-----------------------------------------------------------------------------
(* Natural numbers.                                                        *)

\* A set of natural numbers that is not empty has a least element: what the
\* searches for the first free id and the first matching entry rely on.
LEMMA LeastNatural ==
    ASSUME NEW T \in SUBSET Nat, T # {}
    PROVE  \E x \in T : \A y \in T : x <= y
<1>1. \E x \in T : \A y \in T : <<y, x>> \notin OpToRel(<, Nat)
    BY NatLessThanWellFounded, WFMin
<1>2. \A x, y \in Nat : y < x => <<y, x>> \in OpToRel(<, Nat)
    BY DEF OpToRel
<1>3. PICK R : /\ \E x \in T : \A y \in T : <<y, x>> \notin R
               /\ \A x, y \in Nat : y < x => <<y, x>> \in R
    BY <1>1, <1>2, Zenon
<1>4. PICK x \in T : \A y \in T : <<y, x>> \notin R
    BY <1>3
<1>5. ASSUME NEW y \in T PROVE x <= y
  <2>1. x \in Nat /\ y \in Nat /\ ~(y < x)
    BY <1>3, <1>4
  <2> QED
    BY <2>1
<1> QED
    BY <1>5

\* A remainder changes nothing below the modulus: a counter that does not reach
\* its width just counts.
LEMMA SmallRemainder ==
    ASSUME NEW m \in Nat, NEW x \in Nat, x < m
    PROVE  x % m = x
    OBVIOUS

\* Division with remainder: an offset is in one cluster or page, at one place.
LEMMA DivMod ==
    ASSUME NEW x \in Nat, NEW c \in Nat \ {0}
    PROVE  /\ x \div c \in Nat /\ x % c \in 0 .. c - 1
           /\ x = (x \div c) * c + (x % c)
    OBVIOUS

\* Fewer bytes lie in fewer clusters.
LEMMA FewerMultiples ==
    ASSUME NEW a \in Int, NEW b \in Int, NEW c \in Nat \ {0}, a * c < b * c
    PROVE  a < b
<1> SUFFICES ASSUME a >= b PROVE FALSE
    OBVIOUS
<1>1. (a - b) * c >= 0
    OBVIOUS
<1>2. (a - b) * c = a * c - b * c
    OBVIOUS
<1>3. a * c \in Int /\ b * c \in Int
    OBVIOUS
<1> QED
    BY <1>1, <1>2, <1>3

\* Where the k-th cluster begins and ends.
LEMMA MultipleBefore ==
    ASSUME NEW k \in Nat \ {0}, NEW c \in Nat \ {0}
    PROVE  (k - 1) * c \in Nat /\ k * c = (k - 1) * c + c /\ (k - 1) * c >= k - 1
<1>1. k - 1 \in Nat /\ (k - 1) * c \in Nat
    OBVIOUS
<1>2. k * c = (k - 1) * c + c
    OBVIOUS
<1>3. (k - 1) * c >= k - 1
  <2> DEFINE m == k - 1
  <2>1. m \in Nat
    BY <1>1
  <2> HIDE DEF m
  <2>2. m * c >= m
    BY <2>1
  <2> QED
    BY <2>2 DEF m
<1> QED
    BY <1>1, <1>2, <1>3

\* The quotient and the remainder are unique.
LEMMA DivUnique ==
    ASSUME NEW c \in Nat \ {0}, NEW q \in Nat, NEW r \in 0 .. c - 1, NEW x, x = q * c + r
    PROVE  x \in Nat /\ x \div c = q /\ x % c = r
<1> DEFINE Q == x \div c
           R == x % c
<1>1. x \in Nat /\ q * c \in Nat
    OBVIOUS
<1>2. Q \in Nat /\ R \in 0 .. c - 1 /\ x = Q * c + R
    BY <1>1, DivMod
<1> HIDE DEF Q, R
<1>3. Q * c \in Nat /\ (Q + 1) * c = Q * c + c /\ (q + 1) * c = q * c + c
    BY <1>2
<1>4. Q * c < (q + 1) * c /\ q * c < (Q + 1) * c
    BY <1>1, <1>2, <1>3
<1>5. Q < q + 1 /\ q < Q + 1
    BY <1>2, <1>4, FewerMultiples
<1>6. Q = q
    BY <1>2, <1>5
<1> QED
    BY <1>1, <1>2, <1>6 DEF Q, R

\* The addresses of a page are those with its number.
LEMMA PageOf ==
    ASSUME NEW c \in Nat \ {0}, NEW a \in Nat, NEW x \in Nat
    PROVE  /\ a - (a % c) \in Nat
           /\ x \in a - (a % c) .. (a - (a % c)) + c - 1 <=> x \div c = a \div c
<1> DEFINE q == a \div c
           b == q * c
           r == a % c
<1>1. q \in Nat /\ r \in 0 .. c - 1 /\ a = b + r
    BY DivMod
<1>2. b \in Nat
    BY <1>1
<1> HIDE DEF q, r
<1>3. a - r = b
    BY <1>1, <1>2
<1>4. ASSUME x \in b .. b + c - 1 PROVE x \div c = q
  <2>1. x - b \in 0 .. c - 1 /\ x = b + (x - b)
    BY <1>2, <1>4
  <2> QED
    BY <1>1, <2>1, DivUnique
<1>5. ASSUME x \div c = q PROVE x \in b .. b + c - 1
  <2>1. x % c \in 0 .. c - 1 /\ x = b + (x % c)
    BY <1>5, DivMod
  <2> HIDE DEF b
  <2> QED
    BY <1>2, <2>1
<1>6. x \in b .. b + c - 1 <=> x \div c = q
    BY <1>4, <1>5
<1> HIDE DEF b
<1> QED
    BY <1>2, <1>3, <1>6 DEF q, r

Pages == [0 .. PAGE - 1 -> Nat]

Calls ==
    [op : {"read", "write"}, file : FileNames, offset : Nat, length : Nat, data : Seq(Nat), ready : BOOLEAN]

Locals ==
    [phase : {"idle", "readpage", "writepage", "return"}, done : Nat, got : Seq(Nat), k : Nat, at : Nat,
     left : Nat, asked : Nat, temp : Pages \cup {<<>>}, dead : BOOLEAN]

OpenFiles == [file : FileNames, offset : Nat] \cup {NoFile}

TypeOK ==
    /\ disk \in [0 .. DiskSize - 1 -> Nat]
    /\ lba_count \in {0, DiskSize}
    /\ filp \in [Tasks -> OpenFiles]
    /\ call \in [Tasks -> Calls \cup {NoCall}]
    /\ io \in [Tasks -> Locals]

Moving(i) == i.phase \in {"readpage", "writepage"}

\* What a call c with the locals i has yet to do lies inside its buffer and
\* inside the disk, and the task still has the file open.
Inside(c, i, f) ==
    /\ c = NoCall => i = NoIo
    /\ c # NoCall => /\ i.phase # "idle" /\ f.file = c.file
                     /\ Len(c.data) = c.length /\ i.done + i.left <= c.length
    /\ Moving(i) => i.left > 0 /\ i.at + i.left <= DiskSize
    /\ i.phase = "writepage" => i.temp \in Pages /\ c.op = "write"

\* A partition or a file can be open only when the queue is there.
Queued(f, stage) == f.file \notin {"disk", "none"} => stage = "partitions"

TypeInv == TypeOK /\ \A t \in Tasks : Inside(call[t], io[t], filp[t]) /\ Queued(filp[t], probe)

-----------------------------------------------------------------------------
(* Segments.                                                               *)

\* nvme_read and nvme_write stay inside the disk.
LEMMA ClampedInside ==
    ASSUME TypeOK, NEW at \in Nat, NEW n \in Nat
    PROVE  /\ Clamped(at, n).at = at /\ Clamped(at, n).n \in 0 .. n
           /\ Clamped(at, n).n > 0 => at + Clamped(at, n).n <= DiskSize
           /\ lba_count = DiskSize /\ at + n <= DiskSize => Clamped(at, n).n = n
<1>1. DiskSize \in Nat /\ lba_count \in {0, DiskSize}
    BY DiskAssumption DEF TypeOK
<1> QED
    BY <1>1 DEF Clamped, Minimum

\* The same for a partition; what is inside it is not cut.
LEMMA PartInside ==
    ASSUME TypeOK, NEW p \in Parts, NEW offset \in Nat, NEW n \in Nat
    PROVE  /\ PartStart[p] \in Nat /\ PartEnd[p] \in Nat /\ PartStart[p] < PartEnd[p] /\ PartEnd[p] <= DiskSize
           /\ nvmepart(p, offset, n).at = offset + PartStart[p] /\ nvmepart(p, offset, n).n \in 0 .. n
           /\ nvmepart(p, offset, n).n > 0 => offset + PartStart[p] + nvmepart(p, offset, n).n <= DiskSize
           /\ lba_count = DiskSize /\ offset <= PartEnd[p] - PartStart[p] =>
                nvmepart(p, offset, n).n = Minimum(n, PartEnd[p] - PartStart[p] - offset)
<1> DEFINE at == offset + PartStart[p]
           rest == (PartEnd[p] - at) % UINT64
           m == Minimum(n, rest)
<1>1. /\ DiskSize \in Nat /\ UINT64 \in Nat /\ DiskSize < UINT64
      /\ PartStart[p] \in Nat /\ PartEnd[p] \in Nat /\ PartStart[p] < PartEnd[p] /\ PartEnd[p] <= DiskSize
    BY DiskAssumption DEF Parts
<1>2. at \in Nat /\ rest \in Nat /\ m \in 0 .. n
    BY <1>1 DEF Minimum
<1>3. nvmepart(p, offset, n) = Clamped(at, m)
    BY DEF nvmepart
<1>4. at <= PartEnd[p] => rest = PartEnd[p] - at
    BY <1>1, <1>2
<1>5. at <= PartEnd[p] => m = Minimum(n, PartEnd[p] - at) /\ m <= PartEnd[p] - at
    BY <1>1, <1>2, <1>4 DEF Minimum
<1> HIDE DEF m, rest
<1>6. /\ Clamped(at, m).at = at /\ Clamped(at, m).n \in 0 .. m
      /\ Clamped(at, m).n > 0 => at + Clamped(at, m).n <= DiskSize
      /\ lba_count = DiskSize /\ at + m <= DiskSize => Clamped(at, m).n = m
    BY <1>2, ClampedInside
<1>7. PartEnd[p] - PartStart[p] - offset = PartEnd[p] - at
    BY <1>1, <1>2
<1> QED
    BY <1>1, <1>2, <1>3, <1>5, <1>6, <1>7

\* The least of what is left of the buffer, the cluster and the file.
Bounded(n, rest, remaining) == Minimum(Minimum(n, rest), remaining)

\* Where the offset is in cluster j, and how much is moved there.
PageOffset(j, offset) == (offset - (j - 1) * PAGE) % PAGE

BytesIn(j, offset, n) == Bounded(n, PAGE - PageOffset(j, offset), (file_length - offset) % UINT64)

CanFollow(k, offset, j) == j > k /\ offset >= (j - 1) * PAGE

\* There is no further segment.
Ends(k, offset, n) ==
    /\ exfat_segment(k, offset, n) = [k |-> k, at |-> 0, n |-> 0]
    /\ \/ \A j \in DOMAIN Clusters : ~ CanFollow(k, offset, j)
       \/ \E rest \in Nat \ {0} : Bounded(n, rest, (file_length - offset) % UINT64) = 0

\* The next segment is in cluster j.
GoesOn(k, offset, n, j) ==
    LET s == nvmepart(ExfatPart, Clusters[j] + PageOffset(j, offset), BytesIn(j, offset, n))
    IN /\ CanFollow(k, offset, j) /\ \A i \in DOMAIN Clusters : CanFollow(k, offset, i) => j <= i
       /\ BytesIn(j, offset, n) > 0
       /\ exfat_segment(k, offset, n) = [k |-> j, at |-> s.at, n |-> s.n]

\* What exfat_read and exfat_write do on from cluster k.
LEMMA SegmentForm ==
    ASSUME TypeOK, NEW k \in Nat, NEW offset \in Nat, NEW n \in Nat
    PROVE  Ends(k, offset, n) \/ \E j \in DOMAIN Clusters : GoesOn(k, offset, n, j)
<1> DEFINE next == {j \in DOMAIN Clusters : j > k /\ offset >= (j - 1) * PAGE}
           j == CHOOSE j \in next : \A i \in next : j <= i
           po == (offset - (j - 1) * PAGE) % PAGE
           rem == (file_length - offset) % UINT64
           bytes == Bounded(n, PAGE - po, rem)
           s == nvmepart(ExfatPart, Clusters[j] + po, bytes)
<1>1. /\ PAGE \in Nat \ {0} /\ UINT64 \in Nat /\ UINT64 > 0 /\ file_length \in Nat
      /\ Clusters \in Seq(Nat) /\ ExfatPart \in Parts
    BY DiskAssumption DEF Parts
<1>2. exfat_segment(k, offset, n) =
        IF next = {} \/ bytes = 0 THEN [k |-> k, at |-> 0, n |-> 0] ELSE [k |-> j, at |-> s.at, n |-> s.n]
    BY DEF exfat_segment, Bounded
<1>3. CASE next = {}
  <2>1. \A i \in DOMAIN Clusters : ~ (i > k /\ offset >= (i - 1) * PAGE)
    BY <1>3
  <2>2. exfat_segment(k, offset, n) = [k |-> k, at |-> 0, n |-> 0]
    BY <1>2, <1>3
  <2> QED
    BY <2>1, <2>2 DEF Ends, CanFollow
<1>4. CASE next # {}
  <2>1. next \in SUBSET Nat
    BY <1>1
  <2>2. \E i \in next : \A l \in next : i <= l
    BY <1>4, <2>1, LeastNatural
  <2>3. j \in next /\ \A i \in next : j <= i
    BY <2>2
  <2>4. j \in DOMAIN Clusters /\ j \in Nat \ {0} /\ j > k /\ offset >= (j - 1) * PAGE
    BY <1>1, <2>3
  <2>5. \A i \in DOMAIN Clusters : i > k /\ offset >= (i - 1) * PAGE => j <= i
    BY <2>3
  <2> HIDE DEF j, next
  <2>6. (j - 1) * PAGE \in Nat
    BY <1>1, <2>4, MultipleBefore
  <2> DEFINE m == (j - 1) * PAGE
  <2>7. po \in 0 .. PAGE - 1
    <3>1. offset - m \in Int
      BY <2>6
    <3> HIDE DEF m
    <3>2. (offset - m) % PAGE \in 0 .. PAGE - 1
      BY <1>1, <3>1
    <3> QED
      BY <3>2 DEF m
  <2>8. rem \in Nat
    BY <1>1
  <2> HIDE DEF po, rem
  <2>9. PAGE - po \in Nat \ {0}
    BY <1>1, <2>7
  <2>10. bytes \in Nat
    BY <2>8, <2>9 DEF Bounded, Minimum
  <2>11. CASE bytes = 0
    <3>1. exfat_segment(k, offset, n) = [k |-> k, at |-> 0, n |-> 0]
      BY <1>2, <2>11
    <3>2. \E rest \in Nat \ {0} : Bounded(n, rest, rem) = 0
      BY <2>9, <2>11
    <3> QED
      BY <3>1, <3>2 DEF rem, Ends
  <2>12. CASE bytes > 0
    <3>1. exfat_segment(k, offset, n) = [k |-> j, at |-> s.at, n |-> s.n]
      BY <1>2, <1>4, <2>12
    <3> QED
      BY <2>4, <2>5, <2>12, <3>1 DEF po, rem, GoesOn, CanFollow, PageOffset, BytesIn
  <2> QED
    BY <2>10, <2>11, <2>12
<1> QED
    BY <1>3, <1>4

\* The offset in a cluster is less than a page.
LEMMA PageOffsetType ==
    ASSUME NEW j \in Nat \ {0}, NEW offset \in Nat, NEW n \in Nat
    PROVE  PageOffset(j, offset) \in 0 .. PAGE - 1 /\ BytesIn(j, offset, n) \in 0 .. n
<1> DEFINE m == (j - 1) * PAGE
           po == (offset - m) % PAGE
           rem == (file_length - offset) % UINT64
<1>1. PAGE \in Nat \ {0} /\ UINT64 \in Nat /\ UINT64 > 0 /\ file_length \in Nat
    BY DiskAssumption
<1>2. m \in Nat
    BY <1>1, MultipleBefore
<1> HIDE DEF m
<1>3. po \in 0 .. PAGE - 1 /\ rem \in Nat
    BY <1>1, <1>2
<1> HIDE DEF po, rem
<1>4. PAGE - po \in Nat
    BY <1>1, <1>3
<1>5. Bounded(n, PAGE - po, rem) \in 0 .. n
    BY <1>3, <1>4 DEF Bounded, Minimum
<1> QED
    BY <1>3, <1>5 DEF PageOffset, BytesIn, po, rem, m

\* A segment of an exFAT file lies inside the disk, wherever the offset is.
LEMMA SegmentInside ==
    ASSUME TypeOK, NEW k \in Nat, NEW offset \in Nat, NEW n \in Nat
    PROVE  LET x == exfat_segment(k, offset, n)
           IN x.k \in Nat /\ x.at \in Nat /\ x.n \in 0 .. n /\ (x.n > 0 => x.at + x.n <= DiskSize)
<1> DEFINE x == exfat_segment(k, offset, n)
<1>1. CASE Ends(k, offset, n)
    BY <1>1 DEF Ends
<1>2. ASSUME NEW j \in DOMAIN Clusters, GoesOn(k, offset, n, j)
      PROVE  x.k \in Nat /\ x.at \in Nat /\ x.n \in 0 .. n /\ (x.n > 0 => x.at + x.n <= DiskSize)
  <2> DEFINE po == PageOffset(j, offset)
             bytes == BytesIn(j, offset, n)
             a == Clusters[j] + po
             s == nvmepart(ExfatPart, a, bytes)
  <2>1. x = [k |-> j, at |-> s.at, n |-> s.n]
    BY <1>2 DEF GoesOn
  <2>2. Clusters \in Seq(Nat) /\ ExfatPart \in Parts
    BY DiskAssumption DEF Parts
  <2>3. j \in Nat \ {0} /\ Clusters[j] \in Nat
    BY <2>2
  <2>4. po \in 0 .. PAGE - 1 /\ bytes \in 0 .. n
    BY <2>3, PageOffsetType
  <2>5. a \in Nat /\ bytes \in Nat
    BY <2>3, <2>4
  <2> HIDE DEF a, bytes, x
  <2>6. /\ PartStart[ExfatPart] \in Nat
        /\ s.at = a + PartStart[ExfatPart] /\ s.n \in 0 .. bytes
        /\ s.n > 0 => a + PartStart[ExfatPart] + s.n <= DiskSize
    BY <2>2, <2>5, PartInside
  <2>7. x.k = j /\ x.at = s.at /\ x.n = s.n
    BY <2>1
  <2> HIDE DEF s
  <2> QED
    BY <2>3, <2>4, <2>5, <2>6, <2>7
<1> QED
    BY <1>1, <1>2, SegmentForm

\* From the end of a cluster, or from inside the first one, the loop comes to
\* the next cluster, and moves what is left of the buffer, the cluster and the
\* file.
LEMMA NextCluster ==
    ASSUME TypeOK, lba_count = DiskSize, NEW k \in 0 .. Len(Clusters), NEW offset \in 0 .. file_length,
           NEW n \in Nat, offset = k * PAGE \/ (k = 0 /\ offset < PAGE)
    PROVE  LET x == exfat_segment(k, offset, n)
               bytes == Bounded(n, (k + 1) * PAGE - offset, file_length - offset)
           IN /\ (k + 1) * PAGE - offset \in Nat \ {0} /\ bytes \in Nat /\ x.n = bytes
              /\ bytes > 0 => /\ k + 1 \in DOMAIN Clusters /\ x.k = k + 1
                              /\ x.at = PartStart[ExfatPart] + Clusters[k + 1] + (offset - k * PAGE)
<1> DEFINE x == exfat_segment(k, offset, n)
           L == Len(Clusters)
           kp == k * PAGE
           rem == file_length - offset
           rest == (k + 1) * PAGE - offset
           bytes == Bounded(n, rest, rem)
<1>1. /\ PAGE \in Nat \ {0} /\ UINT64 \in Nat /\ DiskSize < UINT64 /\ file_length \in Nat /\ DiskSize \in Nat
      /\ Clusters \in Seq(Nat) /\ ExfatPart \in Parts
      /\ \A i \in DOMAIN Clusters : Clusters[i] + PAGE <= PartEnd[ExfatPart] - PartStart[ExfatPart]
      /\ DOMAIN Clusters = 1 .. L /\ L \in Nat
    BY DiskAssumption DEF Parts
<1>2. kp \in Nat /\ (k + 1) * PAGE = kp + PAGE
    BY <1>1
<1>3. offset >= kp /\ offset - kp \in 0 .. PAGE - 1
    BY <1>1, <1>2
<1>4. (k + 1) * PAGE - offset = PAGE - (offset - kp) /\ (k + 1) * PAGE - offset \in Nat \ {0}
    BY <1>1, <1>2, <1>3
<1>5. rem \in Nat /\ bytes \in Nat
    BY <1>1, <1>4 DEF Bounded, Minimum
<1>6. (file_length - offset) % UINT64 = rem
  <2>1. rem \in Nat /\ rem < UINT64
    BY <1>1, <1>5, DiskAssumption
  <2> QED
    BY <1>1, <2>1, SmallRemainder
<1>7. CASE k + 1 \notin DOMAIN Clusters
  <2>1. k = L
    <3>1. k \in 0 .. L
      OBVIOUS
    <3> HIDE DEF L
    <3> QED
      BY <1>1, <1>7, <3>1
  <2>2. file_length <= kp
    <3>1. kp = PAGE * L
      BY <1>1, <2>1
    <3> QED
      BY <3>1, DiskAssumption
  <2>3. offset = file_length
    <3>1. offset \in Int /\ offset <= file_length
      BY <1>1
    <3> HIDE DEF kp
    <3> QED
      BY <1>1, <1>2, <1>3, <2>2, <3>1
  <2>4. rem = 0 /\ bytes = 0
    BY <1>1, <1>4, <2>3 DEF Bounded, Minimum
  <2>5. x = [k |-> k, at |-> 0, n |-> 0]
    <3>1. \A j \in DOMAIN Clusters : ~ (j > k)
      BY <1>1, <2>1
    <3>2. k \in Nat /\ offset \in Nat
      BY <1>1
    <3> QED
      BY <3>1, <3>2, SegmentForm DEF Ends, GoesOn, CanFollow
  <2> QED
    BY <1>4, <2>4, <2>5
<1>8. CASE k + 1 \in DOMAIN Clusters
  <2>2. ((k + 1) - 1) * PAGE = kp
    BY <1>1
  <2> DEFINE po == offset - kp
             a == Clusters[k + 1] + po
             s == nvmepart(ExfatPart, a, bytes)
  <2>3. po \in 0 .. PAGE - 1 /\ po % PAGE = po /\ PAGE - po = (k + 1) * PAGE - offset
    <3> HIDE DEF kp
    <3>1. po \in 0 .. PAGE - 1
      BY <1>3
    <3> QED
      BY <1>1, <1>4, <3>1, SmallRemainder
  <2>4. (x = [k |-> k, at |-> 0, n |-> 0] /\ bytes = 0) \/ x = [k |-> k + 1, at |-> s.at, n |-> s.n]
    <3>1. CanFollow(k, offset, k + 1)
      BY <1>3, <2>2 DEF CanFollow
    <3>2. k \in Nat /\ offset \in Nat
      BY <1>1
    <3>3. CASE Ends(k, offset, n)
      <4>1. PICK r \in Nat \ {0} : Bounded(n, r, rem) = 0
        BY <1>6, <1>8, <3>1, <3>3 DEF Ends
      <4>2. bytes = 0
        BY <1>4, <1>5, <4>1 DEF Bounded, Minimum
      <4> QED
        BY <3>3, <4>2 DEF Ends
    <3>4. ASSUME NEW j \in DOMAIN Clusters, GoesOn(k, offset, n, j)
          PROVE  x = [k |-> k + 1, at |-> s.at, n |-> s.n]
      <4>1. j > k /\ j <= k + 1 /\ j \in Nat
        BY <1>1, <1>8, <3>1, <3>4 DEF GoesOn, CanFollow
      <4>2. j = k + 1
        BY <3>2, <4>1
      <4>3. PageOffset(j, offset) = po
        BY <2>2, <2>3, <4>2 DEF PageOffset
      <4>4. BytesIn(j, offset, n) = bytes
        BY <1>6, <2>3, <4>3 DEF BytesIn
      <4> QED
        BY <3>4, <4>2, <4>3, <4>4 DEF GoesOn
    <3> QED
      BY <3>2, <3>3, <3>4, SegmentForm
  <2> HIDE DEF kp, rem
  <2>5. Clusters[k + 1] \in Nat /\ bytes <= PAGE - po
    <3>1. rest = PAGE - po /\ rest \in Nat
      BY <1>4, <2>3
    <3> HIDE DEF rest, po
    <3>2. bytes <= rest
      BY <1>5, <3>1 DEF Bounded, Minimum
    <3> QED
      BY <1>1, <1>8, <3>1, <3>2
  <2> HIDE DEF po, bytes
  <2> DEFINE size == PartEnd[ExfatPart] - PartStart[ExfatPart]
             cl == Clusters[k + 1]
  <2>6. a \in Nat /\ a + bytes <= size /\ a <= size /\ size \in Int
    <3>1. size \in Int /\ cl + PAGE <= size
      BY <1>1, <1>8, DiskAssumption DEF Parts
    <3>2. cl \in Nat /\ a = cl + po
      BY <2>5
    <3> HIDE DEF cl, a, size
    <3> QED
      BY <1>1, <1>5, <2>3, <2>5, <3>1, <3>2
  <2>7. /\ PartStart[ExfatPart] \in Nat /\ PartEnd[ExfatPart] \in Nat
        /\ s.at = a + PartStart[ExfatPart] /\ s.n = Minimum(bytes, PartEnd[ExfatPart] - PartStart[ExfatPart] - a)
    BY <1>1, <1>5, <2>6, PartInside
  <2>8. s.n = bytes
    BY SMTT(30), <1>5, <2>6, <2>7 DEF Minimum
  <2>9. x.n = bytes /\ (bytes > 0 => x.k = k + 1 /\ x.at = s.at)
    BY <1>5, <2>4, <2>8
  <2>10. s.at = PartStart[ExfatPart] + Clusters[k + 1] + (offset - kp)
    BY <2>3, <2>5, <2>7 DEF po
  <2> QED
    BY <1>4, <1>5, <1>8, <2>9, <2>10 DEF bytes, kp, rem
<1> QED
    BY <1>7, <1>8

\* With nothing left of the buffer or of the file there is no segment.
LEMMA NothingLeft ==
    ASSUME TypeOK, NEW k \in Nat, NEW offset \in Nat, NEW n \in Nat, n = 0 \/ offset = file_length
    PROVE  exfat_segment(k, offset, n).n = 0
<1> DEFINE x == exfat_segment(k, offset, n)
           rem == (file_length - offset) % UINT64
<1>1. /\ PAGE \in Nat \ {0} /\ UINT64 \in Nat /\ UINT64 > 0 /\ file_length \in Nat /\ Clusters \in Seq(Nat)
    BY DiskAssumption
<1>2. rem \in Nat /\ (offset = file_length => rem = 0)
    BY <1>1
<1>3. ASSUME NEW j \in DOMAIN Clusters, BytesIn(j, offset, n) > 0
      PROVE  FALSE
  <2> DEFINE po == PageOffset(j, offset)
  <2>1. j \in Nat \ {0}
    BY <1>1
  <2>2. po \in 0 .. PAGE - 1
    BY <2>1, PageOffsetType
  <2>3. Bounded(n, PAGE - po, rem) > 0
    BY <1>3 DEF BytesIn
  <2> HIDE DEF po, rem
  <2> QED
    BY <1>1, <1>2, <2>2, <2>3 DEF Bounded, Minimum
<1>4. x = [k |-> k, at |-> 0, n |-> 0]
    BY <1>3, SegmentForm DEF Ends, GoesOn
<1> QED
    BY <1>4

-----------------------------------------------------------------------------
(* Types, and what stays inside buffers and the disk.                      *)

\* A step of one task: the others keep what holds of them.
LEMMA OneTask ==
    ASSUME TypeInv, NEW t \in Tasks, NEW c \in Calls \cup {NoCall}, NEW i \in Locals, NEW f \in OpenFiles,
           call' = [call EXCEPT ![t] = c], io' = [io EXCEPT ![t] = i], filp' = [filp EXCEPT ![t] = f],
           UNCHANGED <<probe, lba_count>>, disk' \in [0 .. DiskSize - 1 -> Nat],
           Inside(c, i, f), Queued(f, probe)
    PROVE  TypeInv'
<1>1. TypeOK'
    BY DEF TypeInv, TypeOK
<1>2. ASSUME NEW u \in Tasks
      PROVE  Inside(call'[u], io'[u], filp'[u]) /\ Queued(filp'[u], probe')
  <2>1. CASE u = t
    <3>1. call'[u] = c /\ io'[u] = i /\ filp'[u] = f
      BY <2>1 DEF TypeInv, TypeOK
    <3> QED
      BY <3>1
  <2>2. CASE u # t
    <3>1. call'[u] = call[u] /\ io'[u] = io[u] /\ filp'[u] = filp[u]
      BY <2>2 DEF TypeInv, TypeOK
    <3>2. Inside(call[u], io[u], filp[u]) /\ Queued(filp[u], probe)
      BY DEF TypeInv
    <3> QED
      BY <3>1, <3>2
  <2> QED
    BY <2>1, <2>2
<1> QED
    BY <1>1, <1>2 DEF TypeInv

\* The fields that Enter sets, and those it leaves alone.
LEMMA EnterSets ==
    ASSUME NEW i \in Locals, NEW k \in Nat, NEW s, s.at \in Nat, s.n \in Nat
    PROVE  /\ Enter(i, k, s) \in Locals
           /\ Enter(i, k, s).done = i.done /\ Enter(i, k, s).got = i.got
           /\ Enter(i, k, s).at = s.at /\ Enter(i, k, s).left = s.n
           /\ Enter(i, k, s).k = k /\ Enter(i, k, s).asked = s.n
           /\ Enter(i, k, s).temp = i.temp /\ Enter(i, k, s).dead = i.dead
           /\ Enter(i, k, s).phase = IF s.n = 0 THEN "return" ELSE "readpage"
    BY DEF Enter, Locals

\* Before its first segment a task has no locals.
LEMMA NoIoType == NoIo \in Locals
<1>1. <<>> \in Seq(Nat)
    OBVIOUS
<1> QED
    BY <1>1 DEF NoIo, Locals

\* What a segment of any file is at first.
First(c) ==
    IF c.file = "exfat" THEN exfat_segment(0, c.offset, c.length) ELSE Device(c.file, c.offset, c.length)

\* It lies inside the disk and inside the buffer.
LEMMA FirstInside ==
    ASSUME TypeOK, NEW c \in Calls
    PROVE  First(c).at \in Nat /\ First(c).n \in 0 .. c.length /\ (First(c).n > 0 => First(c).at + First(c).n <= DiskSize)
<1>1. c.file \in FileNames /\ c.offset \in Nat /\ c.length \in Nat
    BY DEF Calls
<1>2. CASE c.file = "exfat"
    BY <1>1, <1>2, SegmentInside DEF First
<1>3. CASE c.file = "disk"
    BY <1>1, <1>3, ClampedInside DEF First, Device
<1>4. CASE c.file \notin {"disk", "exfat"}
  <2>1. c.file \in Parts
    BY <1>1, <1>4 DEF FileNames
  <2>2. First(c) = nvmepart(c.file, c.offset, c.length)
    BY <1>4 DEF First, Device
  <2> DEFINE s == nvmepart(c.file, c.offset, c.length)
  <2>3. /\ PartStart[c.file] \in Nat /\ s.at = c.offset + PartStart[c.file] /\ s.n \in 0 .. c.length
        /\ s.n > 0 => c.offset + PartStart[c.file] + s.n <= DiskSize
    BY <1>1, <2>1, PartInside
  <2> QED
    BY <1>1, <2>2, <2>3
<1> QED
    BY <1>2, <1>3, <1>4

\* vfs_read and vfs_write begin a call c.
NewCall(t, f, op, length) ==
    [op |-> op, file |-> f.file, offset |-> f.offset, length |-> length,
     data |-> [k \in 1 .. length |-> 10 * ByteOf[t] + k], ready |-> lba_count # 0]

\* The file a task goes on with is there.
LEMMA UsableFile ==
    ASSUME TypeInv, NEW t \in Tasks, NEW f \in Usable(t)
    PROVE  f \in OpenFiles /\ f.file \in FileNames /\ f.offset \in Nat /\ (f.file # "disk" => probe = "partitions")
<1>1. CASE f = filp[t] /\ f # NoFile
  <2>1. f \in OpenFiles /\ Queued(f, probe)
    BY <1>1 DEF TypeInv, TypeOK
  <2>2. f \in [file : FileNames, offset : Nat]
    BY <1>1, <2>1 DEF OpenFiles
  <2>3. "none" \notin FileNames
    BY DiskAssumption DEF FileNames, Parts
  <2> QED
    BY <2>1, <2>2, <2>3 DEF Queued
<1>2. CASE \E g \in FileNames, o \in Offsets : Exists(g) /\ f = [file |-> g, offset |-> o]
  <2>1. Offsets \subseteq Nat
    BY DiskAssumption
  <2> QED
    BY <1>2, <2>1 DEF Exists, OpenFiles
<1> QED
    BY <1>1, <1>2 DEF Usable

\* The locals i of a call c that has just begun.
Started(c, i) ==
    /\ i.done = 0 /\ i.got = <<>> /\ i.temp = <<>> /\ i.dead = FALSE
    /\ i.at = First(c).at /\ i.left = First(c).n /\ i.asked = First(c).n
    /\ i.phase = IF First(c).n = 0 THEN "return" ELSE "readpage"
    /\ c.file = "exfat" => i.k = First(c).k

\* What a call is when it begins.
LEMMA BeginForm ==
    ASSUME TypeInv, NEW t \in Tasks, NEW f \in Usable(t), NEW op \in {"read", "write"}, NEW n \in Lengths,
           Begin(t, f, op, n)
    PROVE  LET c == NewCall(t, f, op, n)
           IN /\ c \in Calls /\ Len(c.data) = n /\ c.file = f.file /\ c.offset = f.offset /\ c.length = n
              /\ call' = [call EXCEPT ![t] = c]
              /\ \E i \in Locals : Started(c, i) /\ io' = [io EXCEPT ![t] = i]
<1> DEFINE c == NewCall(t, f, op, n)
           s == First(c)
           k == IF c.file = "exfat" THEN s.k ELSE 0
           e == Enter(NoIo, k, s)
           i == e
<1>1. n \in Nat /\ ByteOf[t] \in Nat
    BY DiskAssumption
<1>2. c.data \in Seq(Nat) /\ Len(c.data) = n
  <2>1. c.data = [l \in 1 .. n |-> 10 * ByteOf[t] + l]
    BY DEF NewCall
  <2>2. \A l \in 1 .. n : 10 * ByteOf[t] + l \in Nat
    BY <1>1
  <2>3. c.data \in [1 .. n -> Nat]
    BY <2>1, <2>2
  <2> QED
    BY <1>1, <2>3
<1>3. /\ c = [op |-> op, file |-> f.file, offset |-> f.offset, length |-> n, data |-> c.data, ready |-> c.ready]
      /\ c.ready \in BOOLEAN /\ c.file = f.file /\ c.offset = f.offset /\ c.length = n
    BY DEF NewCall
<1>4. c \in Calls
    BY <1>1, <1>2, <1>3, UsableFile DEF Calls
<1>5. call' = [call EXCEPT ![t] = c] /\ io' = [io EXCEPT ![t] = i]
    BY DEF Begin, NewCall, First
<1> HIDE DEF c
<1>6. TypeOK /\ s.at \in Nat /\ s.n \in Nat
    BY <1>4, FirstInside DEF Calls, TypeInv
<1>7. k \in Nat
  <2>1. c.offset \in Nat /\ c.length \in Nat
    BY <1>4 DEF Calls
  <2> QED
    BY <1>6, <2>1, SegmentInside DEF First
<1> HIDE DEF s, k
<1>8. /\ e \in Locals /\ e.done = 0 /\ e.got = <<>> /\ e.temp = <<>> /\ e.dead = FALSE /\ e.at = s.at
      /\ e.left = s.n /\ e.asked = s.n /\ e.k = k /\ e.phase = IF s.n = 0 THEN "return" ELSE "readpage"
  <2>1. NoIo \in Locals
    BY NoIoType
  <2>2. NoIo.done = 0 /\ NoIo.got = <<>> /\ NoIo.temp = <<>> /\ NoIo.dead = FALSE
    BY DEF NoIo
  <2>3. s.at \in Nat /\ s.n \in Nat
    BY <1>6
  <2>4. e \in Locals
    BY <1>7, <2>1, <2>3, EnterSets
  <2>5. /\ e.done = NoIo.done /\ e.got = NoIo.got /\ e.temp = NoIo.temp /\ e.dead = NoIo.dead
    BY <1>7, <2>1, <2>3, EnterSets
  <2>6. /\ e.at = s.at /\ e.left = s.n /\ e.asked = s.n /\ e.k = k
    BY <1>7, <2>1, <2>3, EnterSets
  <2>7. e.phase = IF s.n = 0 THEN "return" ELSE "readpage"
    BY <1>7, <2>1, <2>3, EnterSets
  <2> QED
    BY <2>2, <2>4, <2>5, <2>6, <2>7
<1> HIDE DEF e
<1>9. /\ i \in Locals /\ i.done = 0 /\ i.got = <<>> /\ i.temp = <<>> /\ i.dead = FALSE /\ i.at = s.at
      /\ i.left = s.n /\ i.asked = s.n /\ i.k = k /\ i.phase = e.phase
    BY <1>8 DEF Locals
<1> HIDE DEF i
<1> QED
    BY <1>2, <1>3, <1>4, <1>5, <1>8, <1>9 DEF c, s, k, Started

\* The locals when n bytes of the segment have been moved.
Advanced(i, n) ==
    [i EXCEPT !.done = @ + n, !.at = @ + n, !.left = @ - n, !.temp = <<>>, !.phase = "readpage"]

\* The next cluster's segment of a call c whose file is at an offset.
Following(c, i, n, offset) == exfat_segment(i.k, offset, c.length - (i.done + n))

\* How Moved leaves the locals i of a task in a call c: in the same segment, in
\* the next one, or done.
Stays(i, n, m) == i.left - n > 0 /\ i.dead = FALSE /\ m = Advanced(i, n)

Follows(c, i, n, offset, m) ==
    LET x == Following(c, i, n, offset)
    IN i.left = n /\ i.dead = FALSE /\ c.file = "exfat" /\ m = Enter(Advanced(i, n), x.k, x)

Finishes(c, i, n, m) ==
    (i.dead = TRUE \/ (i.left = n /\ c.file # "exfat")) /\ m = [Advanced(i, n) EXCEPT !.phase = "return"]

\* What Moved does, case by case.
LEMMA MovedForm ==
    ASSUME TypeInv, NEW t \in Tasks, NEW i \in Locals, NEW n \in 1 .. i.left, call[t] # NoCall, Moved(t, i, n)
    PROVE  \E m, f : 
             /\ io' = [io EXCEPT ![t] = m] /\ filp' = [filp EXCEPT ![t] = f]
             /\ \/ Stays(i, n, m) /\ f = filp[t]
                \/ Follows(call[t], i, n, f.offset, m) /\ f = [filp[t] EXCEPT !.offset = @ + i.asked]
                \/ Finishes(call[t], i, n, m) /\ f = filp[t]
<1> DEFINE j == Advanced(i, n)
           c == call[t]
           offset == filp[t].offset + i.asked
           x == exfat_segment(i.k, offset, c.length - j.done)
           g == [filp[t] EXCEPT !.offset = offset]
<1>1. n \in Nat /\ n > 0 /\ i.left \in Nat /\ n <= i.left /\ i.dead \in BOOLEAN /\ i.asked \in Nat
    BY DEF Locals
<1>2. j.done = i.done + n /\ j.left = i.left - n
    BY DEF Advanced, Locals
<1>3. filp \in [Tasks -> OpenFiles] /\ filp[t] \in OpenFiles
    BY DEF TypeInv, TypeOK
<1>4. filp = [filp EXCEPT ![t] = filp[t]]
    BY <1>3
<1>5. g.offset = offset /\ [filp EXCEPT ![t].offset = offset] = [filp EXCEPT ![t] = g]
    BY <1>3 DEF OpenFiles, NoFile
<1>6. \/ j.left > 0 /\ i.dead = FALSE /\ io' = [io EXCEPT ![t] = j] /\ filp' = filp
      \/ /\ ~ (j.left > 0) /\ c.file = "exfat" /\ i.dead = FALSE
         /\ io' = [io EXCEPT ![t] = Enter(j, x.k, x)] /\ filp' = [filp EXCEPT ![t].offset = offset]
      \/ /\ i.dead = TRUE \/ (~ (j.left > 0) /\ c.file # "exfat")
         /\ io' = [io EXCEPT ![t] = [j EXCEPT !.phase = "return"]] /\ filp' = filp
    BY <1>1 DEF Moved, Advanced
<1>7. ~ (j.left > 0) => i.left = n
    BY <1>1, <1>2
<1> HIDE DEF j, offset, g
<1>8. CASE j.left > 0 /\ i.dead = FALSE /\ io' = [io EXCEPT ![t] = j] /\ filp' = filp
  <2>1. Stays(i, n, j)
    BY <1>2, <1>8 DEF Stays, j
  <2> QED
    BY <1>4, <1>8, <2>1
<1>9. CASE /\ ~ (j.left > 0) /\ c.file = "exfat" /\ i.dead = FALSE
           /\ io' = [io EXCEPT ![t] = Enter(j, x.k, x)] /\ filp' = [filp EXCEPT ![t].offset = offset]
  <2>1. x = Following(c, i, n, g.offset)
    BY <1>2, <1>5 DEF Following
  <2>2. Follows(c, i, n, g.offset, Enter(j, x.k, x))
    BY <1>7, <1>9, <2>1 DEF Follows, j
  <2>3. g = [filp[t] EXCEPT !.offset = @ + i.asked]
    BY DEF g, offset
  <2> QED
    BY <1>5, <1>9, <2>2, <2>3
<1>10. CASE /\ i.dead = TRUE \/ (~ (j.left > 0) /\ c.file # "exfat")
            /\ io' = [io EXCEPT ![t] = [j EXCEPT !.phase = "return"]] /\ filp' = filp
  <2>1. Finishes(c, i, n, [j EXCEPT !.phase = "return"])
    BY <1>7, <1>10 DEF Finishes, j
  <2> QED
    BY <1>4, <1>10, <2>1
<1> QED
    BY <1>6, <1>8, <1>9, <1>10

\* The fields that change.
LEMMA AdvancedSets ==
    ASSUME NEW i \in Locals, NEW n \in 1 .. i.left
    PROVE  LET j == Advanced(i, n)
           IN /\ j \in Locals /\ j.done = i.done + n /\ j.at = i.at + n /\ j.left = i.left - n
              /\ j.temp = <<>> /\ j.phase = "readpage"
              /\ j.got = i.got /\ j.k = i.k /\ j.asked = i.asked /\ j.dead = i.dead
<1> DEFINE j == Advanced(i, n)
<1>1. i.done \in Nat /\ i.at \in Nat /\ i.left \in Nat /\ n \in Nat /\ n <= i.left
    BY DEF Locals
<1>2. i.done + n \in Nat /\ i.at + n \in Nat /\ i.left - n \in Nat
    BY <1>1
<1>3. j \in Locals
    BY <1>2 DEF Advanced, Locals
<1>4. j.done = i.done + n /\ j.at = i.at + n /\ j.left = i.left - n /\ j.temp = <<>> /\ j.phase = "readpage"
    BY DEF Advanced, Locals
<1>5. j.got = i.got /\ j.k = i.k /\ j.asked = i.asked /\ j.dead = i.dead
    BY DEF Advanced, Locals
<1> QED
    BY <1>3, <1>4, <1>5

\* A task that has moved n bytes is inside its buffer and the disk again.
LEMMA MovedInside ==
    ASSUME TypeInv, NEW t \in Tasks, NEW i \in Locals, NEW n \in 1 .. i.left, call[t] # NoCall, Moved(t, i, n),
           i.done + i.left <= call[t].length, i.at + i.left <= DiskSize
    PROVE  \E m \in Locals, f \in OpenFiles :
             /\ io' = [io EXCEPT ![t] = m] /\ filp' = [filp EXCEPT ![t] = f]
             /\ \/ Stays(i, n, m) /\ f = filp[t]
                \/ Follows(call[t], i, n, f.offset, m) /\ f = [filp[t] EXCEPT !.offset = @ + i.asked]
                \/ Finishes(call[t], i, n, m) /\ f = filp[t]
             /\ f.file = filp[t].file
             /\ m.done = i.done + n /\ m.got = i.got /\ m.dead = i.dead
             /\ m.phase \in {"readpage", "return"}
             /\ Inside(call[t], m, f)
<1> DEFINE c == call[t]
           j == Advanced(i, n)
<1>1. PICK m, f : 
        /\ io' = [io EXCEPT ![t] = m] /\ filp' = [filp EXCEPT ![t] = f]
        /\ \/ Stays(i, n, m) /\ f = filp[t]
           \/ Follows(call[t], i, n, f.offset, m) /\ f = [filp[t] EXCEPT !.offset = @ + i.asked]
           \/ Finishes(call[t], i, n, m) /\ f = filp[t]
    BY MovedForm
<1>2. c \in Calls /\ c # NoCall /\ TypeOK
    BY DEF TypeInv, TypeOK
<1>3. /\ Inside(c, io[t], filp[t]) /\ filp[t] \in OpenFiles
    BY DEF TypeInv, TypeOK
<1>4. /\ filp[t].file = c.file /\ Len(c.data) = c.length /\ filp[t] \in [file : FileNames, offset : Nat]
  <2>1. c.file # "none"
    BY <1>2, DiskAssumption DEF Calls, FileNames, Parts
  <2> QED
    BY <1>2, <1>3, <2>1 DEF Inside, OpenFiles, NoFile
<1>5. /\ j \in Locals /\ j.done = i.done + n /\ j.at = i.at + n /\ j.left = i.left - n
      /\ j.phase = "readpage" /\ j.got = i.got /\ j.k = i.k /\ j.dead = i.dead
    BY AdvancedSets
<1>6. /\ i.done \in Nat /\ i.at \in Nat /\ i.left \in Nat /\ i.asked \in Nat /\ i.k \in Nat
      /\ n \in Nat /\ n > 0 /\ n <= i.left /\ c.length \in Nat /\ DiskSize \in Nat
  <2>1. DiskSize \in Nat
    BY DiskAssumption
  <2>2. c.length \in Nat
    BY <1>2 DEF Calls
  <2>3. i.done \in Nat /\ i.at \in Nat /\ i.left \in Nat /\ i.asked \in Nat /\ i.k \in Nat
    BY DEF Locals
  <2> QED
    BY <2>1, <2>2, <2>3
<1> HIDE DEF c, j
<1>7. CASE Stays(i, n, m) /\ f = filp[t]
  <2>1. m = j /\ i.left - n > 0
    BY <1>7 DEF Stays, j
  <2>2. i.done + n + (i.left - n) <= c.length /\ i.at + n + (i.left - n) <= DiskSize
    BY <1>6 DEF c
  <2>3. Inside(c, m, f)
    BY <1>2, <1>4, <1>5, <1>6, <1>7, <2>1, <2>2 DEF Inside, Moving
  <2> QED
    BY <1>1, <1>3, <1>5, <1>7, <2>1, <2>3 DEF c
<1>8. CASE Finishes(c, i, n, m) /\ f = filp[t]
  <2>1. m = [j EXCEPT !.phase = "return"]
    BY <1>8 DEF Finishes, j
  <2>2. /\ m \in Locals /\ m.done = j.done /\ m.left = j.left /\ m.got = j.got /\ m.dead = j.dead
        /\ m.phase = "return"
    BY <1>5, <2>1 DEF Locals
  <2>3. i.done + n + (i.left - n) <= c.length
    BY <1>6 DEF c
  <2>4. Inside(c, m, f)
    BY <1>2, <1>4, <1>5, <1>8, <2>2, <2>3 DEF Inside, Moving
  <2> QED
    BY <1>1, <1>3, <1>5, <1>8, <2>2, <2>4 DEF c
<1>9. CASE Follows(c, i, n, f.offset, m) /\ f = [filp[t] EXCEPT !.offset = @ + i.asked]
  <2> DEFINE x == Following(c, i, n, f.offset)
  <2>1. m = Enter(j, x.k, x)
    BY <1>9 DEF Follows, j
  <2>2. f \in [file : FileNames, offset : Nat] /\ f.file = filp[t].file /\ f.offset \in Nat
    <3>1. filp[t].offset + i.asked \in Nat
      BY <1>4, <1>6
    <3> QED
      BY <1>4, <1>9, <3>1
  <2>3. c.length - (i.done + n) \in Nat
    BY <1>6 DEF c
  <2>4. /\ x.k \in Nat /\ x.at \in Nat /\ x.n \in 0 .. c.length - (i.done + n)
        /\ x.n > 0 => x.at + x.n <= DiskSize
    BY <1>2, <1>6, <2>2, <2>3, SegmentInside DEF Following
  <2> HIDE DEF x
  <2>5. x.n \in Nat /\ i.done + n + x.n <= c.length
    BY <1>6, <2>3, <2>4
  <2>6. /\ m \in Locals /\ m.done = j.done /\ m.left = x.n /\ m.at = x.at /\ m.got = j.got /\ m.dead = j.dead
        /\ m.phase = IF x.n = 0 THEN "return" ELSE "readpage"
    <3>1. j \in Locals /\ x.k \in Nat /\ x.at \in Nat /\ x.n \in Nat
      BY <1>5, <2>4, <2>5
    <3> DEFINE e == Enter(j, x.k, x)
    <3>2. e \in Locals
      BY <3>1, EnterSets
    <3>3. e.done = j.done /\ e.left = x.n /\ e.at = x.at /\ e.got = j.got
      BY <3>1 DEF Enter, Locals
    <3>4. e.dead = j.dead
      BY <3>1 DEF Enter, Locals
    <3>5. e.phase = IF x.n = 0 THEN "return" ELSE "readpage"
      BY <3>1 DEF Enter, Locals
    <3>6. m = e
      BY <2>1
    <3> HIDE DEF e
    <3> QED
      BY <3>2, <3>3, <3>4, <3>5, <3>6
  <2>7. Inside(c, m, f)
    BY <1>2, <1>4, <1>5, <2>2, <2>4, <2>5, <2>6 DEF Inside, Moving
  <2>8. f \in OpenFiles
    BY <2>2 DEF OpenFiles
  <2> QED
    BY <1>1, <1>5, <1>9, <2>2, <2>6, <2>7, <2>8 DEF c
<1> QED
    BY <1>1, <1>7, <1>8, <1>9 DEF c

\* The page around an address of the disk is on the disk: its size is a multiple
\* of the page's.
LEMMA PageInDisk ==
    ASSUME NEW at \in Nat, at < DiskSize
    PROVE  /\ at % PAGE \in 0 .. PAGE - 1 /\ at - (at % PAGE) \in Nat
           /\ (at - (at % PAGE)) + PAGE <= DiskSize
<1> DEFINE q == at \div PAGE
           r == at % PAGE
           Q == DiskSize \div PAGE
<1>1. PAGE \in Nat \ {0} /\ DiskSize \in Nat /\ DiskSize % PAGE = 0
    BY DiskAssumption
<1>2. q \in Nat /\ r \in 0 .. PAGE - 1 /\ at = q * PAGE + r
    BY <1>1, DivMod
<1>3. Q \in Nat /\ DiskSize = Q * PAGE + 0
    BY <1>1, DivMod
<1> HIDE DEF q, r, Q
<1>4. q * PAGE \in Nat /\ Q * PAGE \in Nat /\ (q + 1) * PAGE = q * PAGE + PAGE
    BY <1>1, <1>2, <1>3
<1>5. q * PAGE < Q * PAGE
    BY <1>2, <1>3, <1>4
<1>6. q < Q
    BY <1>1, <1>2, <1>3, <1>5, FewerMultiples
<1>7. (q + 1) * PAGE <= Q * PAGE
  <2>1. Q - (q + 1) \in Nat
    BY <1>2, <1>3, <1>6
  <2>2. (Q - (q + 1)) * PAGE \in Nat
    BY <1>1, <2>1
  <2>3. (Q - (q + 1)) * PAGE = Q * PAGE - (q + 1) * PAGE
    BY <1>1, <1>2, <1>3
  <2>4. Q * PAGE - (q + 1) * PAGE >= 0
    BY <2>2, <2>3
  <2> QED
    BY <1>1, <1>2, <1>4, <2>4
<1>8. at - r = q * PAGE
    BY <1>1, <1>2, <1>4
<1> QED
    BY <1>2, <1>3, <1>4, <1>7, <1>8 DEF r

\* Every step over a page makes progress.
LEMMA ChunkType ==
    ASSUME NEW i \in Locals, i.left > 0
    PROVE  Chunk(i) \in 1 .. i.left /\ Chunk(i) <= PAGE - (i.at % PAGE) /\ i.at % PAGE \in 0 .. PAGE - 1
<1>1. i.at \in Nat /\ i.left \in Nat /\ PAGE \in Nat \ {0}
    BY DiskAssumption DEF Locals
<1>2. i.at % PAGE \in 0 .. PAGE - 1
    BY <1>1, DivMod
<1> QED
    BY <1>1, <1>2 DEF Chunk, Minimum

\* A task that waits for a page is in a call.
LEMMA WaitingInCall ==
    ASSUME TypeInv, NEW t \in Tasks, Moving(io[t]) \/ io[t].phase = "return"
    PROVE  /\ call[t] \in Calls /\ call[t] # NoCall /\ io[t] \in Locals /\ filp[t] \in OpenFiles
           /\ TypeOK /\ Inside(call[t], io[t], filp[t]) /\ Queued(filp[t], probe)
           /\ filp[t].file = call[t].file /\ filp[t] \in [file : FileNames, offset : Nat]
<1>1. call[t] \in Calls \cup {NoCall} /\ io[t] \in Locals /\ filp[t] \in OpenFiles
    BY DEF TypeInv, TypeOK
<1>2. TypeOK /\ Inside(call[t], io[t], filp[t]) /\ Queued(filp[t], probe)
    BY DEF TypeInv
<1>3. NoIo.phase = "idle"
    BY DEF NoIo
<1>4. call[t] # NoCall
    BY <1>2, <1>3 DEF Inside, Moving
<1>5. call[t] \in Calls
    BY <1>1, <1>4
<1>6. filp[t].file = call[t].file
    BY <1>2, <1>4 DEF Inside
<1>7. call[t].file # "none"
    BY <1>5, DiskAssumption DEF Calls, FileNames, Parts
<1> QED
    BY <1>1, <1>2, <1>4, <1>5, <1>6, <1>7 DEF OpenFiles, NoFile

\* The first byte of the page that is moved for an address.
Base(a) == (a - (a % PAGE)) % LBA_BYTES

\* It is on the disk even where the lba wraps around; below, it is the page around
\* the address.
LEMMA BaseInDisk ==
    ASSUME NEW at \in Nat, at < DiskSize
    PROVE  /\ Base(at) \in Nat /\ Base(at) + PAGE <= DiskSize
           /\ at < LBA_BYTES => Base(at) = at - (at % PAGE)
<1> DEFINE b == at - (at % PAGE)
<1>1. /\ PAGE \in Nat \ {0} /\ DiskSize \in Nat /\ LBA_BYTES \in Nat \ {0}
    BY DiskAssumption
<1>2. b \in Nat /\ b + PAGE <= DiskSize /\ at % PAGE \in 0 .. PAGE - 1
    BY PageInDisk
<1>3. b <= at
    BY <1>1, <1>2
<1>4. Base(at) = b % LBA_BYTES
    BY DEF Base
<1> HIDE DEF b
<1>5. b % LBA_BYTES \in Nat /\ b % LBA_BYTES <= b
  <2>1. b < LBA_BYTES => b % LBA_BYTES = b
    BY <1>1, <1>2, SmallRemainder
  <2>2. b % LBA_BYTES \in 0 .. LBA_BYTES - 1
    BY <1>1, <1>2, DivMod
  <2> QED
    BY <1>1, <1>2, <2>1, <2>2
<1>6. Base(at) \in Nat /\ Base(at) + PAGE <= DiskSize
    BY <1>1, <1>2, <1>4, <1>5
<1>7. at < LBA_BYTES => Base(at) = b
    BY <1>1, <1>2, <1>3, <1>4, SmallRemainder
<1> QED
    BY <1>6, <1>7 DEF b

\* The page a task reads: what its bytes are.
PageAt(d, a) == [k \in 0 .. PAGE - 1 |-> d[Base(a) + k]]

\* They are bytes of the disk.
LEMMA PageAtType ==
    ASSUME TypeOK, NEW a \in Nat, a < DiskSize
    PROVE  PageAt(disk, a) \in Pages
<1>1. Base(a) \in Nat /\ Base(a) + PAGE <= DiskSize
    BY BaseInDisk
<1> DEFINE b == Base(a)
<1> HIDE DEF b
<1>2. ASSUME NEW k \in 0 .. PAGE - 1 PROVE disk[b + k] \in Nat
  <2>1. b \in Nat /\ b + PAGE <= DiskSize /\ PAGE \in Nat /\ DiskSize \in Nat
    BY <1>1, DiskAssumption DEF b
  <2>2. b + k \in 0 .. DiskSize - 1
    BY <2>1
  <2> QED
    BY <2>2 DEF TypeOK
<1> QED
    BY <1>2 DEF PageAt, Pages, b

\* The bytes a read takes out of the page.
Taken(d, i) == [k \in 1 .. Chunk(i) |-> PageAt(d, i.at)[(i.at % PAGE) + k - 1]]

\* The page with the bytes of a write put into it.
Filled(d, c, i) ==
    [k \in 0 .. PAGE - 1 |-> IF k \in i.at % PAGE .. (i.at % PAGE) + Chunk(i) - 1
                             THEN c.data[i.done + k - (i.at % PAGE) + 1] ELSE PageAt(d, i.at)[k]]

\* Both are made of bytes of the disk and of the buffer.
LEMMA TakenFilledType ==
    ASSUME TypeInv, NEW t \in Tasks, io[t].phase = "readpage"
    PROVE  /\ Taken(disk, io[t]) \in Seq(Nat) /\ Len(Taken(disk, io[t])) = Chunk(io[t])
           /\ call[t].op = "write" => Filled(disk, call[t], io[t]) \in Pages
<1> DEFINE i == io[t]
           c == call[t]
           p == i.at % PAGE
           n == Chunk(i)
<1>1. i \in Locals /\ c \in Calls /\ c # NoCall /\ TypeOK /\ Inside(c, i, filp[t])
    BY WaitingInCall DEF Moving
<1>2. i.left > 0 /\ i.at + i.left <= DiskSize /\ Len(c.data) = c.length /\ i.done + i.left <= c.length
    BY <1>1 DEF Inside, Moving
<1>3. n \in 1 .. i.left /\ n <= PAGE - p /\ p \in 0 .. PAGE - 1
    BY <1>1, <1>2, ChunkType
<1>4. i.at \in Nat /\ i.left \in Nat /\ i.done \in Nat /\ c.length \in Nat /\ c.data \in Seq(Nat)
    BY <1>1 DEF Locals, Calls
<1>5. DiskSize \in Nat /\ PAGE \in Nat
    BY DiskAssumption
<1>6. PageAt(disk, i.at) \in Pages
  <2>1. i.at < DiskSize
    BY <1>2, <1>4, <1>5
  <2> QED
    BY <1>1, <1>4, <2>1, PageAtType
<1> DEFINE page == PageAt(disk, i.at)
<1>7. Taken(disk, i) = [k \in 1 .. n |-> page[p + k - 1]]
    BY DEF Taken
<1>8. Filled(disk, c, i) = [k \in 0 .. PAGE - 1 |-> IF k \in p .. p + n - 1 THEN c.data[i.done + k - p + 1] ELSE page[k]]
    BY DEF Filled
<1> HIDE DEF page, n, p, i, c
<1>9. \A k \in 1 .. n : page[p + k - 1] \in Nat
  <2>1. \A k \in 1 .. n : p + k - 1 \in 0 .. PAGE - 1
    BY <1>3, <1>4, <1>5
  <2> QED
    BY <1>6, <2>1 DEF Pages, page
<1>10. \A k \in p .. p + n - 1 : c.data[i.done + k - p + 1] \in Nat
  <2>1. \A k \in p .. p + n - 1 : i.done + k - p + 1 \in 1 .. c.length
    <3> SUFFICES ASSUME NEW k \in p .. p + n - 1 PROVE i.done + k - p + 1 \in 1 .. c.length
      OBVIOUS
    <3>1. i.done + n <= c.length /\ n \in Nat /\ p \in Nat
      BY <1>2, <1>3, <1>4
    <3> QED
      BY <1>4, <3>1
  <2>2. \A l \in 1 .. c.length : c.data[l] \in Nat
    BY <1>2, <1>4
  <2> QED
    BY <2>1, <2>2
<1>11. Taken(disk, i) \in [1 .. n -> Nat]
    BY <1>7, <1>9
<1>13. n \in Nat
    BY <1>3, <1>4
<1>12. Filled(disk, c, i) \in Pages
    BY <1>6, <1>8, <1>10 DEF Pages, page
<1> QED
    BY <1>11, <1>12, <1>13 DEF n, i, c

\* The device appears, and once the partitions are there they stay.
LEMMA ProbeType ==
    ASSUME TypeInv, Probe
    PROVE  /\ TypeInv' /\ UNCHANGED <<disk, filp, call, io>>
           /\ lba_count' \in {lba_count, DiskSize} /\ probe # "partitions"
<1>1. UNCHANGED <<disk, filp, call, io>> /\ lba_count' \in {lba_count, DiskSize} /\ probe # "partitions"
    BY DEF Probe, nvme_probe_2, IdentifyController, IdentifyNamespace, CreateIocq, CreateIosq, ReadTable,
           nvmepart_probe, Stage
<1>2. TypeOK'
    BY <1>1 DEF TypeInv, TypeOK
<1>3. ASSUME NEW t \in Tasks
      PROVE  Inside(call'[t], io'[t], filp'[t]) /\ Queued(filp'[t], probe')
  <2>1. Inside(call[t], io[t], filp[t]) /\ Queued(filp[t], probe)
    BY DEF TypeInv
  <2> QED
    BY <1>1, <2>1 DEF Queued
<1> QED
    BY <1>1, <1>2, <1>3 DEF TypeInv

\* A call begins inside its buffer and the disk, and with a partition or a file
\* only after these appear.
LEMMA BeginType ==
    ASSUME TypeInv, NEW t \in Tasks, NEW f \in Usable(t), NEW op \in {"read", "write"}, NEW n \in Lengths,
           Begin(t, f, op, n)
    PROVE  TypeInv'
<1> DEFINE c == NewCall(t, f, op, n)
<1>1. /\ c \in Calls /\ Len(c.data) = n /\ c.file = f.file /\ c.length = n
      /\ call' = [call EXCEPT ![t] = c]
    BY BeginForm
<1>10. PICK i \in Locals : Started(c, i) /\ io' = [io EXCEPT ![t] = i]
    BY BeginForm
<1>2. f \in OpenFiles /\ f.file \in FileNames /\ (f.file # "disk" => probe = "partitions")
    BY UsableFile
<1>3. filp' = [filp EXCEPT ![t] = f] /\ UNCHANGED <<disk, probe, lba_count>> /\ TypeOK
    BY DEF Begin, TypeInv
<1>4. First(c).at \in Nat /\ First(c).n \in 0 .. n /\ (First(c).n > 0 => First(c).at + First(c).n <= DiskSize)
    BY <1>1, <1>3, FirstInside
<1>5. c # NoCall
  <2>1. c.op = op /\ NoCall.op = "none"
    BY DEF NewCall, NoCall
  <2> QED
    BY <2>1
<1>6. n \in Nat
    BY DiskAssumption
<1> HIDE DEF c
<1>7. Inside(c, i, f)
    BY <1>1, <1>4, <1>5, <1>6, <1>10 DEF Inside, Moving, Started
<1>8. Queued(f, probe)
    BY <1>2 DEF Queued
<1>9. disk' \in [0 .. DiskSize - 1 -> Nat]
    BY <1>3 DEF TypeOK
<1> QED
    BY <1>1, <1>2, <1>3, <1>7, <1>8, <1>9, <1>10, OneTask

\* Moving bytes keeps a task inside its buffer and the disk.
LEMMA MovedType ==
    ASSUME TypeInv, NEW t \in Tasks, Moving(io[t]), NEW i \in Locals, Moved(t, i, Chunk(i)),
           i.done = io[t].done, i.left = io[t].left, i.at = io[t].at,
           UNCHANGED <<probe, lba_count, call>>, disk' \in [0 .. DiskSize - 1 -> Nat]
    PROVE  TypeInv'
<1> DEFINE c == call[t]
           n == Chunk(i)
<1>1. /\ c \in Calls /\ c # NoCall /\ TypeOK
      /\ Inside(c, io[t], filp[t]) /\ Queued(filp[t], probe)
    BY WaitingInCall
<1>2. i.left > 0 /\ i.at + i.left <= DiskSize /\ i.done + i.left <= c.length
    BY <1>1 DEF Inside
<1>3. n \in 1 .. i.left
    BY <1>2, ChunkType
<1>4. PICK m \in Locals, f \in OpenFiles :
        /\ io' = [io EXCEPT ![t] = m] /\ filp' = [filp EXCEPT ![t] = f]
        /\ f.file = filp[t].file /\ Inside(c, m, f)
    BY <1>1, <1>2, <1>3, MovedInside
<1>5. Queued(f, probe)
    BY <1>1, <1>4 DEF Queued
<1>6. call' = [call EXCEPT ![t] = c] /\ c \in Calls \cup {NoCall}
    BY <1>1 DEF TypeOK
<1> HIDE DEF c
<1> QED
    BY <1>4, <1>5, <1>6, OneTask

\* The page is read.
LEMMA PageReadType ==
    ASSUME TypeInv, NEW t \in Tasks, PageRead(t)
    PROVE  TypeInv'
<1> DEFINE i == io[t]
           c == call[t]
<1>1. /\ i.phase = "readpage" /\ UNCHANGED <<disk, probe, lba_count, call>> /\ Moving(i)
    BY DEF PageRead, Moving
<1>2. /\ i \in Locals /\ c \in Calls /\ TypeOK /\ Inside(c, i, filp[t]) /\ Queued(filp[t], probe)
      /\ filp[t] \in OpenFiles /\ disk' \in [0 .. DiskSize - 1 -> Nat]
    BY <1>1, WaitingInCall DEF TypeOK
<1>3. CASE c.op = "read"
  <2> DEFINE j == [i EXCEPT !.got = @ \o Taken(disk, i)]
  <2>1. Moved(t, j, Chunk(i))
    BY <1>3 DEF PageRead, Taken, PageAt, Base, PageBase
  <2>2. i.got \o Taken(disk, i) \in Seq(Nat)
    BY <1>1, <1>2, TakenFilledType DEF Locals
  <2>3. j \in Locals /\ j.done = i.done /\ j.left = i.left /\ j.at = i.at
    BY <1>2, <2>2 DEF Locals
  <2>4. Chunk(j) = Chunk(i)
    BY <2>3 DEF Chunk
  <2> HIDE DEF j
  <2> QED
    BY <1>1, <1>2, <2>1, <2>3, <2>4, MovedType
<1>4. CASE c.op = "write"
  <2> DEFINE m == [i EXCEPT !.phase = "writepage", !.temp = Filled(disk, c, i)]
  <2>1. io' = [io EXCEPT ![t] = m] /\ filp' = filp
    BY <1>2, <1>4 DEF PageRead, Filled, PageAt, Base, PageBase, TypeOK
  <2>2. Filled(disk, c, i) \in Pages
    BY <1>1, <1>4, TakenFilledType
  <2>3. m \in Locals /\ m.done = i.done /\ m.left = i.left /\ m.at = i.at
        /\ m.phase = "writepage" /\ m.temp \in Pages
    BY <1>2, <2>2 DEF Locals
  <2> HIDE DEF m
  <2>4. Inside(c, m, filp[t]) /\ Queued(filp[t], probe)
    BY <1>1, <1>2, <1>4, <2>3 DEF Inside, Queued, Moving, NoIo
  <2>5. filp' = [filp EXCEPT ![t] = filp[t]] /\ call' = [call EXCEPT ![t] = c]
    BY <1>1, <1>2, <2>1 DEF TypeOK
  <2> HIDE DEF c
  <2> QED
    BY <1>1, <1>2, <2>1, <2>3, <2>4, <2>5, OneTask
<1> QED
    BY <1>2, <1>3, <1>4 DEF Calls

\* The page is written.
LEMMA PageWriteType ==
    ASSUME TypeInv, NEW t \in Tasks, PageWrite(t)
    PROVE  TypeInv'
<1> DEFINE i == io[t]
           base == Base(i.at)
<1>1. /\ i.phase = "writepage" /\ UNCHANGED <<probe, lba_count, call>> /\ Moving(i) /\ Moved(t, i, Chunk(i))
      /\ disk' = [a \in DOMAIN disk |-> IF a \in base .. base + PAGE - 1 THEN i.temp[a - base] ELSE disk[a]]
    BY DEF PageWrite, Moving, PageBase, Base
<1>2. /\ i \in Locals /\ TypeOK /\ Inside(call[t], i, filp[t])
    BY <1>1, WaitingInCall
<1>3. i.temp \in Pages /\ i.at \in Nat /\ i.left \in Nat /\ i.left > 0 /\ i.at + i.left <= DiskSize
    BY <1>1, <1>2 DEF Inside, Locals
<1>4. DiskSize \in Nat /\ PAGE \in Nat
    BY DiskAssumption
<1>5. base \in Nat
  <2>1. i.at < DiskSize
    BY <1>3, <1>4
  <2> QED
    BY <1>3, <2>1, BaseInDisk
<1> HIDE DEF base
<1>6. \A a \in 0 .. DiskSize - 1 : a \in base .. base + PAGE - 1 => i.temp[a - base] \in Nat
  <2>1. \A a \in 0 .. DiskSize - 1 : a \in base .. base + PAGE - 1 => a - base \in 0 .. PAGE - 1
    BY <1>4, <1>5
  <2> QED
    BY <1>3, <2>1 DEF Pages
<1>7. disk' \in [0 .. DiskSize - 1 -> Nat]
    BY <1>1, <1>2, <1>6 DEF TypeOK
<1> QED
    BY <1>1, <1>2, <1>7, MovedType

\* The call returns, or the task is killed: it has no call any more.
LEMMA IdleType ==
    ASSUME TypeInv, NEW t \in Tasks, NEW f \in OpenFiles, f.file \in {"none", filp[t].file},
           call' = [call EXCEPT ![t] = NoCall], io' = [io EXCEPT ![t] = NoIo], filp' = [filp EXCEPT ![t] = f],
           UNCHANGED <<disk, probe, lba_count>>
    PROVE  TypeInv'
<1>1. NoIo \in Locals /\ NoCall \in Calls \cup {NoCall} /\ disk' \in [0 .. DiskSize - 1 -> Nat]
    BY NoIoType DEF TypeInv, TypeOK
<1>2. Inside(NoCall, NoIo, f)
    BY DEF Inside, Moving, NoIo
<1>3. Queued(f, probe)
  <2>1. Queued(filp[t], probe)
    BY DEF TypeInv
  <2> QED
    BY <2>1 DEF Queued, NoIo
<1> QED
    BY <1>1, <1>2, <1>3, OneTask

\* The call returns.
LEMMA ReturnType ==
    ASSUME TypeInv, NEW t \in Tasks, Return(t)
    PROVE  TypeInv' /\ \E f \in OpenFiles : filp' = [filp EXCEPT ![t] = f]
<1> DEFINE i == io[t]
           c == call[t]
<1>1. /\ i.phase = "return" /\ UNCHANGED <<disk, probe, lba_count>>
      /\ call' = [call EXCEPT ![t] = NoCall] /\ io' = [io EXCEPT ![t] = NoIo]
      /\ filp' = IF i.dead THEN [filp EXCEPT ![t] = NoFile]
                 ELSE IF c.file = "exfat" /\ c.op = "read" THEN filp
                 ELSE [filp EXCEPT ![t].offset = @ + i.done]
    BY DEF Return
<1>2. /\ i \in Locals /\ TypeOK /\ filp[t] \in OpenFiles /\ filp[t] \in [file : FileNames, offset : Nat]
    BY <1>1, WaitingInCall
<1>3. \E f \in OpenFiles : f.file \in {"none", filp[t].file} /\ filp' = [filp EXCEPT ![t] = f]
  <2>1. CASE filp' = [filp EXCEPT ![t] = NoFile]
    BY <2>1 DEF OpenFiles, NoFile
  <2>2. CASE filp' = filp
    <3>1. filp' = [filp EXCEPT ![t] = filp[t]]
      BY <1>2, <2>2 DEF TypeOK
    <3> QED
      BY <1>2, <3>1
  <2>3. CASE filp' = [filp EXCEPT ![t].offset = @ + i.done]
    <3> DEFINE f == [filp[t] EXCEPT !.offset = @ + i.done]
    <3>1. filp[t].offset + i.done \in Nat
      BY <1>2 DEF Locals
    <3>2. f \in OpenFiles /\ f.file = filp[t].file
      BY <1>2, <3>1 DEF OpenFiles
    <3>3. filp' = [filp EXCEPT ![t] = f]
      BY <1>2, <2>3 DEF TypeOK
    <3> QED
      BY <3>2, <3>3
  <2> QED
    BY <1>1, <2>1, <2>2, <2>3
<1> QED
    BY <1>1, <1>3, IdleType

\* The task is killed.
LEMMA KilledType ==
    ASSUME TypeInv, NEW t \in Tasks, Killed(t)
    PROVE  TypeInv'
<1>1. CASE io[t].phase = "readpage"
  <2>1. /\ filp' = [filp EXCEPT ![t] = NoFile] /\ call' = [call EXCEPT ![t] = NoCall]
        /\ io' = [io EXCEPT ![t] = NoIo] /\ UNCHANGED <<disk, probe, lba_count>>
    BY <1>1 DEF Killed
  <2>2. NoFile \in OpenFiles /\ NoFile.file = "none"
    BY DEF NoFile, OpenFiles
  <2> QED
    BY <2>1, <2>2, IdleType
<1>2. CASE io[t].phase = "writepage"
  <2> DEFINE i == io[t]
             c == call[t]
             m == [i EXCEPT !.dead = TRUE]
  <2>1. /\ i \in Locals /\ c \in Calls /\ TypeOK /\ Inside(c, i, filp[t]) /\ Queued(filp[t], probe)
        /\ filp[t] \in OpenFiles
    BY <1>2, WaitingInCall DEF Moving
  <2>2. io' = [io EXCEPT ![t].dead = TRUE] /\ UNCHANGED <<disk, probe, lba_count, filp, call>>
    BY <1>2 DEF Killed
  <2>3. io' = [io EXCEPT ![t] = m] /\ filp' = [filp EXCEPT ![t] = filp[t]] /\ call' = [call EXCEPT ![t] = c]
    BY <2>1, <2>2 DEF TypeOK
  <2>4. /\ m \in Locals /\ m.done = i.done /\ m.left = i.left /\ m.at = i.at
        /\ m.phase = i.phase /\ m.temp = i.temp
    BY <2>1 DEF Locals
  <2> HIDE DEF m
  <2>5. Inside(c, m, filp[t]) /\ Queued(filp[t], probe)
    BY <1>2, <2>1, <2>4 DEF Inside, Queued, Moving, NoIo
  <2>6. disk' \in [0 .. DiskSize - 1 -> Nat]
    BY <2>1, <2>2 DEF TypeOK
  <2> HIDE DEF c
  <2> QED
    BY <2>1, <2>2, <2>3, <2>4, <2>5, <2>6, OneTask
<1> QED
    BY <1>1, <1>2 DEF Killed

\* TypeInv holds at first.
LEMMA TypeInitially == Init => TypeInv
<1> SUFFICES ASSUME Init PROVE TypeInv
    OBVIOUS
<1>1. TypeOK
    BY NoIoType, DiskAssumption DEF Init, TypeOK, OpenFiles
<1>2. ASSUME NEW t \in Tasks PROVE Inside(call[t], io[t], filp[t]) /\ Queued(filp[t], probe)
  <2>1. call[t] = NoCall /\ io[t] = NoIo /\ filp[t] = NoFile
    BY DEF Init
  <2> QED
    BY <2>1 DEF Inside, Queued, Moving, NoIo, NoFile
<1> QED
    BY <1>1, <1>2 DEF TypeInv

\* TypeInv is preserved, whatever callers do.
LEMMA TypePreserved == TypeInv /\ [Next]_vars => TypeInv'
<1> SUFFICES ASSUME TypeInv, [Next]_vars PROVE TypeInv'
    OBVIOUS
<1>1. CASE UNCHANGED vars
    BY <1>1 DEF vars, TypeInv, TypeOK
<1>2. CASE Probe
    BY <1>2, ProbeType
<1>3. ASSUME NEW t \in Tasks, NEW f \in Usable(t), NEW op \in {"read", "write"}, NEW n \in Lengths,
             Begin(t, f, op, n)
      PROVE  TypeInv'
    BY <1>3, BeginType
<1>4. ASSUME NEW t \in Tasks, PageRead(t) \/ PageWrite(t) \/ Return(t) \/ Killed(t)
      PROVE  TypeInv'
    BY <1>4, PageReadType, PageWriteType, ReturnType, KilledType
<1> QED
    BY <1>1, <1>2, <1>3, <1>4 DEF Next

\* Every call stays inside its buffer and inside the disk, whatever callers do,
\* and the page it has filled is a whole one.
THEOREM TypeInvariance == Spec => []TypeInv
    BY TypeInitially, TypePreserved, PTL DEF Spec

\* A command that waits in the ring for the queue is the first of a call for the
\* whole disk.
EarlyInv == \A t \in early : t \in Tasks /\ call[t].file = "disk" /\ io[t].phase = "readpage"

\* A step of another task leaves it there, or takes it out.
LEMMA OthersEarly ==
    ASSUME EarlyInv, NEW t \in Tasks, t \notin early', early' \subseteq early,
           \A u \in Tasks \ {t} : call'[u] = call[u] /\ io'[u] = io[u]
    PROVE  EarlyInv'
<1> SUFFICES ASSUME NEW u \in early'
             PROVE  u \in Tasks /\ call'[u].file = "disk" /\ io'[u].phase = "readpage"
    BY DEF EarlyInv
<1>1. u \in early /\ u # t
    OBVIOUS
<1>2. u \in Tasks /\ call[u].file = "disk" /\ io[u].phase = "readpage"
    BY <1>1 DEF EarlyInv
<1> QED
    BY <1>1, <1>2

\* While there is no queue, only the whole disk can be open.
LEMMA BeginEarly ==
    ASSUME TypeInv, EarlyInv, NEW t \in Tasks, NEW f \in Usable(t), NEW op \in {"read", "write"},
           NEW n \in Lengths, Begin(t, f, op, n)
    PROVE  EarlyInv'
<1> DEFINE c == NewCall(t, f, op, n)
<1>1. c.file = f.file /\ call' = [call EXCEPT ![t] = c]
    BY BeginForm
<1>2. PICK i \in Locals : io' = [io EXCEPT ![t] = i]
    BY BeginForm
<1>3. call'[t] = c /\ io'[t] = i /\ \A u \in Tasks \ {t} : call'[u] = call[u] /\ io'[u] = io[u]
    BY <1>1, <1>2 DEF TypeInv, TypeOK
<1>4. t \notin early
  <2>1. call[t] = NoCall /\ Inside(call[t], io[t], filp[t])
    BY DEF Begin, TypeInv
  <2> QED
    BY <2>1 DEF EarlyInv, Inside, NoIo
<1>5. \/ early' = early
      \/ early' = {}
      \/ i.phase = "readpage" /\ ~ QueueExists /\ early' = early \cup {t}
  <2> DEFINE x == exfat_segment(0, c.offset, n)
             j == IF c.file = "exfat" THEN Enter(NoIo, x.k, x) ELSE Enter(NoIo, 0, Device(c.file, c.offset, n))
  <2>2. io' = [io EXCEPT ![t] = j] /\ IF j.phase = "readpage" THEN Submit(t) ELSE UNCHANGED early
    BY DEF Begin, NewCall
  <2> HIDE DEF j
  <2>3. j = i
    BY <1>3, <2>2 DEF TypeInv, TypeOK
  <2> QED
    BY <2>2, <2>3 DEF Submit
<1>6. CASE early' = early \/ early' = {}
    BY <1>3, <1>4, <1>6, OthersEarly
<1>7. CASE i.phase = "readpage" /\ ~ QueueExists /\ early' = early \cup {t}
  <2>1. f.file = "disk"
    BY <1>7, UsableFile DEF QueueExists
  <2> HIDE DEF c
  <2>2. ASSUME NEW u \in early'
        PROVE  u \in Tasks /\ call'[u].file = "disk" /\ io'[u].phase = "readpage"
    BY <1>1, <1>3, <1>7, <2>1 DEF EarlyInv
  <2> QED
    BY <2>2 DEF EarlyInv
<1> QED
    BY <1>5, <1>6, <1>7

\* EarlyInv is preserved.
LEMMA EarlyPreserved == TypeInv /\ EarlyInv /\ [Next]_vars => EarlyInv'
<1> SUFFICES ASSUME TypeInv, EarlyInv, [Next]_vars PROVE EarlyInv'
    OBVIOUS
<1>1. CASE UNCHANGED vars
    BY <1>1 DEF vars, EarlyInv
<1>2. CASE Probe
  <2>1. UNCHANGED <<call, io>> /\ early' \in {early, {}}
    BY <1>2 DEF Probe, nvme_probe_2, IdentifyController, IdentifyNamespace, CreateIocq, CreateIosq, ReadTable,
                nvmepart_probe, Stage
  <2> QED
    BY <2>1 DEF EarlyInv
<1>3. ASSUME NEW t \in Tasks, NEW f \in Usable(t), NEW op \in {"read", "write"}, NEW n \in Lengths,
             Begin(t, f, op, n)
      PROVE  EarlyInv'
    BY <1>3, BeginEarly
<1>4. ASSUME NEW t \in Tasks, PageRead(t) \/ PageWrite(t) \/ Return(t) \/ Killed(t)
      PROVE  EarlyInv'
  <2>1. \A u \in Tasks \ {t} : call'[u] = call[u] /\ io'[u] = io[u]
    BY <1>4 DEF PageRead, PageWrite, Moved, Return, Killed, TypeInv, TypeOK
  <2>2. t \notin early' /\ early' \subseteq early
    BY <1>4 DEF PageRead, PageWrite, Return, Killed, EarlyInv
  <2> QED
    BY <2>1, <2>2, OthersEarly
<1> QED
    BY <1>1, <1>2, <1>3, <1>4 DEF Next

\* nvme_probe_contents: no command for a partition or a file in one is submitted
\* before the I/O queue exists.
THEOREM PartitionsWaitForQueues == Spec => []PartitionsAfterQueues
<1>1. Init => EarlyInv
    BY DEF Init, EarlyInv
<1>2. TypeInv /\ EarlyInv /\ [Next]_vars => EarlyInv'
    BY EarlyPreserved
<1>3. EarlyInv => PartitionsAfterQueues
    BY DEF EarlyInv, PartitionsAfterQueues
<1> QED
    BY <1>1, <1>2, <1>3, TypeInvariance, PTL DEF Spec

-----------------------------------------------------------------------------
(* What a call has moved, when callers keep to what the drivers handle.    *)

Extent(c) == Bytes!Extent(c)

\* The part of the call's extent that the segment is for, and where the segment
\* is: the bytes from i.done on lie one after the other from i.at on.
Aimed(c, i) ==
    /\ i.done + i.left <= Extent(c)
    /\ \A k \in 1 .. i.left : Bytes!Address(c, i.done + k) = i.at + k - 1

\* The segment of a device file is all there is to move; one of an exFAT file
\* goes to the end of its cluster or of the call.
Segmented(c, i, f) ==
    /\ c.file # "exfat" => i.done + i.left = Extent(c)
    /\ c.file = "exfat" => /\ i.k \in DOMAIN Clusters
                           /\ f.offset + i.asked = c.offset + i.done + i.left
                           /\ f.offset + i.asked = i.k * PAGE \/ i.done + i.left = Extent(c)

\* A call is for what an lba can address.
WithinReach(c) == c.file = "disk" => Minimum(c.offset + c.length, DiskSize) <= LBA_BYTES

\* What is true of a call c with the locals i.
Exact(c, i, f, size) ==
    /\ c.offset <= Len(Places[c.file]) /\ WithinReach(c)
    /\ c.ready = TRUE => size = DiskSize
    /\ c.file # "disk" => c.ready = TRUE
    /\ c.file # "exfat" => f.offset = c.offset
    /\ i.done <= Extent(c)
    /\ Moving(i) => Aimed(c, i) /\ Segmented(c, i, f)
    /\ i.phase = "return" /\ i.dead = FALSE =>
         i.done = Extent(c) /\ (c.file = "exfat" => f.offset = c.offset + i.done)

\* A read has as many bytes as it has moved.
Counted(c, i) == c.op = "read" => Len(i.got) = i.done

\* The size of the disk is known before the partitions appear.
SizeKnown == probe \in {"namespace", "iocq", "iosq", "table", "partitions", "no partitions"} =>
                lba_count = DiskSize

\* The page a write is about to write is what is on the disk, but for its bytes.
Fresh(d, c, i) == i.phase = "writepage" => i.temp = Filled(d, c, i)

\* Two tasks do not write to one page.
WritersApart ==
    \A t, u \in Tasks : t # u /\ call[t].op = "write" /\ call[u].op = "write"
                          => PagesOf(call[t]) \cap PagesOf(call[u]) = {}

IInv ==
    /\ TypeInv
    /\ SizeKnown
    /\ WritersApart
    /\ \A t \in Tasks : call[t] # NoCall => Exact(call[t], io[t], filp[t], lba_count) /\ Counted(call[t], io[t])
    /\ \A t \in Tasks : Fresh(disk, call[t], io[t])

\* Where the bytes of the whole disk, of a partition and of the file are.
LEMMA PlacesDisk == /\ Places["disk"] \in Seq(Nat) /\ Len(Places["disk"]) = DiskSize
                    /\ \A a \in 1 .. DiskSize : Places["disk"][a] = a - 1
<1> DEFINE s == [a \in 1 .. DiskSize |-> a - 1]
<1>1. DiskSize \in Nat
    BY DiskAssumption
<1>2. Places["disk"] = s
    BY DEF Places, FileNames
<1>3. s \in [1 .. DiskSize -> Nat]
    BY <1>1
<1>4. \A a \in 1 .. DiskSize : s[a] = a - 1
    OBVIOUS
<1> HIDE DEF s
<1> QED
    BY <1>1, <1>2, <1>3, <1>4

\* A partition is the bytes from its start to its end.
LEMMA PlacesPart ==
    ASSUME NEW p \in Parts
    PROVE  /\ Places[p] \in Seq(Nat) /\ Len(Places[p]) = PartEnd[p] - PartStart[p]
           /\ \A a \in 1 .. PartEnd[p] - PartStart[p] : Places[p][a] = PartStart[p] + a - 1
<1> DEFINE n == PartEnd[p] - PartStart[p]
           s == [a \in 1 .. n |-> PartStart[p] + a - 1]
<1>1. PartStart[p] \in Nat /\ PartEnd[p] \in Nat /\ n \in Nat
    BY DiskAssumption DEF Parts
<1>2. p \notin {"disk", "exfat"}
    BY DiskAssumption DEF Parts
<1>3. Places[p] = s
    BY <1>2 DEF Places, FileNames
<1>4. s \in [1 .. n -> Nat]
    BY <1>1
<1>5. \A a \in 1 .. n : s[a] = PartStart[p] + a - 1
    OBVIOUS
<1> HIDE DEF s, n
<1>6. s \in Seq(Nat) /\ Len(s) = n
    BY <1>1, <1>4
<1> QED
    BY <1>3, <1>5, <1>6 DEF n

\* The file's bytes are in its clusters.
LEMMA PlacesExfat ==
    /\ Len(Places["exfat"]) = file_length
    /\ \A a \in 1 .. file_length :
         Places["exfat"][a] = PartStart[ExfatPart] + Clusters[((a - 1) \div PAGE) + 1] + ((a - 1) % PAGE)
<1> DEFINE s == [a \in 1 .. file_length |->
                   PartStart[ExfatPart] + Clusters[((a - 1) \div PAGE) + 1] + ((a - 1) % PAGE)]
<1>1. file_length \in Nat
    BY DiskAssumption
<1>2. Places["exfat"] = s
    BY DEF Places, FileNames
<1>3. Len(s) = file_length
    BY <1>1
<1>4. \A a \in 1 .. file_length :
        s[a] = PartStart[ExfatPart] + Clusters[((a - 1) \div PAGE) + 1] + ((a - 1) % PAGE)
    OBVIOUS
<1> HIDE DEF s
<1> QED
    BY <1>2, <1>3, <1>4

\* A segment of the file is where the file's next bytes are, and goes to the end
\* of the cluster, of the buffer or of the file.
LEMMA SegmentAimed ==
    ASSUME TypeOK, lba_count = DiskSize, NEW k \in 0 .. Len(Clusters), NEW offset \in 0 .. file_length,
           NEW n \in Nat, offset = k * PAGE \/ (k = 0 /\ offset < PAGE)
    PROVE  LET x == exfat_segment(k, offset, n)
           IN /\ x.n \in 0 .. n /\ offset + x.n <= file_length
              /\ x.n = 0 => n = 0 \/ offset = file_length
              /\ x.n > 0 => /\ x.k \in DOMAIN Clusters
                            /\ offset + x.n = x.k * PAGE \/ x.n = n \/ offset + x.n = file_length
                            /\ \A l \in 1 .. x.n : Places["exfat"][offset + l] = x.at + l - 1
<1> DEFINE x == exfat_segment(k, offset, n)
           kp == k * PAGE
           po == offset - kp
           rest == (k + 1) * PAGE - offset
           rem == file_length - offset
           bytes == Bounded(n, rest, rem)
           start == PartStart[ExfatPart]
           cl == Clusters[k + 1]
<1>1. /\ PAGE \in Nat \ {0} /\ file_length \in Nat /\ Clusters \in Seq(Nat) /\ start \in Nat
    BY DiskAssumption
<1>2. /\ rest \in Nat \ {0} /\ bytes \in Nat /\ x.n = bytes
      /\ bytes > 0 => k + 1 \in DOMAIN Clusters /\ x.k = k + 1 /\ x.at = start + cl + po
    BY NextCluster
<1>3. kp \in Nat /\ (k + 1) * PAGE = kp + PAGE /\ k \in Nat /\ offset \in Nat /\ offset <= file_length
    BY <1>1
<1>4. po \in 0 .. PAGE - 1
    BY <1>1, <1>3
<1>5. rest = PAGE - po
    BY <1>1, <1>3
<1>6. rem \in Nat
    BY <1>1, <1>3
<1> HIDE DEF rest, x
<1>7. /\ bytes <= n /\ bytes <= rest /\ bytes <= rem
      /\ bytes \in {n, rest, rem}
    BY <1>2, <1>6 DEF Bounded, Minimum
<1> HIDE DEF bytes
<1>8. offset + bytes <= file_length /\ (bytes = 0 => n = 0 \/ offset = file_length)
    BY <1>1, <1>2, <1>3, <1>7
<1>9. (bytes = rest => offset + bytes = (k + 1) * PAGE) /\ (bytes = rem => offset + bytes = file_length)
    BY <1>1, <1>2, <1>3, <1>7 DEF rest
<1>10. ASSUME bytes > 0, NEW l \in 1 .. bytes PROVE Places["exfat"][offset + l] = x.at + l - 1
  <2> DEFINE r == po + (l - 1)
             b == (offset + l) - 1
  <2>1. r \in 0 .. PAGE - 1
    <3> HIDE DEF po
    <3> QED
      BY <1>1, <1>2, <1>4, <1>5, <1>7
  <2>2. b = kp + r /\ offset + l \in 1 .. file_length
    <3> HIDE DEF kp
    <3> QED
      BY <1>1, <1>2, <1>3, <1>8
  <2> HIDE DEF b, r
  <2>3. b \div PAGE = k /\ b % PAGE = r
    BY <1>1, <1>3, <2>1, <2>2, DivUnique
  <2>4. Places["exfat"][offset + l] = start + Clusters[k + 1] + r
    BY <2>2, <2>3, PlacesExfat DEF b
  <2>5. cl \in Nat /\ x.at = start + cl + po
    BY <1>1, <1>2, <1>10
  <2> HIDE DEF start, cl, po
  <2>6. start + cl + r = start + cl + po + l - 1
    BY <1>1, <1>2, <1>4, <2>5 DEF r
  <2> QED
    BY <2>4, <2>5, <2>6 DEF cl
<1> QED
    BY <1>2, <1>7, <1>8, <1>9, <1>10 DEF x

\* Files are sequences of places, so their sizes are numbers.
LEMMA FileSize ==
    ASSUME NEW f \in FileNames
    PROVE  Len(Places[f]) \in Nat
<1>1. CASE f = "disk"
    BY <1>1, PlacesDisk, DiskAssumption
<1>2. CASE f = "exfat"
    BY <1>2, PlacesExfat, DiskAssumption
<1>3. CASE f \in Parts
    BY <1>3, PlacesPart
<1> QED
    BY <1>1, <1>2, <1>3 DEF FileNames

\* A call that begins inside its file is for the rest of its buffer or file.
LEMMA ExtentSpec ==
    ASSUME NEW c \in Calls, c.offset <= Len(Places[c.file])
    PROVE  /\ Extent(c) \in Nat /\ Extent(c) <= c.length
           /\ c.ready = TRUE => Extent(c) = Minimum(c.length, Len(Places[c.file]) - c.offset)
           /\ c.ready = FALSE => Extent(c) = 0
<1>1. c.file \in FileNames /\ c.offset \in Nat /\ c.length \in Nat /\ c.ready \in BOOLEAN
    BY DEF Calls
<1> DEFINE L == Len(Places[c.file])
<1>2. L \in Nat
    BY <1>1, FileSize
<1>3. Extent(c) = IF ~ c.ready THEN 0 ELSE IF c.length < L - c.offset THEN c.length ELSE L - c.offset
    BY DEF Extent, Bytes!Extent
<1> HIDE DEF L
<1>4. c.offset <= L
    BY DEF L
<1> QED
    BY <1>1, <1>2, <1>3, <1>4 DEF Minimum, L

\* The size of the disk is not zero.
LEMMA DiskNotEmpty == DiskSize \in Nat \ {0}
<1>1. DiskSize \in Nat /\ ExfatPart \in Parts
    BY DiskAssumption DEF Parts
<1>2. PartStart[ExfatPart] \in Nat /\ PartEnd[ExfatPart] \in Nat
    BY DiskAssumption
<1>3. PartStart[ExfatPart] < PartEnd[ExfatPart] /\ PartEnd[ExfatPart] <= DiskSize
    BY <1>1, DiskAssumption DEF Parts
<1> QED
    BY <1>1, <1>2, <1>3

\* The first segment of a call on a device file is the whole call.
LEMMA DeviceAimed ==
    ASSUME TypeOK, NEW c \in Calls, c.offset <= Len(Places[c.file]), c.file # "exfat",
           c.ready = (lba_count # 0), c.file # "disk" => lba_count = DiskSize
    PROVE  /\ First(c).n = Extent(c)
           /\ \A k \in 1 .. First(c).n : Bytes!Address(c, k) = First(c).at + k - 1
<1> DEFINE o == c.offset
           n == c.length
           s == First(c)
<1>1. c.file \in FileNames /\ o \in Nat /\ n \in Nat
    BY DEF Calls
<1>2. DiskSize \in Nat \ {0} /\ lba_count \in {0, DiskSize}
    BY DiskNotEmpty DEF TypeOK
<1>3. \A k : Bytes!Address(c, k) = Places[c.file][o + k]
    BY DEF Bytes!Address
<1>4. /\ lba_count # 0 => Extent(c) = Minimum(n, Len(Places[c.file]) - o)
      /\ lba_count = 0 => Extent(c) = 0
    BY ExtentSpec
<1>5. CASE c.file = "disk"
  <2>1. s.at = o /\ s.n = Minimum(n, IF lba_count - o < 0 THEN 0 ELSE lba_count - o)
    BY <1>5 DEF First, Device, Clamped
  <2>2. Len(Places[c.file]) = DiskSize /\ o <= DiskSize
    BY <1>5, PlacesDisk
  <2> HIDE DEF o, n, s
  <2>3. s.n = Extent(c)
    BY <1>1, <1>2, <1>4, <2>1, <2>2 DEF Minimum
  <2>4. ASSUME NEW k \in 1 .. s.n PROVE Places[c.file][o + k] = s.at + k - 1
    <3>1. o + k \in 1 .. DiskSize
      BY <1>1, <1>2, <2>1, <2>2 DEF Minimum
    <3>2. Places[c.file][o + k] = (o + k) - 1
      BY <1>5, <3>1, PlacesDisk
    <3> QED
      BY <1>1, <2>1, <3>2
  <2> QED
    BY <1>3, <2>3, <2>4 DEF s
<1>6. CASE c.file # "disk"
  <2> DEFINE p == c.file
             size == PartEnd[p] - PartStart[p]
  <2>1. p \in Parts
    BY <1>1, <1>6 DEF FileNames
  <2>2. s = nvmepart(p, o, n)
    BY <1>6 DEF First, Device
  <2>3. Len(Places[p]) = size /\ o <= size
    BY <2>1, PlacesPart
  <2>4. lba_count = DiskSize /\ lba_count # 0
    BY <1>2, <1>6
  <2> HIDE DEF o, n, s
  <2>5. /\ PartStart[p] \in Nat /\ PartEnd[p] \in Nat /\ s.at = o + PartStart[p]
        /\ s.n = Minimum(n, PartEnd[p] - PartStart[p] - o)
    BY <1>1, <2>1, <2>2, <2>3, <2>4, PartInside
  <2>6. s.n = Extent(c)
    BY <1>4, <2>3, <2>4, <2>5
  <2>7. ASSUME NEW k \in 1 .. s.n PROVE Places[p][o + k] = s.at + k - 1
    <3> HIDE DEF p
    <3>1. o + k \in 1 .. size
      BY <1>1, <2>3, <2>5 DEF Minimum
    <3>2. Places[p][o + k] = PartStart[p] + (o + k) - 1
      BY <2>1, <3>1, PlacesPart
    <3> QED
      BY <1>1, <2>5, <3>2
  <2> QED
    BY <1>3, <2>6, <2>7 DEF s
<1> QED
    BY <1>5, <1>6

\* The locals m have been set by Enter to a segment x.
Entered(m, x) ==
    /\ m.at = x.at /\ m.left = x.n /\ m.asked = x.n /\ m.k = x.k
    /\ m.phase = IF x.n = 0 THEN "return" ELSE "readpage"

\* The next segment of an exFAT file goes on where the last one ended, until the
\* call is done.
LEMMA SegmentExact ==
    ASSUME TypeOK, lba_count = DiskSize, NEW c \in Calls, c.file = "exfat", c.ready = TRUE,
           c.offset <= Len(Places[c.file]), NEW m \in Locals, m.done <= Extent(c),
           NEW f, f.offset = c.offset + m.done, NEW k \in 0 .. Len(Clusters),
           f.offset = k * PAGE \/ (k = 0 /\ f.offset < PAGE) \/ m.done = Extent(c),
           Entered(m, exfat_segment(k, f.offset, c.length - m.done))
    PROVE  /\ m.done + m.left <= Extent(c)
           /\ Moving(m) => Aimed(c, m) /\ Segmented(c, m, f)
           /\ m.phase = "return" => m.done = Extent(c)
<1> DEFINE o == c.offset
           d == m.done
           E == Extent(c)
           n == c.length - d
           off == o + d
           x == exfat_segment(k, off, n)
<1>1. o \in Nat /\ c.length \in Nat /\ d \in Nat /\ file_length \in Nat /\ Clusters \in Seq(Nat)
    BY DiskAssumption DEF Calls, Locals
<1>2. Len(Places[c.file]) = file_length /\ o <= file_length
    BY PlacesExfat
<1>3. E \in Nat /\ E <= c.length /\ E = Minimum(c.length, file_length - o)
    BY <1>2, ExtentSpec
<1>4. f.offset = off /\ Entered(m, x)
    OBVIOUS
<1>5. n \in Nat /\ off \in 0 .. file_length
    BY SMTT(30), <1>1, <1>2, <1>3 DEF Minimum
<1>6. \A l : Bytes!Address(c, l) = Places["exfat"][o + l]
    BY DEF Bytes!Address
<1>7. CASE off = k * PAGE \/ (k = 0 /\ off < PAGE)
  <2>1. /\ x.n \in 0 .. n /\ off + x.n <= file_length
        /\ x.n = 0 => n = 0 \/ off = file_length
        /\ x.n > 0 => /\ x.k \in DOMAIN Clusters
                      /\ off + x.n = x.k * PAGE \/ x.n = n \/ off + x.n = file_length
                      /\ \A l \in 1 .. x.n : Places["exfat"][off + l] = x.at + l - 1
    BY <1>5, <1>7, SegmentAimed
  <2> DEFINE xn == x.n
  <2> HIDE DEF x, E, o, d
  <2>2. d + xn <= E /\ (xn = 0 => d = E) /\ (xn = n => d + xn = E) /\ (off + xn = file_length => d + xn = E)
    <3>1. xn \in Nat /\ xn <= n /\ off + xn <= file_length /\ (xn = 0 => n = 0 \/ off = file_length)
      BY <1>5, <2>1
    <3> HIDE DEF xn
    <3>2. d <= E
      BY DEF d, E
    <3> DEFINE len == c.length
    <3>3. /\ len \in Nat /\ n = len - d /\ off = o + d /\ E \in Nat
          /\ E = IF len < file_length - o THEN len ELSE file_length - o
      BY <1>1, <1>3 DEF Minimum
    <3> HIDE DEF len, n, off
    <3>4. d + xn <= E
      BY <1>1, <1>2, <3>1, <3>3
    <3>5. xn = 0 => d = E
      BY <1>1, <1>2, <3>1, <3>2, <3>3
    <3>6. (xn = n => d + xn = E) /\ (off + xn = file_length => d + xn = E)
      BY <1>1, <1>2, <3>1, <3>3
    <3> QED
      BY <3>4, <3>5, <3>6
  <2>3. m.left = xn /\ m.asked = xn /\ m.k = x.k /\ m.at = x.at /\ (Moving(m) <=> xn # 0)
        /\ (m.phase = "return" <=> xn = 0)
    BY <1>4 DEF Entered, Moving
  <2>4. xn \in Nat
    BY <1>5, <2>1
  <2>5. ASSUME xn # 0 PROVE Aimed(c, m)
    <3>1. xn > 0
      BY <2>4, <2>5
    <3>2. ASSUME NEW l \in 1 .. xn PROVE Bytes!Address(c, d + l) = x.at + l - 1
      <4>1. o + (d + l) = off + l
        BY <1>1
      <4>2. Places["exfat"][off + l] = x.at + l - 1
        BY <2>1, <3>1
      <4> QED
        BY <1>6, <4>1, <4>2
    <3> QED
      BY <2>2, <2>3, <3>2 DEF Aimed, d, E
  <2>6. ASSUME xn # 0 PROVE Segmented(c, m, f)
    <3>1. x.k \in DOMAIN Clusters /\ (off + xn = x.k * PAGE \/ xn = n \/ off + xn = file_length)
      BY <2>1, <2>4, <2>6
    <3>2. f.offset + m.asked = off + xn /\ f.offset + m.asked = o + d + m.left
      BY <1>4, <2>3
    <3>3. off + xn = x.k * PAGE \/ d + xn = E
      BY <2>2, <3>1
    <3> QED
      BY <2>3, <3>1, <3>2, <3>3 DEF Segmented, d, E, o
  <2> QED
    BY <2>2, <2>3, <2>5, <2>6 DEF d, E
<1>8. CASE d = E
  <2>1. n = 0 \/ off = file_length
    <3> HIDE DEF E, o, d
    <3> QED
      BY <1>1, <1>2, <1>3, <1>8 DEF Minimum
  <2>2. x.n = 0
    <3>1. k \in Nat /\ off \in Nat
      BY <1>1, <1>5
    <3> QED
      BY <1>5, <2>1, <3>1, NothingLeft
  <2> HIDE DEF x
  <2> QED
    BY <1>1, <1>3, <1>4, <1>8, <2>2 DEF Entered, Moving
<1> QED
    BY <1>4, <1>7, <1>8

\* A call that keeps to what the drivers handle begins right.
LEMMA StartExact ==
    ASSUME IInv, Careful, NEW t \in Tasks, NEW f \in Usable(t), NEW op \in {"read", "write"}, NEW n \in Lengths,
           Begin(t, f, op, n), NEW i \in Locals, Started(NewCall(t, f, op, n), i)
    PROVE  Exact(NewCall(t, f, op, n), i, f, lba_count) /\ Counted(NewCall(t, f, op, n), i)
<1> DEFINE c == NewCall(t, f, op, n)
<1>1. TypeInv /\ TypeOK /\ SizeKnown
    BY DEF IInv, TypeInv
<1>2. /\ c \in Calls /\ Len(c.data) = n /\ c.file = f.file /\ c.offset = f.offset /\ c.length = n
    BY <1>1, BeginForm
<1>3. c.ready = (lba_count # 0)
    BY DEF NewCall
<1>4. ~ CallersAvoid(t, c)
    BY DEF Begin, NewCall
<1>5. DiskSize \in Nat \ {0} /\ lba_count \in {0, DiskSize} /\ PAGE \in Nat
    BY <1>1, DiskNotEmpty, DiskAssumption DEF TypeOK
<1>6. f.file # "disk" => lba_count = DiskSize
    BY <1>1, UsableFile DEF SizeKnown
<1> HIDE DEF c
<1>7. c.offset \in Nat /\ c.file \in FileNames /\ c.length \in Nat
    BY <1>2 DEF Calls
<1>8. c.offset <= Len(Places[c.file]) /\ (c.file = "exfat" => c.offset < PAGE) /\ WithinReach(c)
  <2>1. Len(Places[c.file]) \in Nat
    BY <1>7, FileSize
  <2>2. c.offset <= Len(Places[c.file]) /\ (c.file = "exfat" => c.offset < PAGE)
    BY <1>4, <1>5, <1>7, <2>1 DEF CallersAvoid
  <2>3. LBA_BYTES \in Nat /\ Minimum(c.offset + c.length, DiskSize) \in Nat
    BY <1>5, <1>7, DiskAssumption DEF Minimum
  <2>4. WithinReach(c)
    BY <1>4, <2>3 DEF CallersAvoid, WithinReach
  <2> QED
    BY <2>2, <2>4
<1>9. (c.ready = TRUE => lba_count = DiskSize) /\ (c.file # "disk" => c.ready = TRUE)
    BY <1>2, <1>3, <1>5, <1>6
<1>10. Extent(c) \in Nat
    BY <1>2, <1>8, ExtentSpec
<1>11. i.done = 0 /\ Len(i.got) = i.done /\ i.done <= Extent(c) /\ i.left \in Nat
  <2>1. i.done = 0 /\ i.got = <<>>
    BY DEF Started, c
  <2> QED
    BY <1>10, <2>1 DEF Locals
<1>12. CASE c.file # "exfat"
  <2>1. /\ First(c).n = Extent(c)
        /\ \A k \in 1 .. First(c).n : Bytes!Address(c, k) = First(c).at + k - 1
    BY <1>1, <1>2, <1>3, <1>6, <1>8, <1>12, DeviceAimed
  <2>2. /\ i.at = First(c).at /\ i.left = First(c).n
        /\ i.phase = IF First(c).n = 0 THEN "return" ELSE "readpage"
    BY DEF Started, c
  <2>3. \A k \in 1 .. i.left : i.done + k = k
    BY <1>11
  <2>4. Aimed(c, i) /\ Segmented(c, i, f)
    BY <1>10, <1>11, <1>12, <2>1, <2>2, <2>3 DEF Aimed, Segmented
  <2>5. i.phase = "return" => i.done = Extent(c)
    BY <1>11, <2>1, <2>2
  <2> QED
    BY <1>2, <1>8, <1>9, <1>11, <1>12, <2>4, <2>5 DEF Exact, Counted, c
<1>13. CASE c.file = "exfat"
  <2>1. c.ready = TRUE /\ lba_count = DiskSize
    BY <1>9, <1>13
  <2>2. c.length - i.done = c.length /\ f.offset = c.offset + i.done /\ f.offset < PAGE
    BY <1>2, <1>7, <1>8, <1>11, <1>13
  <2>3. Entered(i, exfat_segment(0, f.offset, c.length - i.done))
    BY <1>2, <1>13, <2>2 DEF Started, First, Entered, c
  <2>4. 0 \in 0 .. Len(Clusters)
    BY DiskAssumption
  <2>5. /\ Moving(i) => Aimed(c, i) /\ Segmented(c, i, f)
        /\ i.phase = "return" => i.done = Extent(c)
    BY <1>1, <1>2, <1>8, <1>11, <1>13, <2>1, <2>2, <2>3, <2>4, SegmentExact
  <2> QED
    BY <1>2, <1>8, <1>9, <1>11, <1>13, <2>2, <2>5 DEF Exact, Counted, c
<1> QED
    BY <1>11, <1>12, <1>13 DEF c, Counted

\* Moving n bytes leaves a task where the next bytes of the call are, or done.
LEMMA MovedExact ==
    ASSUME TypeOK, NEW c \in Calls, NEW i \in Locals, NEW n \in 1 .. i.left, NEW g \in [file : FileNames, offset : Nat],
           NEW m \in Locals, NEW f \in OpenFiles, Exact(c, i, g, lba_count), Moving(i),
           \/ Stays(i, n, m) /\ f = g
           \/ Follows(c, i, n, f.offset, m) /\ f = [g EXCEPT !.offset = @ + i.asked]
           \/ Finishes(c, i, n, m) /\ f = g
    PROVE  Exact(c, m, f, lba_count)
<1> DEFINE E == Extent(c)
           j == Advanced(i, n)
<1>1. /\ c.offset <= Len(Places[c.file]) /\ WithinReach(c)
      /\ c.ready = TRUE => lba_count = DiskSize
      /\ c.file # "disk" => c.ready = TRUE
      /\ c.file # "exfat" => g.offset = c.offset
      /\ Aimed(c, i) /\ Segmented(c, i, g)
    BY DEF Exact
<1>2. E \in Nat
    BY <1>1, ExtentSpec
<1>3. /\ i.done \in Nat /\ i.at \in Nat /\ i.left \in Nat /\ i.asked \in Nat /\ n \in Nat /\ n <= i.left
      /\ c.offset \in Nat /\ g.offset \in Nat /\ c.length \in Nat
    BY SMTT(30) DEF Locals, Calls
<1>4. /\ j \in Locals /\ j.done = i.done + n /\ j.at = i.at + n /\ j.left = i.left - n
      /\ j.phase = "readpage" /\ j.k = i.k /\ j.asked = i.asked /\ j.dead = i.dead
    BY AdvancedSets
<1>5. i.done + i.left <= E /\ \A k \in 1 .. i.left : Bytes!Address(c, i.done + k) = i.at + k - 1
    BY <1>1 DEF Aimed
<1>6. i.done + n <= E
    BY <1>2, <1>3, <1>5
<1>7. CASE Stays(i, n, m) /\ f = g
  <2>1. m = j /\ i.left - n > 0
    BY <1>7 DEF Stays
  <2> HIDE DEF j, E
  <2>2. m.done + m.left = i.done + i.left
    BY <1>3, <1>4, <2>1
  <2>3. ASSUME NEW k \in 1 .. m.left PROVE Bytes!Address(c, m.done + k) = m.at + k - 1
    <3>1. n + k \in 1 .. i.left /\ i.done + (n + k) = m.done + k /\ i.at + (n + k) - 1 = m.at + k - 1
      BY <1>3, <1>4, <2>1
    <3> QED
      BY <1>5, <3>1
  <2>4. Aimed(c, m)
    BY <1>5, <2>2, <2>3 DEF Aimed, E
  <2>5. c.offset + i.done + i.left = c.offset + m.done + m.left
    BY <1>3, <1>4, <2>1
  <2>6. Segmented(c, m, f)
    BY <1>1, <1>4, <1>7, <2>1, <2>2, <2>5 DEF Segmented
  <2> QED
    BY <1>1, <1>4, <1>6, <1>7, <2>1, <2>4, <2>6 DEF Exact, E
<1>8. CASE Finishes(c, i, n, m) /\ f = g
  <2>1. m = [j EXCEPT !.phase = "return"] /\ (i.dead = TRUE \/ (i.left = n /\ c.file # "exfat"))
    BY <1>8 DEF Finishes
  <2>2. m.done = i.done + n /\ m.phase = "return" /\ m.dead = i.dead
    BY <1>4, <2>1 DEF Locals
  <2>3. m.dead = FALSE => m.done = E /\ c.file # "exfat"
    BY <1>1, <2>1, <2>2 DEF Segmented
  <2> QED
    BY <1>1, <1>6, <1>8, <2>2, <2>3 DEF Exact, Moving
<1>9. CASE Follows(c, i, n, f.offset, m) /\ f = [g EXCEPT !.offset = @ + i.asked]
  <2> DEFINE x == exfat_segment(i.k, f.offset, c.length - (i.done + n))
  <2>1. i.left = n /\ i.dead = FALSE /\ c.file = "exfat" /\ m = Enter(j, x.k, x)
    BY <1>9 DEF Follows, Following
  <2>2. /\ i.k \in DOMAIN Clusters /\ g.offset + i.asked = c.offset + i.done + i.left
        /\ g.offset + i.asked = i.k * PAGE \/ i.done + i.left = E
    BY <1>1, <2>1 DEF Segmented
  <2>3. f.offset = g.offset + i.asked
    BY <1>9
  <2>4. i.k \in 0 .. Len(Clusters) /\ i.k \in Nat /\ f.offset \in Nat /\ c.length - (i.done + n) \in Nat
    <3>1. Clusters \in Seq(Nat)
      BY DiskAssumption
    <3>2. E <= c.length
      BY <1>1, ExtentSpec
    <3>3. i.k \in 1 .. Len(Clusters) /\ Len(Clusters) \in Nat
      BY <2>2, <3>1
    <3> HIDE DEF E
    <3>4. f.offset \in Nat
      BY <1>3, <2>3
    <3>5. c.length - (i.done + n) \in Nat
      <4> DEFINE len == c.length
                 d == i.done
      <4>1. len \in Nat /\ d \in Nat /\ E <= len /\ d + n <= E
        BY <1>3, <1>6, <3>2
      <4> HIDE DEF len, d
      <4>2. len - (d + n) \in Nat
        BY <1>2, <1>3, <4>1
      <4> QED
        BY <4>2 DEF len, d
    <3> QED
      BY <3>3, <3>4, <3>5
  <2>5. x.k \in Nat /\ x.at \in Nat /\ x.n \in Nat
    BY <2>4, SegmentInside
  <2> HIDE DEF x, j
  <2>6. m.done = j.done /\ m.dead = j.dead /\ Entered(m, x)
    BY <1>4, <2>1, <2>5 DEF Enter, Entered, Locals
  <2>7. m.done = i.done + n /\ m.done = i.done + i.left /\ f.offset = c.offset + m.done
    BY <1>3, <1>4, <2>1, <2>2, <2>3, <2>6
  <2>8. Entered(m, exfat_segment(i.k, f.offset, c.length - m.done))
    BY <2>6, <2>7 DEF x
  <2>9. m.done <= Extent(c)
    BY <1>6, <2>7
  <2>10. f.offset = i.k * PAGE \/ m.done = Extent(c)
    BY <2>2, <2>3, <2>7
  <2>11. lba_count = DiskSize /\ c.ready = TRUE
    BY <1>1, <2>1
  <2>12. /\ Moving(m) => Aimed(c, m) /\ Segmented(c, m, f)
         /\ m.phase = "return" => m.done = Extent(c)
    BY <1>1, <2>1, <2>4, <2>7, <2>8, <2>9, <2>10, <2>11, SegmentExact
  <2> QED
    BY <1>1, <2>1, <2>7, <2>9, <2>12 DEF Exact
<1> QED
    BY <1>7, <1>8, <1>9

\* A step of one task keeps the invariant, if it leaves that task right and the
\* pages others are about to write alone.
LEMMA OneTaskExact ==
    ASSUME IInv, TypeInv', NEW t \in Tasks, NEW c, NEW i, NEW f,
           call' = [call EXCEPT ![t] = c], io' = [io EXCEPT ![t] = i], filp' = [filp EXCEPT ![t] = f],
           UNCHANGED <<probe, lba_count>>, WritersApart',
           c # NoCall => Exact(c, i, f, lba_count) /\ Counted(c, i),
           Fresh(disk', c, i), \A u \in Tasks \ {t} : Fresh(disk', call[u], io[u])
    PROVE  IInv'
<1>1. SizeKnown'
    BY DEF IInv, SizeKnown
<1>2. ASSUME NEW u \in Tasks
      PROVE  /\ call'[u] # NoCall => Exact(call'[u], io'[u], filp'[u], lba_count') /\ Counted(call'[u], io'[u])
             /\ Fresh(disk', call'[u], io'[u])
  <2>1. CASE u = t
    <3>1. call'[u] = c /\ io'[u] = i /\ filp'[u] = f
      BY <2>1 DEF IInv, TypeInv, TypeOK
    <3> QED
      BY <3>1
  <2>2. CASE u # t
    <3>1. call'[u] = call[u] /\ io'[u] = io[u] /\ filp'[u] = filp[u]
      BY <2>2 DEF IInv, TypeInv, TypeOK
    <3>2. call[u] # NoCall => Exact(call[u], io[u], filp[u], lba_count) /\ Counted(call[u], io[u])
      BY DEF IInv
    <3> QED
      BY <2>2, <3>1, <3>2
  <2> QED
    BY <2>1, <2>2
<1> QED
    BY <1>1, <1>2 DEF IInv

\* Writers are kept apart by what they were when they began.
LEMMA StillApart ==
    ASSUME IInv, NEW t \in Tasks, NEW c, c.op # "write" \/ c = call[t], call' = [call EXCEPT ![t] = c]
    PROVE  WritersApart'
<1>1. ASSUME NEW u \in Tasks, NEW v \in Tasks, u # v, call'[u].op = "write", call'[v].op = "write"
      PROVE  PagesOf(call'[u]) \cap PagesOf(call'[v]) = {}
  <2>1. call'[u] = call[u] /\ call'[v] = call[v]
    BY <1>1 DEF IInv, TypeInv, TypeOK
  <2> QED
    BY <1>1, <2>1 DEF IInv, WritersApart
<1> QED
    BY <1>1 DEF WritersApart, PagesOf

\* What lies in a partition, an lba can address.
LEMMA PartsWithinReach ==
    ASSUME NEW file \in FileNames, file # "disk", NEW a \in 1 .. Len(Places[file])
    PROVE  Places[file][a] < LBA_BYTES
<1>1. /\ LBA_BYTES \in Nat /\ PAGE \in Nat \ {0} /\ file_length \in Nat /\ ExfatPart \in Parts
      /\ Clusters \in Seq(Nat) /\ file_length <= PAGE * Len(Clusters)
      /\ \A k \in DOMAIN Clusters : Clusters[k] + PAGE <= PartEnd[ExfatPart] - PartStart[ExfatPart]
      /\ \A p \in Parts : PartStart[p] \in Nat /\ PartEnd[p] \in Nat /\ PartStart[p] < PartEnd[p]
                         /\ PartEnd[p] <= LBA_BYTES
    BY DiskAssumption DEF Parts
<1>2. CASE file \in Parts
  <2> DEFINE s == PartStart[file]
             e == PartEnd[file]
  <2>1. s \in Nat /\ e \in Nat /\ s < e /\ e <= LBA_BYTES
    BY <1>1, <1>2
  <2>2. Len(Places[file]) = e - s /\ \A b \in 1 .. e - s : Places[file][b] = s + b - 1
    BY <1>2, PlacesPart
  <2> HIDE DEF s, e
  <2>3. a \in 1 .. e - s /\ Places[file][a] = s + a - 1
    BY <2>2
  <2> QED
    BY <1>1, <2>1, <2>3
<1>3. CASE file = "exfat"
  <2> DEFINE q == (a - 1) \div PAGE
             o == (a - 1) % PAGE
             len == Len(Clusters)
             s == PartStart[ExfatPart]
             e == PartEnd[ExfatPart]
  <2>1. a \in 1 .. file_length /\ Places["exfat"][a] = s + Clusters[q + 1] + o
    BY <1>3, PlacesExfat
  <2>2. q \in Nat /\ o \in 0 .. PAGE - 1 /\ a - 1 = q * PAGE + o
    <3> DEFINE n == a - 1
    <3>1. n \in Nat
      BY <1>1, <2>1
    <3> HIDE DEF n
    <3>2. n \div PAGE \in Nat /\ n % PAGE \in 0 .. PAGE - 1 /\ n = (n \div PAGE) * PAGE + (n % PAGE)
      BY <1>1, <3>1, DivMod
    <3> QED
      BY <3>2 DEF n
  <2>10. ExfatPart \in Parts /\ Clusters \in Seq(Nat)
    BY <1>1
  <2>3. len \in Nat /\ file_length <= PAGE * len /\ s \in Nat /\ e \in Nat /\ e <= LBA_BYTES
    <3>1. len \in Nat /\ file_length <= PAGE * len
      BY <1>1, <2>10
    <3>2. s \in Nat /\ e \in Nat /\ e <= LBA_BYTES
      BY <1>1
    <3> QED
      BY <3>1, <3>2
  <2> HIDE DEF q, o, s, e, len
  <2>4. q + 1 \in 1 .. len
    <3> DEFINE x == q * PAGE
               y == len * PAGE
    <3>1. x \in Nat /\ y \in Nat /\ PAGE * len = y /\ a - 1 = x + o
      BY <1>1, <2>2, <2>3
    <3> HIDE DEF x, y
    <3>4. x < y
      BY <1>1, <2>1, <2>2, <2>3, <3>1
    <3>2. q * PAGE < len * PAGE
      BY <3>4 DEF x, y
    <3>3. q < len
      BY <1>1, <2>2, <2>3, <3>2, FewerMultiples
    <3> QED
      BY <2>2, <2>3, <3>3
  <2>5. Clusters[q + 1] \in Nat /\ Clusters[q + 1] + PAGE <= e - s
    BY <1>1, <2>4 DEF len, e, s
  <2> DEFINE d == Clusters[q + 1]
  <2> HIDE DEF d
  <2>8. d \in Nat /\ d + PAGE <= e - s
    BY <2>5 DEF d
  <2>6. s + d + o < LBA_BYTES
    BY <1>1, <2>2, <2>3, <2>8
  <2>9. Places["exfat"][a] = s + d + o
    BY <2>1 DEF d
  <2>7. Places["exfat"][a] < LBA_BYTES
    BY <2>6, <2>9
  <2> QED
    BY <1>3, <2>7
<1> QED
    BY <1>2, <1>3 DEF FileNames

\* The page a call is at is one of its pages, and an lba can address it.
LEMMA AtOwnPage ==
    ASSUME TypeInv, NEW t \in Tasks, Moving(io[t]), Exact(call[t], io[t], filp[t], lba_count)
    PROVE  io[t].at \div PAGE \in PagesOf(call[t]) /\ io[t].at < LBA_BYTES
<1> DEFINE c == call[t]
           i == io[t]
           L == Len(Places[c.file])
           a == c.offset + (i.done + 1)
<1>1. c \in Calls /\ i \in Locals /\ Inside(c, i, filp[t])
    BY WaitingInCall
<1>2. i.left > 0 /\ i.left \in Nat /\ i.done \in Nat /\ i.at \in Nat
    BY <1>1 DEF Inside, Locals
<1>3. c.offset \in Nat /\ c.length \in Nat /\ c.file \in FileNames /\ c.ready \in BOOLEAN
    BY <1>1 DEF Calls
<1>4. L \in Nat /\ c.offset <= L
    BY <1>3, FileSize DEF Exact
<1>5. i.done + i.left <= Extent(c) /\ \A k \in 1 .. i.left : Bytes!Address(c, i.done + k) = i.at + k - 1
    BY DEF Exact, Aimed
<1>6. Extent(c) \in Nat /\ Extent(c) # 0
  <2>1. Extent(c) \in Nat
    BY <1>1, <1>4, ExtentSpec
  <2> QED
    BY <1>2, <1>5, <2>1
<1>7. Extent(c) = Minimum(c.length, L - c.offset)
    BY <1>1, <1>3, <1>4, <1>6, ExtentSpec
<1>8. Places[c.file][a] = i.at
  <2>1. Bytes!Address(c, i.done + 1) = i.at + 1 - 1
    BY <1>2, <1>5
  <2> QED
    BY <1>2, <2>1 DEF Bytes!Address
<1>9. a \in c.offset + 1 .. Minimum(c.offset + c.length, L)
  <2> DEFINE o == c.offset
             n == c.length
             d == i.done
             E == Extent(c)
  <2>1. o \in Nat /\ n \in Nat /\ d \in Nat /\ E \in Nat /\ d + 1 <= E /\ E = Minimum(n, L - o) /\ o <= L
    BY <1>2, <1>3, <1>4, <1>5, <1>6, <1>7
  <2> HIDE DEF o, n, d, E, L
  <2>2. o + (d + 1) \in o + 1 .. Minimum(o + n, L)
    BY <1>4, <2>1 DEF Minimum
  <2> QED
    BY <2>2 DEF o, n, d
<1>10. i.at < LBA_BYTES
  <2> DEFINE b == Minimum(c.offset + c.length, L)
  <2>1. b \in Nat /\ b <= L /\ LBA_BYTES \in Nat
    <3> DEFINE s == c.offset + c.length
    <3>1. s \in Nat
      BY <1>3
    <3>2. L \in Nat
      BY <1>4
    <3>3. LBA_BYTES \in Nat
      BY DiskAssumption
    <3>5. b = Minimum(s, L)
      OBVIOUS
    <3> HIDE DEF s, b, L
    <3>4. Minimum(s, L) \in Nat /\ Minimum(s, L) <= L
      BY <3>1, <3>2 DEF Minimum
    <3> QED
      BY <3>3, <3>4, <3>5
  <2>2. a \in 1 .. b /\ a \in 1 .. L
    <3> DEFINE o == c.offset
    <3>1. a \in o + 1 .. b
      BY <1>9
    <3>2. o \in Nat /\ L \in Nat
      BY <1>3, <1>4
    <3> HIDE DEF o, a, b, L
    <3>3. a \in Int /\ o + 1 <= a /\ a <= b
      BY <2>1, <3>1, <3>2
    <3> QED
      BY <2>1, <3>2, <3>3
  <2>3. CASE c.file = "disk"
    <3>1. L = DiskSize /\ b <= LBA_BYTES
      BY <2>3, PlacesDisk DEF Exact, WithinReach
    <3>2. Places[c.file][a] = a - 1
      BY <2>2, <2>3, <3>1, PlacesDisk
    <3> HIDE DEF b, a
    <3> QED
      BY <1>8, <2>1, <2>2, <3>1, <3>2
  <2>4. CASE c.file # "disk"
    BY <1>3, <1>8, <2>2, <2>4, PartsWithinReach
  <2> QED
    BY <2>3, <2>4
<1> QED
    BY <1>8, <1>9, <1>10 DEF PagesOf

\* The disk when a task's page has been written.
Written(i) ==
    [a \in DOMAIN disk |-> IF a \in Base(i.at) .. Base(i.at) + PAGE - 1 THEN i.temp[a - Base(i.at)] ELSE disk[a]]

\* Writing a page leaves the pages that other writers have read as they were.
LEMMA OthersFresh ==
    ASSUME IInv, NEW t \in Tasks, NEW u \in Tasks, u # t, io[t].phase = "writepage"
    PROVE  Fresh(Written(io[t]), call[u], io[u])
<1> DEFINE i == io[t]
           j == io[u]
           d == Written(i)
<1> SUFFICES ASSUME j.phase = "writepage" PROVE j.temp = Filled(d, call[u], j)
    BY DEF Fresh
<1>1. TypeInv /\ Moving(i) /\ Moving(j)
    BY DEF IInv, Moving
<1>2. /\ i \in Locals /\ call[t] # NoCall /\ call[t].op = "write" /\ TypeOK
      /\ j \in Locals /\ call[u] # NoCall /\ call[u].op = "write" /\ Inside(call[u], j, filp[u])
    BY <1>1, WaitingInCall DEF Inside
<1>3. Exact(call[t], i, filp[t], lba_count) /\ Exact(call[u], j, filp[u], lba_count)
    BY <1>2 DEF IInv
<1>4. /\ i.at \div PAGE \in PagesOf(call[t]) /\ j.at \div PAGE \in PagesOf(call[u])
      /\ i.at < LBA_BYTES /\ j.at < LBA_BYTES
    BY <1>1, <1>3, AtOwnPage
<1>5. i.at \div PAGE # j.at \div PAGE
    BY <1>2, <1>4 DEF IInv, WritersApart
<1>6. /\ i.at \in Nat /\ j.at \in Nat /\ j.left \in Nat /\ j.left > 0 /\ j.at + j.left <= DiskSize
      /\ i.left \in Nat /\ i.left > 0 /\ i.at + i.left <= DiskSize
    BY <1>1, <1>2, WaitingInCall DEF Locals, Inside
<1>7. PAGE \in Nat \ {0} /\ DiskSize \in Nat
    BY DiskAssumption
<1> DEFINE bi == i.at - (i.at % PAGE)
           bj == j.at - (j.at % PAGE)
<1>8. bj \in Nat /\ bj + PAGE <= DiskSize /\ Base(j.at) = bj /\ Base(i.at) = bi
  <2>1. i.at < DiskSize /\ j.at < DiskSize
    BY <1>6, <1>7
  <2> QED
    BY <1>4, <1>6, <2>1, BaseInDisk
<1>9. ASSUME NEW k \in 0 .. PAGE - 1 PROVE d[bj + k] = disk[bj + k]
  <2> DEFINE x == bj + k
  <2>1. x \in Nat /\ x \in bj .. bj + PAGE - 1 /\ x \in 0 .. DiskSize - 1
    <3> HIDE DEF bj
    <3> QED
      BY <1>7, <1>8
  <2> HIDE DEF x
  <2>2. x \div PAGE = j.at \div PAGE
    BY <1>6, <1>7, <2>1, PageOf
  <2>3. x \notin bi .. bi + PAGE - 1
    BY <1>5, <1>6, <1>7, <2>1, <2>2, PageOf
  <2>4. d[x] = disk[x]
    BY <1>2, <1>8, <2>1, <2>3 DEF Written, TypeOK
  <2> QED
    BY <2>4 DEF x
<1> HIDE DEF d, bj
<1>10. PageAt(d, j.at) = PageAt(disk, j.at)
    BY <1>8, <1>9 DEF PageAt, bj
<1>11. Filled(d, call[u], j) = Filled(disk, call[u], j)
    BY <1>10 DEF Filled
<1>12. Fresh(disk, call[u], j)
    BY DEF IInv
<1> QED
    BY <1>11, <1>12 DEF Fresh, d

\* The page that is written changes the bytes of the write and no others.
LEMMA WrittenBytes ==
    ASSUME IInv, NEW t \in Tasks, io[t].phase = "writepage"
    PROVE  LET c == call[t]
               moved == io[t].done + 1 .. io[t].done + Chunk(io[t])
           IN Written(io[t]) = [a \in DOMAIN disk |->
                                  IF \E k \in moved : Bytes!Address(c, k) = a
                                  THEN c.data[CHOOSE k \in moved : Bytes!Address(c, k) = a]
                                  ELSE disk[a]]
<1> DEFINE i == io[t]
           c == call[t]
           n == Chunk(i)
           at == i.at
           p == at % PAGE
           b == at - p
           d0 == i.done
           moved == d0 + 1 .. d0 + n
           A(k) == Bytes!Address(c, k)
           New(a) == IF \E k \in moved : A(k) = a THEN c.data[CHOOSE k \in moved : A(k) = a] ELSE disk[a]
<1>1. TypeInv /\ Moving(i)
    BY DEF IInv, Moving
<1>2. i \in Locals /\ c \in Calls /\ c # NoCall /\ TypeOK /\ Inside(c, i, filp[t])
    BY <1>1, WaitingInCall
<1>3. i.left > 0 /\ i.left \in Nat /\ at \in Nat /\ d0 \in Nat /\ at + i.left <= DiskSize
    BY <1>1, <1>2 DEF Inside, Locals
<1>4. n \in 1 .. i.left /\ n <= PAGE - p /\ p \in 0 .. PAGE - 1
    BY <1>2, <1>3, ChunkType
<1>5. PAGE \in Nat \ {0} /\ DiskSize \in Nat
    BY DiskAssumption
<1>6. \A k \in 1 .. i.left : A(d0 + k) = at + k - 1
    BY <1>1, <1>2 DEF IInv, Exact, Aimed
<1>8. b \in Nat /\ Base(at) = b
  <2>1. at < DiskSize
    BY <1>3, <1>5
  <2>2. at < LBA_BYTES
    BY <1>1, <1>2, AtOwnPage DEF IInv
  <2> QED
    BY <1>3, <2>1, <2>2, PageInDisk, BaseInDisk
<1>7. i.temp = [k \in 0 .. PAGE - 1 |-> IF k \in p .. p + n - 1 THEN c.data[d0 + k - p + 1] ELSE disk[b + k]]
    BY <1>8 DEF IInv, Fresh, Filled, PageAt
<1>9. disk \in [0 .. DiskSize - 1 -> Nat]
    BY <1>2 DEF TypeOK
<1>10. at = b + p /\ n \in Nat /\ p \in Nat /\ n <= i.left
    BY <1>3, <1>4, <1>5, <1>8
<1> DEFINE Old(a) == IF a \in b .. b + PAGE - 1 THEN i.temp[a - b] ELSE disk[a]
           left == i.left
           temp == i.temp
           data == c.data
<1>11. Written(i) = [a \in DOMAIN disk |-> Old(a)]
    BY <1>8 DEF Written
<1> HIDE DEF at, p, b, n, d0, A, left, temp, data
<1>12. ASSUME NEW a \in 0 .. DiskSize - 1 PROVE Old(a) = New(a)
  <2>1. CASE a \in at .. at + n - 1
    <3> DEFINE k == d0 + (a - at) + 1
    <3>1. k \in moved /\ a - at + 1 \in 1 .. left /\ k = d0 + (a - at + 1)
      BY <1>3, <1>10, <2>1 DEF left
    <3>2. A(k) = a
      <4>1. A(d0 + (a - at + 1)) = at + (a - at + 1) - 1
        BY <1>6, <3>1 DEF left
      <4> QED
        BY <1>3, <3>1, <4>1
    <3>3. ASSUME NEW l \in moved, A(l) = a PROVE l = k
      <4>1. l - d0 \in 1 .. left /\ d0 + (l - d0) = l
        BY <1>3, <1>10 DEF left
      <4>2. A(d0 + (l - d0)) = at + (l - d0) - 1
        BY <1>6, <4>1 DEF left
      <4> QED
        BY <1>3, <3>3, <4>1, <4>2
    <3> HIDE DEF k, moved
    <3>4. (CHOOSE l \in moved : A(l) = a) = k
      BY <3>1, <3>2, <3>3
    <3>5. New(a) = data[k]
      BY <3>1, <3>2, <3>4 DEF data
    <3>6. a \in b .. b + PAGE - 1 /\ a - b \in 0 .. PAGE - 1 /\ a - b \in p .. p + n - 1
      BY <1>4, <1>5, <1>8, <1>10, <2>1
    <3>7. Old(a) = data[d0 + (a - b) - p + 1]
      BY <1>7, <3>6 DEF temp, data
    <3>8. d0 + (a - b) - p + 1 = k
      BY <1>3, <1>8, <1>10, <2>1 DEF k
    <3> QED
      BY <3>5, <3>7, <3>8
  <2>2. CASE a \notin at .. at + n - 1
    <3>1. ASSUME NEW l \in moved, A(l) = a PROVE FALSE
      <4>1. l - d0 \in 1 .. n /\ l - d0 \in 1 .. left /\ d0 + (l - d0) = l
        BY <1>3, <1>10 DEF left
      <4>2. A(d0 + (l - d0)) = at + (l - d0) - 1
        BY <1>6, <4>1 DEF left
      <4> QED
        BY <1>3, <1>10, <2>2, <3>1, <4>1, <4>2
    <3>2. New(a) = disk[a]
      BY <3>1
    <3>3. CASE a \in b .. b + PAGE - 1
      <4>1. a - b \in 0 .. PAGE - 1 /\ a - b \notin p .. p + n - 1 /\ b + (a - b) = a
        BY <1>4, <1>5, <1>8, <1>10, <2>2, <3>3
      <4>2. temp[a - b] = disk[b + (a - b)]
        BY <1>7, <4>1 DEF temp
      <4> QED
        BY <3>2, <3>3, <4>1, <4>2 DEF temp
    <3> QED
      BY <3>2, <3>3
  <2> QED
    BY <2>1, <2>2
<1> HIDE DEF Old, New
<1>13. [a \in DOMAIN disk |-> Old(a)] = [a \in DOMAIN disk |-> New(a)]
    BY <1>9, <1>12
<1> QED
    BY <1>11, <1>13 DEF New, A, n, d0

-----------------------------------------------------------------------------
(* Every step is one of Transfers.                                         *)

\* The file of a task as Transfers sees it: during a call, where the call began.
Seen(c, f) == IF c = NoCall THEN f ELSE [f EXCEPT !.offset = c.offset]

\* A call that moves its file's offset is not seen to do so.
LEMMA SeenSame ==
    ASSUME TypeInv, NEW t \in Tasks, call[t] # NoCall, NEW f \in OpenFiles, f.file = filp[t].file,
           filp' = [filp EXCEPT ![t] = f], call' = call
    PROVE  [u \in Tasks |-> Seen(call'[u], filp'[u])] = [u \in Tasks |-> Seen(call[u], filp[u])]
<1>1. ASSUME NEW u \in Tasks PROVE Seen(call'[u], filp'[u]) = Seen(call[u], filp[u])
  <2>1. CASE u = t
    <3> DEFINE o == call[t].offset
    <3>1. filp'[u] = f /\ filp[t] \in OpenFiles
      BY <2>1 DEF TypeInv, TypeOK
    <3>2. [f EXCEPT !.offset = o] = [file |-> f.file, offset |-> o]
      BY DEF OpenFiles, NoFile
    <3>3. [filp[t] EXCEPT !.offset = o] = [file |-> filp[t].file, offset |-> o]
      BY <3>1 DEF OpenFiles, NoFile
    <3> QED
      BY <2>1, <3>1, <3>2, <3>3 DEF Seen
  <2>2. CASE u # t
    BY <2>2 DEF TypeInv, TypeOK
  <2> QED
    BY <2>1, <2>2
<1> QED
    BY <1>1

\* A step that moves n bytes of a call.
LEMMA MoveMaps ==
    ASSUME TypeInv, NEW t \in Tasks, call[t] # NoCall, NEW m \in Locals, NEW f \in OpenFiles,
           io' = [io EXCEPT ![t] = m], filp' = [filp EXCEPT ![t] = f], f.file = filp[t].file,
           UNCHANGED <<call, lba_count>>, NEW n \in 1 .. Extent(call[t]) - io[t].done, m.done = io[t].done + n,
           \/ /\ call[t].op = "read" /\ disk' = disk
              /\ m.got = io[t].got \o [l \in 1 .. n |-> disk[Bytes!Address(call[t], Len(io[t].got) + l)]]
           \/ /\ call[t].op = "write" /\ m.got = io[t].got
              /\ disk' = [a \in DOMAIN disk |->
                            IF \E k \in io[t].done + 1 .. io[t].done + n : Bytes!Address(call[t], k) = a
                            THEN call[t].data[CHOOSE k \in io[t].done + 1 .. io[t].done + n : Bytes!Address(call[t], k) = a]
                            ELSE disk[a]]
    PROVE  Bytes!Move(t)
<1> DEFINE D == [u \in Tasks |-> io[u].done]
           G == [u \in Tasks |-> io[u].got]
           F == [u \in Tasks |-> IF call[u] = NoCall THEN filp[u] ELSE [filp[u] EXCEPT !.offset = call[u].offset]]
<1>1. io \in [Tasks -> Locals]
    BY DEF TypeInv, TypeOK
<1>2. D' = [D EXCEPT ![t] = @ + n] /\ D[t] = io[t].done
    BY <1>1
<1>3. G' = [G EXCEPT ![t] = m.got] /\ G[t] = io[t].got
    BY <1>1
<1>4. F' = F
  <2>1. F = [u \in Tasks |-> Seen(call[u], filp[u])] /\ F' = [u \in Tasks |-> Seen(call'[u], filp'[u])]
    BY DEF Seen
  <2> QED
    BY <2>1, SeenSame
<1>5. (lba_count # 0)' = (lba_count # 0) /\ call' = call
    OBVIOUS
<1>6. call[t] # Bytes!NoCall
    BY DEF Bytes!NoCall, NoCall
<1>7. n \in 1 .. Bytes!Extent(call[t]) - D[t]
    BY <1>2 DEF Extent
<1>8. CASE call[t].op = "read"
  <2>1. /\ disk' = disk
        /\ G' = [G EXCEPT ![t] = @ \o [l \in 1 .. n |-> disk[Bytes!Address(call[t], Len(@) + l)]]]
    BY <1>3, <1>8
  <2> HIDE DEF D, G, F
  <2> QED
    BY <1>2, <1>4, <1>5, <1>6, <1>7, <1>8, <2>1 DEF Bytes!Move, D, G, F
<1>9. CASE call[t].op = "write"
  <2>1. G' = G
    BY <1>1, <1>3, <1>9
  <2>2. disk' = [a \in DOMAIN disk |->
                   IF \E k \in D[t] + 1 .. D[t] + n : Bytes!Address(call[t], k) = a
                   THEN call[t].data[CHOOSE k \in D[t] + 1 .. D[t] + n : Bytes!Address(call[t], k) = a]
                   ELSE disk[a]]
    BY <1>2, <1>9
  <2> QED
    BY <1>2, <1>4, <1>5, <1>6, <1>7, <1>9, <2>1, <2>2 DEF Bytes!Move
<1> QED
    BY <1>8, <1>9

\* The hardware task.
LEMMA ProbeRefines ==
    ASSUME IInv, Probe
    PROVE  IInv' /\ Bytes!Probe
<1>1. /\ TypeInv' /\ UNCHANGED <<disk, filp, call, io>>
      /\ lba_count' \in {lba_count, DiskSize}
    BY ProbeType DEF IInv
<1>2. SizeKnown'
    BY <1>1 DEF IInv, SizeKnown, Probe, nvme_probe_2, IdentifyController, IdentifyNamespace, CreateIocq,
                CreateIosq, ReadTable, nvmepart_probe, Stage
<1>3. WritersApart'
    BY <1>1 DEF IInv, WritersApart, PagesOf
<1>4. ASSUME NEW t \in Tasks
      PROVE  /\ call'[t] # NoCall => Exact(call'[t], io'[t], filp'[t], lba_count') /\ Counted(call'[t], io'[t])
             /\ Fresh(disk', call'[t], io'[t])
  <2>1. /\ call[t] # NoCall => Exact(call[t], io[t], filp[t], lba_count) /\ Counted(call[t], io[t])
        /\ Fresh(disk, call[t], io[t])
    BY DEF IInv
  <2>2. Exact(call[t], io[t], filp[t], lba_count) => Exact(call[t], io[t], filp[t], lba_count')
    BY <1>1 DEF Exact
  <2> QED
    BY <1>1, <2>1, <2>2
<1>5. IInv'
    BY <1>1, <1>2, <1>3, <1>4 DEF IInv
<1>6. (lba_count # 0)' \in {lba_count # 0, TRUE}
    BY <1>1, DiskNotEmpty
<1>7. Bytes!Probe
    BY <1>1, <1>6 DEF Bytes!Probe
<1> QED
    BY <1>5, <1>7

\* vfs_read and vfs_write begin.
LEMMA BeginRefines ==
    ASSUME IInv, Careful, NEW t \in Tasks, NEW f \in Usable(t), NEW op \in {"read", "write"}, NEW n \in Lengths,
           Begin(t, f, op, n)
    PROVE  IInv' /\ Bytes!Begin(t)
<1> DEFINE c == NewCall(t, f, op, n)
<1>1. TypeInv /\ TypeOK /\ TypeInv'
    BY BeginType DEF IInv, TypeInv
<1>2. c \in Calls /\ c.file = f.file /\ c.offset = f.offset /\ call' = [call EXCEPT ![t] = c]
    BY <1>1, BeginForm
<1>3. PICK i \in Locals : Started(c, i) /\ io' = [io EXCEPT ![t] = i]
    BY <1>1, BeginForm
<1>4. /\ filp' = [filp EXCEPT ![t] = f] /\ UNCHANGED <<disk, probe, lba_count>> /\ call[t] = NoCall
    BY DEF Begin
<1>5. f \in OpenFiles /\ f.file \in FileNames
    BY <1>1, UsableFile
<1>6. Exact(c, i, f, lba_count) /\ Counted(c, i)
    BY <1>3, StartExact
<1>7. c.op = op /\ c.ready = (lba_count # 0) /\ c # NoCall
  <2>1. c.op = op /\ NoCall.op = "none" /\ c.ready = (lba_count # 0)
    BY DEF NewCall, NoCall
  <2> QED
    BY <2>1
<1>8. ~ CallersAvoid(t, c)
    BY DEF Begin, NewCall
<1> HIDE DEF c
<1>9. i.done = 0 /\ i.got = <<>> /\ i.phase # "writepage"
    BY <1>3 DEF Started
<1>10. WritersApart'
  <2>1. ASSUME NEW u \in Tasks, NEW v \in Tasks, u # v, call'[u].op = "write", call'[v].op = "write"
        PROVE  PagesOf(call'[u]) \cap PagesOf(call'[v]) = {}
    <3>1. CASE u = t
      <4>1. call'[u] = c /\ call'[v] = call[v]
        BY <1>1, <1>2, <2>1, <3>1 DEF TypeOK
      <4> QED
        BY <1>8, <2>1, <3>1, <4>1 DEF CallersAvoid
    <3>2. CASE v = t
      <4>1. call'[v] = c /\ call'[u] = call[u]
        BY <1>1, <1>2, <2>1, <3>2 DEF TypeOK
      <4> QED
        BY <1>8, <2>1, <3>2, <4>1 DEF CallersAvoid
    <3>3. CASE u # t /\ v # t
      <4>1. call'[v] = call[v] /\ call'[u] = call[u]
        BY <1>1, <1>2, <3>3 DEF TypeOK
      <4> QED
        BY <2>1, <4>1 DEF IInv, WritersApart
    <3> QED
      BY <3>1, <3>2, <3>3
  <2> QED
    BY <2>1 DEF WritersApart, PagesOf
<1>11. Fresh(disk', c, i) /\ \A u \in Tasks \ {t} : Fresh(disk', call[u], io[u])
    BY <1>4, <1>9 DEF Fresh, IInv
<1>12. IInv'
    BY <1>1, <1>2, <1>3, <1>4, <1>6, <1>10, <1>11, OneTaskExact
<1> DEFINE D == [u \in Tasks |-> io[u].done]
           G == [u \in Tasks |-> io[u].got]
           F == [u \in Tasks |-> IF call[u] = NoCall THEN filp[u] ELSE [filp[u] EXCEPT !.offset = call[u].offset]]
<1>13. D' = [D EXCEPT ![t] = 0] /\ G' = [G EXCEPT ![t] = <<>>]
    BY <1>1, <1>3, <1>9 DEF TypeOK
<1>14. call'[t] = c /\ filp'[t] = f
    BY <1>1, <1>2, <1>4 DEF TypeOK
<1>15. [f EXCEPT !.offset = c.offset] = [file |-> c.file, offset |-> c.offset]
    BY <1>2, <1>5 DEF OpenFiles, NoFile
<1>16. F' = [F EXCEPT ![t] = [file |-> c.file, offset |-> c.offset]]
    BY <1>1, <1>2, <1>4, <1>7, <1>14, <1>15 DEF TypeOK
<1>17. call[t] = Bytes!NoCall
    BY <1>4 DEF Bytes!NoCall, NoCall
<1>18. Bytes!Begin(t)
    BY <1>2, <1>4, <1>7, <1>13, <1>14, <1>16, <1>17 DEF Bytes!Begin
<1> QED
    BY <1>12, <1>18

\* The locals i of a task but for the bytes it has got are those of j.
SamePlace(i, j) ==
    /\ i.done = j.done /\ i.left = j.left /\ i.at = j.at /\ i.k = j.k /\ i.asked = j.asked
    /\ i.phase = j.phase /\ i.dead = j.dead

\* The bytes of a page have been moved.
LEMMA MovedStep ==
    ASSUME IInv, TypeInv', NEW t \in Tasks, Moving(io[t]), NEW i \in Locals, Moved(t, i, Chunk(i)), SamePlace(i, io[t]),
           call[t].op = "read" => Len(i.got) = i.done + Chunk(i),
           UNCHANGED <<probe, lba_count, call>>, \A u \in Tasks \ {t} : Fresh(disk', call[u], io[u])
    PROVE  /\ IInv' /\ Chunk(i) \in 1 .. Extent(call[t]) - io[t].done
           /\ \E m \in Locals, f \in OpenFiles :
                /\ io' = [io EXCEPT ![t] = m] /\ filp' = [filp EXCEPT ![t] = f] /\ f.file = filp[t].file
                /\ m.done = io[t].done + Chunk(i) /\ m.got = i.got
<1> DEFINE c == call[t]
           n == Chunk(i)
           g == filp[t]
<1>1. TypeInv
    BY DEF IInv
<1>2. /\ c \in Calls /\ c # NoCall /\ TypeOK /\ g \in [file : FileNames, offset : Nat]
      /\ Inside(c, io[t], g)
    BY <1>1, WaitingInCall
<1>3. Exact(c, io[t], g, lba_count)
    BY <1>2 DEF IInv
<1>4. Exact(c, i, g, lba_count) /\ Moving(i)
    BY <1>3 DEF Exact, SamePlace, Moving, Aimed, Segmented
<1>5. i.left > 0 /\ i.at + i.left <= DiskSize /\ i.done + i.left <= c.length
    BY <1>2 DEF Inside, SamePlace
<1>6. n \in 1 .. i.left
    BY <1>5, ChunkType
<1>7. n \in 1 .. Extent(c) - io[t].done
  <2>1. i.done + i.left <= Extent(c) /\ i.done = io[t].done
    BY <1>4 DEF Exact, Aimed, SamePlace
  <2>2. Extent(c) \in Nat
    BY <1>2, <1>3, ExtentSpec DEF Exact
  <2>3. i.done \in Nat /\ i.left \in Nat
    BY DEF Locals
  <2> HIDE DEF n
  <2> QED
    BY <1>6, <2>1, <2>2, <2>3
<1>8. PICK m \in Locals, f \in OpenFiles :
        /\ io' = [io EXCEPT ![t] = m] /\ filp' = [filp EXCEPT ![t] = f]
        /\ \/ Stays(i, n, m) /\ f = filp[t]
           \/ Follows(call[t], i, n, f.offset, m) /\ f = [filp[t] EXCEPT !.offset = @ + i.asked]
           \/ Finishes(call[t], i, n, m) /\ f = filp[t]
        /\ f.file = filp[t].file
        /\ m.done = i.done + n /\ m.got = i.got
        /\ m.phase \in {"readpage", "return"}
    BY <1>1, <1>2, <1>5, <1>6, MovedInside
<1>9. Exact(c, m, f, lba_count)
    BY <1>2, <1>4, <1>6, <1>8, MovedExact
<1>10. Counted(c, m)
    BY <1>8 DEF Counted
<1>11. Fresh(disk', c, m)
    BY <1>8 DEF Fresh
<1>12. call' = [call EXCEPT ![t] = c]
    BY <1>2 DEF TypeOK
<1>13. WritersApart'
    BY <1>12, StillApart
<1> HIDE DEF c
<1>14. IInv'
    BY <1>8, <1>9, <1>10, <1>11, <1>12, <1>13, OneTaskExact
<1>15. m.done = io[t].done + n
    BY <1>8 DEF SamePlace
<1> QED
    BY <1>7, <1>8, <1>14, <1>15 DEF c

\* A page has been read.
LEMMA PageReadRefines ==
    ASSUME IInv, NEW t \in Tasks, PageRead(t)
    PROVE  IInv' /\ (Bytes!Move(t) \/ UNCHANGED Bytes!vars)
<1> DEFINE i == io[t]
           c == call[t]
           n == Chunk(i)
<1>1. i.phase = "readpage" /\ UNCHANGED <<disk, probe, lba_count, call>> /\ Moving(i)
    BY DEF PageRead, Moving
<1>2. TypeInv /\ TypeInv'
    BY PageReadType DEF IInv
<1>3. /\ i \in Locals /\ c \in Calls /\ c # NoCall /\ TypeOK /\ Inside(c, i, filp[t]) /\ filp[t] \in OpenFiles
    BY <1>1, <1>2, WaitingInCall
<1>4. Exact(c, i, filp[t], lba_count) /\ Counted(c, i)
    BY <1>3 DEF IInv
<1>5. \A u \in Tasks : Fresh(disk', call[u], io[u])
    BY <1>1 DEF IInv
<1>6. CASE c.op = "read"
  <2> DEFINE j == [i EXCEPT !.got = @ \o Taken(disk, i)]
  <2>1. Moved(t, j, n)
    BY <1>6 DEF PageRead, Taken, PageAt, Base, PageBase
  <2>2. Taken(disk, i) \in Seq(Nat) /\ Len(Taken(disk, i)) = n /\ i.got \in Seq(Nat)
    BY <1>1, <1>2, <1>3, TakenFilledType DEF Locals
  <2>3. i.got \o Taken(disk, i) \in Seq(Nat) /\ Len(i.got \o Taken(disk, i)) = Len(i.got) + n
    <3> DEFINE r == i.got
               s == Taken(disk, i)
    <3>1. r \in Seq(Nat) /\ s \in Seq(Nat) /\ Len(s) = n
      BY <2>2
    <3> HIDE DEF r, s, n
    <3>2. r \o s \in Seq(Nat)
      BY <3>1
    <3>3. Len(r \o s) = Len(r) + Len(s)
      BY <3>1, ConcatProperties
    <3> QED
      BY <3>1, <3>2, <3>3 DEF r, s
  <2>4. j \in Locals /\ SamePlace(j, i) /\ j.got = i.got \o Taken(disk, i)
    BY <1>3, <2>3 DEF Locals, SamePlace
  <2>5. Chunk(j) = n
    BY <2>4 DEF Chunk, SamePlace
  <2>6. Len(j.got) = j.done + Chunk(j)
    BY <1>4, <1>6, <2>3, <2>4, <2>5 DEF Counted, SamePlace
  <2> HIDE DEF j
  <2>7. /\ IInv' /\ Chunk(j) \in 1 .. Extent(c) - i.done
        /\ \E m \in Locals, f \in OpenFiles :
             /\ io' = [io EXCEPT ![t] = m] /\ filp' = [filp EXCEPT ![t] = f] /\ f.file = filp[t].file
             /\ m.done = i.done + Chunk(j) /\ m.got = j.got
    BY <1>1, <1>2, <1>5, <2>1, <2>4, <2>5, <2>6, MovedStep
  <2>8. Taken(disk, i) = [l \in 1 .. n |-> disk[Bytes!Address(c, Len(i.got) + l)]]
    <3> DEFINE p == i.at % PAGE
               b == i.at - p
    <3>1. i.left > 0 /\ i.left \in Nat /\ i.at \in Nat /\ i.done \in Nat /\ i.at + i.left <= DiskSize
      BY <1>1, <1>3 DEF Inside, Locals
    <3>2. n \in 1 .. i.left /\ n <= PAGE - p /\ p \in 0 .. PAGE - 1
      BY <1>3, <3>1, ChunkType
    <3>3. Taken(disk, i) = [l \in 1 .. n |-> PageAt(disk, i.at)[p + l - 1]]
      BY DEF Taken
    <3>5. PAGE \in Nat /\ DiskSize \in Nat
      BY DiskAssumption
    <3>7. Base(i.at) = b
      <4>1. i.at < DiskSize
        BY <3>1, <3>5
      <4> QED
        BY <1>1, <1>2, <1>4, <3>1, <4>1, AtOwnPage, BaseInDisk
    <3>4. PageAt(disk, i.at) = [l \in 0 .. PAGE - 1 |-> disk[b + l]]
      BY <3>7 DEF PageAt
    <3> HIDE DEF n, p
    <3>6. ASSUME NEW l \in 1 .. n
          PROVE  PageAt(disk, i.at)[p + l - 1] = disk[Bytes!Address(c, Len(i.got) + l)]
      <4>1. p + l - 1 \in 0 .. PAGE - 1 /\ l \in 1 .. i.left /\ b + (p + l - 1) = i.at + l - 1
        BY <3>1, <3>2, <3>5
      <4>2. Bytes!Address(c, i.done + l) = i.at + l - 1
        BY <1>1, <1>4, <4>1 DEF Exact, Aimed
      <4>3. Len(i.got) = i.done
        BY <1>4, <1>6 DEF Counted
      <4>4. PageAt(disk, i.at)[p + l - 1] = disk[b + (p + l - 1)]
        BY <3>4, <4>1
      <4> QED
        BY <4>1, <4>2, <4>3, <4>4
    <3> QED
      BY <3>3, <3>6
  <2>9. PICK m \in Locals, f \in OpenFiles :
          /\ io' = [io EXCEPT ![t] = m] /\ filp' = [filp EXCEPT ![t] = f] /\ f.file = filp[t].file
          /\ m.done = i.done + n /\ m.got = i.got \o [l \in 1 .. n |-> disk[Bytes!Address(c, Len(i.got) + l)]]
    BY <2>4, <2>5, <2>7, <2>8
  <2>10. n \in 1 .. Extent(c) - i.done
    BY <2>5, <2>7
  <2> HIDE DEF n
  <2>11. Bytes!Move(t)
    BY <1>1, <1>2, <1>3, <1>6, <2>9, <2>10, MoveMaps
  <2> QED
    BY <2>7, <2>11
<1>7. CASE c.op = "write"
  <2> DEFINE m == [i EXCEPT !.phase = "writepage", !.temp = Filled(disk, c, i)]
  <2>1. io' = [io EXCEPT ![t] = m] /\ filp' = filp
    BY <1>3, <1>7 DEF PageRead, Filled, PageAt, Base, PageBase, TypeOK
  <2>2. /\ m.done = i.done /\ m.left = i.left /\ m.at = i.at /\ m.k = i.k /\ m.asked = i.asked /\ m.dead = i.dead
        /\ m.got = i.got /\ m.phase = "writepage" /\ m.temp = Filled(disk, c, i)
    BY <1>3 DEF Locals
  <2> HIDE DEF m
  <2>3. Exact(c, m, filp[t], lba_count) /\ Counted(c, m)
    BY <1>1, <1>4, <1>7, <2>2 DEF Exact, Moving, Aimed, Segmented, Counted
  <2>4. Filled(disk, c, m) = Filled(disk, c, i)
    BY <2>2 DEF Filled, Chunk
  <2>5. Fresh(disk', c, m)
    BY <1>1, <2>2, <2>4 DEF Fresh
  <2>6. call' = [call EXCEPT ![t] = c] /\ filp' = [filp EXCEPT ![t] = filp[t]]
    BY <1>1, <1>3, <2>1 DEF TypeOK
  <2>7. WritersApart'
    BY <2>6, StillApart
  <2>8. \A u \in Tasks \ {t} : Fresh(disk', call[u], io[u])
    BY <1>5
  <2> HIDE DEF c
  <2>9. IInv'
    BY <1>1, <1>2, <2>1, <2>3, <2>5, <2>6, <2>7, <2>8, OneTaskExact
  <2>10. /\ [u \in Tasks |-> io'[u].done] = [u \in Tasks |-> io[u].done]
         /\ [u \in Tasks |-> io'[u].got] = [u \in Tasks |-> io[u].got]
    BY <1>3, <2>1, <2>2 DEF TypeOK
  <2>11. UNCHANGED Bytes!vars
    BY <1>1, <2>1, <2>10 DEF Bytes!vars
  <2> QED
    BY <2>9, <2>11
<1> QED
    BY <1>3, <1>6, <1>7 DEF Calls

\* A page is written.
LEMMA PageWriteRefines ==
    ASSUME IInv, NEW t \in Tasks, PageWrite(t)
    PROVE  IInv' /\ Bytes!Move(t)
<1> DEFINE i == io[t]
           c == call[t]
           n == Chunk(i)
<1>1. /\ i.phase = "writepage" /\ UNCHANGED <<probe, lba_count, call>> /\ Moving(i) /\ Moved(t, i, n)
      /\ disk' = Written(i)
    BY DEF PageWrite, Moving, Written, PageBase, Base
<1>2. TypeInv /\ TypeInv'
    BY PageWriteType DEF IInv
<1>3. /\ i \in Locals /\ c \in Calls /\ c # NoCall /\ TypeOK /\ Inside(c, i, filp[t])
    BY <1>1, <1>2, WaitingInCall
<1>4. c.op = "write"
    BY <1>1, <1>3 DEF Inside
<1>5. \A u \in Tasks \ {t} : Fresh(disk', call[u], io[u])
    BY <1>1, OthersFresh
<1>6. SamePlace(i, i)
    BY DEF SamePlace
<1>7. /\ IInv' /\ n \in 1 .. Extent(c) - i.done
      /\ \E m \in Locals, f \in OpenFiles :
           /\ io' = [io EXCEPT ![t] = m] /\ filp' = [filp EXCEPT ![t] = f] /\ f.file = filp[t].file
           /\ m.done = i.done + n /\ m.got = i.got
    BY <1>1, <1>2, <1>3, <1>4, <1>5, <1>6, MovedStep
<1>8. disk' = [a \in DOMAIN disk |->
                 IF \E k \in i.done + 1 .. i.done + n : Bytes!Address(c, k) = a
                 THEN c.data[CHOOSE k \in i.done + 1 .. i.done + n : Bytes!Address(c, k) = a]
                 ELSE disk[a]]
    BY <1>1, WrittenBytes
<1> HIDE DEF n
<1>9. Bytes!Move(t)
    BY <1>1, <1>2, <1>3, <1>4, <1>7, <1>8, MoveMaps
<1> QED
    BY <1>7, <1>9

\* A task has no call any more, and a file f open.
LEMMA IdleExact ==
    ASSUME IInv, TypeInv', NEW t \in Tasks, NEW f,
           call' = [call EXCEPT ![t] = NoCall], io' = [io EXCEPT ![t] = NoIo], filp' = [filp EXCEPT ![t] = f],
           UNCHANGED <<disk, probe, lba_count>>
    PROVE  /\ IInv'
           /\ [u \in Tasks |-> io[u].done]' = [[u \in Tasks |-> io[u].done] EXCEPT ![t] = 0]
           /\ [u \in Tasks |-> io[u].got]' = [[u \in Tasks |-> io[u].got] EXCEPT ![t] = <<>>]
           /\ [u \in Tasks |-> Seen(call[u], filp[u])]' = [[u \in Tasks |-> Seen(call[u], filp[u])] EXCEPT ![t] = f]
<1>1. TypeOK
    BY DEF IInv, TypeInv
<1>2. WritersApart'
  <2>1. NoCall.op # "write"
    BY DEF NoCall
  <2> QED
    BY <2>1, StillApart
<1>3. Fresh(disk', NoCall, NoIo)
    BY DEF Fresh, NoIo
<1>4. \A u \in Tasks \ {t} : Fresh(disk', call[u], io[u])
    BY DEF IInv
<1>5. IInv'
    BY <1>2, <1>3, <1>4, OneTaskExact
<1>6. NoIo.done = 0 /\ NoIo.got = <<>>
    BY DEF NoIo
<1>7. [u \in Tasks |-> io[u].done]' = [[u \in Tasks |-> io[u].done] EXCEPT ![t] = 0]
    BY <1>1, <1>6 DEF TypeOK
<1>8. [u \in Tasks |-> io[u].got]' = [[u \in Tasks |-> io[u].got] EXCEPT ![t] = <<>>]
    BY <1>1, <1>6 DEF TypeOK
<1>9. [u \in Tasks |-> Seen(call[u], filp[u])]' = [[u \in Tasks |-> Seen(call[u], filp[u])] EXCEPT ![t] = f]
    BY <1>1 DEF TypeOK, Seen
<1> QED
    BY <1>5, <1>7, <1>8, <1>9

\* The task is killed, or was killed before its last page was written.
LEMMA GoneRefines ==
    ASSUME IInv, TypeInv', NEW t \in Tasks,
           call' = [call EXCEPT ![t] = NoCall], io' = [io EXCEPT ![t] = NoIo], filp' = [filp EXCEPT ![t] = NoFile],
           UNCHANGED <<disk, probe, lba_count>>
    PROVE  IInv' /\ Bytes!Abort(t)
<1>1. /\ IInv'
      /\ [u \in Tasks |-> io[u].done]' = [[u \in Tasks |-> io[u].done] EXCEPT ![t] = 0]
      /\ [u \in Tasks |-> io[u].got]' = [[u \in Tasks |-> io[u].got] EXCEPT ![t] = <<>>]
      /\ [u \in Tasks |-> Seen(call[u], filp[u])]' = [[u \in Tasks |-> Seen(call[u], filp[u])] EXCEPT ![t] = NoFile]
    BY IdleExact
<1>2. Bytes!NoCall = NoCall /\ Bytes!NoFile = NoFile
    BY DEF Bytes!NoCall, NoCall, Bytes!NoFile, NoFile
<1>3. Bytes!Abort(t)
    BY <1>1, <1>2 DEF Bytes!Abort, Seen
<1> QED
    BY <1>1, <1>3

\* The call returns.
LEMMA ReturnRefines ==
    ASSUME IInv, NEW t \in Tasks, Return(t)
    PROVE  IInv' /\ (Bytes!End(t) \/ Bytes!Abort(t))
<1> DEFINE i == io[t]
           c == call[t]
<1>1. /\ i.phase = "return" /\ UNCHANGED <<disk, probe, lba_count>>
      /\ call' = [call EXCEPT ![t] = NoCall] /\ io' = [io EXCEPT ![t] = NoIo]
      /\ filp' = IF i.dead THEN [filp EXCEPT ![t] = NoFile]
                 ELSE IF c.file = "exfat" /\ c.op = "read" THEN filp
                 ELSE [filp EXCEPT ![t].offset = @ + i.done]
    BY DEF Return
<1>2. TypeInv /\ TypeInv'
    BY ReturnType DEF IInv
<1>3. /\ i \in Locals /\ c \in Calls /\ c # NoCall /\ TypeOK /\ filp[t] \in [file : FileNames, offset : Nat]
    BY <1>1, <1>2, WaitingInCall
<1>4. CASE i.dead = TRUE
    BY <1>1, <1>2, <1>4, GoneRefines
<1>5. CASE i.dead = FALSE
  <2>1. i.done = Extent(c) /\ (c.file = "exfat" => filp[t].offset = c.offset + i.done)
        /\ (c.file # "exfat" => filp[t].offset = c.offset)
    BY <1>1, <1>3, <1>5 DEF IInv, Exact
  <2> DEFINE o == IF c.file = "exfat" /\ c.op = "read" THEN filp[t].offset ELSE filp[t].offset + i.done
             f == [filp[t] EXCEPT !.offset = o]
  <2>2. filp' = [filp EXCEPT ![t] = f]
    BY <1>1, <1>3, <1>5 DEF TypeOK
  <2>3. o = c.offset + i.done \/ (c.op = "write" /\ c.file = "exfat")
    BY <1>3, <2>1 DEF Calls
  <2>4. f.offset = o /\ f = [[filp[t] EXCEPT !.offset = c.offset] EXCEPT !.offset = o]
    BY <1>3
  <2> HIDE DEF f, o
  <2> DEFINE D == [u \in Tasks |-> io[u].done]
             G == [u \in Tasks |-> io[u].got]
             F == [u \in Tasks |-> Seen(call[u], filp[u])]
  <2>5. IInv' /\ D' = [D EXCEPT ![t] = 0] /\ G' = [G EXCEPT ![t] = <<>>] /\ F' = [F EXCEPT ![t] = f]
    BY <1>1, <1>2, <2>2, IdleExact
  <2>6. F[t] = [filp[t] EXCEPT !.offset = c.offset] /\ D[t] = i.done
    BY <1>3 DEF Seen
  <2>7. F'[t] = f
    BY <2>5
  <2>8. F' = [F EXCEPT ![t].offset = F'[t].offset]
    BY <2>4, <2>5, <2>6, <2>7
  <2>9. F'[t].offset = c.offset + D[t] \/ (c.op = "write" /\ c.file = "exfat")
    BY <2>3, <2>4, <2>6, <2>7
  <2>10. Bytes!NoCall = NoCall /\ D[t] = Bytes!Extent(c)
    BY <2>1, <2>6 DEF Bytes!NoCall, NoCall, Extent
  <2>11. Bytes!End(t)
    BY <1>1, <1>3, <2>5, <2>8, <2>9, <2>10 DEF Bytes!End, Seen
  <2> QED
    BY <2>5, <2>11
<1> QED
    BY <1>3, <1>4, <1>5 DEF Locals

\* The task is killed.
LEMMA KilledRefines ==
    ASSUME IInv, NEW t \in Tasks, Killed(t)
    PROVE  IInv' /\ (Bytes!Abort(t) \/ UNCHANGED Bytes!vars)
<1>1. TypeInv /\ TypeInv'
    BY KilledType DEF IInv
<1>2. CASE io[t].phase = "readpage"
  <2>1. /\ filp' = [filp EXCEPT ![t] = NoFile] /\ call' = [call EXCEPT ![t] = NoCall]
        /\ io' = [io EXCEPT ![t] = NoIo] /\ UNCHANGED <<disk, probe, lba_count>>
    BY <1>2 DEF Killed
  <2> QED
    BY <1>1, <2>1, GoneRefines
<1>3. CASE io[t].phase = "writepage"
  <2> DEFINE i == io[t]
             c == call[t]
             m == [i EXCEPT !.dead = TRUE]
  <2>1. i \in Locals /\ c \in Calls /\ c # NoCall /\ TypeOK
    BY <1>1, <1>3, WaitingInCall DEF Moving
  <2>2. io' = [io EXCEPT ![t].dead = TRUE] /\ UNCHANGED <<disk, probe, lba_count, filp, call>>
    BY <1>3 DEF Killed
  <2>3. io' = [io EXCEPT ![t] = m] /\ filp' = [filp EXCEPT ![t] = filp[t]] /\ call' = [call EXCEPT ![t] = c]
    BY <2>1, <2>2 DEF TypeOK
  <2>4. /\ m.done = i.done /\ m.left = i.left /\ m.at = i.at /\ m.k = i.k /\ m.asked = i.asked /\ m.got = i.got
        /\ m.phase = i.phase /\ m.temp = i.temp
    BY <2>1 DEF Locals
  <2> HIDE DEF m
  <2>5. Exact(c, i, filp[t], lba_count) /\ Counted(c, i) /\ Fresh(disk, c, i)
    BY <2>1 DEF IInv
  <2>6. Exact(c, m, filp[t], lba_count) /\ Counted(c, m)
    BY <1>3, <2>4, <2>5 DEF Exact, Moving, Aimed, Segmented, Counted
  <2>7. Filled(disk, c, m) = Filled(disk, c, i)
    BY <2>4 DEF Filled, Chunk
  <2>8. Fresh(disk', c, m) /\ \A u \in Tasks \ {t} : Fresh(disk', call[u], io[u])
    BY <2>2, <2>4, <2>5, <2>7 DEF Fresh, IInv
  <2>9. WritersApart'
    BY <2>3, StillApart
  <2> HIDE DEF c
  <2>10. IInv'
    BY <1>1, <2>2, <2>3, <2>6, <2>8, <2>9, OneTaskExact
  <2>11. /\ [u \in Tasks |-> io'[u].done] = [u \in Tasks |-> io[u].done]
         /\ [u \in Tasks |-> io'[u].got] = [u \in Tasks |-> io[u].got]
    BY <2>1, <2>3, <2>4 DEF TypeOK
  <2>12. UNCHANGED Bytes!vars
    BY <2>2, <2>11 DEF Bytes!vars
  <2> QED
    BY <2>10, <2>12
<1> QED
    BY <1>2, <1>3 DEF Killed

-----------------------------------------------------------------------------
\* Every step preserves the invariant, and is a step of Transfers or none.
LEMMA StepRefines ==
    ASSUME Careful, IInv, [Next]_vars
    PROVE  IInv' /\ [Bytes!Next]_Bytes!vars
<1>1. CASE UNCHANGED vars
  <2>1. TypeInv'
    BY TypePreserved DEF IInv
  <2>3. SizeKnown' /\ WritersApart'
    <3>1. SizeKnown'
      BY <1>1 DEF vars, IInv, SizeKnown
    <3>2. WritersApart'
      BY <1>1 DEF vars, IInv, WritersApart, PagesOf
    <3> QED
      BY <3>1, <3>2
  <2>4. ASSUME NEW t \in Tasks
        PROVE  /\ call'[t] # NoCall => Exact(call'[t], io'[t], filp'[t], lba_count') /\ Counted(call'[t], io'[t])
               /\ Fresh(disk', call'[t], io'[t])
    BY <1>1 DEF vars, IInv
  <2>5. IInv'
    BY <2>1, <2>3, <2>4 DEF IInv
  <2>2. UNCHANGED Bytes!vars
    BY <1>1 DEF vars, Bytes!vars
  <2> QED
    BY <2>2, <2>5
<1>2. CASE Probe
    BY <1>2, ProbeRefines DEF Bytes!Next
<1>3. ASSUME NEW t \in Tasks, NEW f \in Usable(t), NEW op \in {"read", "write"}, NEW n \in Lengths,
             Begin(t, f, op, n)
      PROVE  IInv' /\ Bytes!Next
    BY <1>3, BeginRefines DEF Bytes!Next
<1>4. ASSUME NEW t \in Tasks, PageRead(t) PROVE IInv' /\ [Bytes!Next]_Bytes!vars
    BY <1>4, PageReadRefines DEF Bytes!Next
<1>5. ASSUME NEW t \in Tasks, PageWrite(t) PROVE IInv' /\ Bytes!Next
    BY <1>5, PageWriteRefines DEF Bytes!Next
<1>6. ASSUME NEW t \in Tasks, Return(t) PROVE IInv' /\ Bytes!Next
    BY <1>6, ReturnRefines DEF Bytes!Next
<1>7. ASSUME NEW t \in Tasks, Killed(t) PROVE IInv' /\ [Bytes!Next]_Bytes!vars
    BY <1>7, KilledRefines DEF Bytes!Next
<1> QED
    BY <1>1, <1>2, <1>3, <1>4, <1>5, <1>6, <1>7 DEF Next

\* The invariant holds at first, as does what Transfers says of its first state.
LEMMA InitRefines == Init => IInv /\ Bytes!Init
<1> SUFFICES ASSUME Init PROVE IInv /\ Bytes!Init
    OBVIOUS
<1>1. TypeInv
    BY TypeInitially
<1>2. \A t \in Tasks : call[t] = NoCall /\ io[t] = NoIo /\ filp[t] = NoFile
    BY DEF Init
<1>3. SizeKnown
    BY DEF Init, SizeKnown
<1>4. WritersApart
    BY <1>2 DEF WritersApart, NoCall
<1>5. \A t \in Tasks : Fresh(disk, call[t], io[t])
    BY <1>2 DEF Fresh, NoIo
<1>6. IInv
    BY <1>1, <1>2, <1>3, <1>4, <1>5 DEF IInv
<1>7. Bytes!NoCall = NoCall /\ Bytes!NoFile = NoFile /\ NoIo.done = 0 /\ NoIo.got = <<>>
    BY DEF Bytes!NoCall, NoCall, Bytes!NoFile, NoFile, NoIo
<1>8. Bytes!Init
    BY <1>2, <1>7 DEF Bytes!Init, Init
<1> QED
    BY <1>6, <1>8

\* When callers keep to what the drivers handle, the invariant holds in every
\* reachable state.
THEOREM Invariance == Careful => (Spec => []IInv)
<1> SUFFICES ASSUME Careful PROVE Spec => []IInv
    OBVIOUS
<1>1. IInv /\ [Next]_vars => IInv'
    BY StepRefines
<1>2. Init => IInv
    BY InitRefines
<1> QED
    BY <1>1, <1>2, PTL DEF Spec

\* nvme.c, nvmepart.c, exfat.c: reads return the bytes of the file and writes
\* change these bytes and no others, for every layout of partitions and clusters,
\* though whole pages are moved, tasks interleave between any two of them and may
\* be killed half-way.
THEOREM RefinesTransfers == Careful => (Spec => ActsLikeTransfers)
<1> SUFFICES ASSUME Careful PROVE Spec => ActsLikeTransfers
    OBVIOUS
<1>1. Init => Bytes!Init
    BY InitRefines
<1>2. IInv /\ [Next]_vars => [Bytes!Next]_Bytes!vars
    BY StepRefines
<1>3. Spec => []IInv
    BY Invariance
<1> QED
    BY <1>1, <1>2, <1>3, PTL DEF Spec, ActsLikeTransfers, Bytes!Spec
=============================================================================
