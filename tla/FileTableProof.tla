-------------------------- MODULE FileTableProof --------------------------
(***************************************************************************)
(* The safety properties of FileTable for every number of tasks, struct    *)
(* files, inodes and descriptors, as long as no descriptor wraps around.   *)
(***************************************************************************)
EXTENDS FileTable, TLAPS, WellFoundedInduction, SequenceTheorems

-----------------------------------------------------------------------------
(* Natural numbers.                                                        *)

\* A set of natural numbers that is not empty has a least element: what the
\* searches for the first free id and the first matching entry rely on.
LEMMA LeastNatural ==
    ASSUME NEW T \in SUBSET Nat, T # {}
    PROVE  \E x \in T : \A y \in T : x <= y
<1>1. \E x \in T : \A y \in T : <<y, x>> \notin OpToRel(<, Nat)
    BY NatLessThanWellFounded, WFMin
<1>2. \A x, y \in Nat : y < x => <<y, x>> \in OpToRel(<, Nat)
    BY DEF OpToRel
<1>3. PICK R : /\ \E x \in T : \A y \in T : <<y, x>> \notin R
               /\ \A x, y \in Nat : y < x => <<y, x>> \in R
    BY <1>1, <1>2, Zenon
<1>4. PICK x \in T : \A y \in T : <<y, x>> \notin R
    BY <1>3
<1>5. ASSUME NEW y \in T PROVE x <= y
  <2>1. x \in Nat /\ y \in Nat /\ ~(y < x)
    BY <1>3, <1>4
  <2> QED
    BY <2>1
<1> QED
    BY <1>5

\* A remainder changes nothing below the modulus: a counter that does not reach
\* its width just counts.
LEMMA SmallRemainder ==
    ASSUME NEW m \in Nat, NEW x \in Nat, x < m
    PROVE  x % m = x
    OBVIOUS

\* A task has fewer than 2^32 descriptors in its life.
NoFdWrap == MaxFd + 1 < FdModulus

IInv == TypeOK /\ FilesSortedByFd /\ FilesOwnedOnce

-----------------------------------------------------------------------------
(* The list operations.                                                    *)

\* list_del: what is behind moves up by one.
LEMMA RemoveAtSpec ==
    ASSUME NEW S, NEW s \in Seq(S), NEW k \in DOMAIN s
    PROVE  /\ RemoveAt(s, k) \in Seq(S) /\ Len(RemoveAt(s, k)) = Len(s) - 1
           /\ \A i \in 1 .. Len(s) - 1 :
                 RemoveAt(s, k)[i] = IF i < k THEN s[i] ELSE s[i + 1]
<1> DEFINE a == SubSeq(s, 1, k - 1)
           b == SubSeq(s, k + 1, Len(s))
<1>1. Len(s) \in Nat /\ k \in 1 .. Len(s) /\ \A i \in 1 .. Len(s) : s[i] \in S
    OBVIOUS
<1>2. a \in Seq(S) /\ Len(a) = k - 1 /\ \A i \in 1 .. k - 1 : a[i] = s[i]
    BY <1>1, SubSeqProperties
<1>3. b \in Seq(S) /\ Len(b) = Len(s) - k /\ \A i \in 1 .. Len(s) - k : b[i] = s[k + i]
  <2>1. \A i \in k + 1 .. Len(s) : s[i] \in S
    BY <1>1
  <2>2. /\ b \in Seq(S) /\ Len(b) = IF k + 1 <= Len(s) THEN Len(s) - (k + 1) + 1 ELSE 0
        /\ \A i \in 1 .. Len(s) - (k + 1) + 1 : b[i] = s[k + 1 + i - 1]
    BY <1>1, <2>1, SubSeqProperties
  <2> QED
    BY <1>1, <2>2
<1> HIDE DEF a, b
<1> DEFINE r == a \o b
<1> HIDE DEF r
<1>4. /\ r \in Seq(S) /\ Len(r) = Len(a) + Len(b)
      /\ \A i \in 1 .. Len(a) + Len(b) : r[i] = IF i <= Len(a) THEN a[i] ELSE b[i - Len(a)]
    BY <1>2, <1>3, ConcatProperties DEF r
<1>5. RemoveAt(s, k) = r
    BY DEF RemoveAt, a, b, r
<1>6. Len(r) = Len(s) - 1
    BY <1>1, <1>2, <1>3, <1>4
<1>7. ASSUME NEW i \in 1 .. Len(s) - 1
      PROVE  r[i] = IF i < k THEN s[i] ELSE s[i + 1]
  <2>1. i \in 1 .. Len(a) + Len(b)
    BY <1>1, <1>2, <1>3
  <2>2. r[i] = IF i <= k - 1 THEN a[i] ELSE b[i - (k - 1)]
    BY <1>2, <1>4, <2>1
  <2>3. CASE i < k
    <3>1. i <= k - 1 /\ i \in 1 .. k - 1
      BY <1>1, <2>3
    <3> QED
      BY <1>2, <2>2, <2>3, <3>1
  <2>4. CASE ~(i < k)
    <3>1. ~(i <= k - 1) /\ i - (k - 1) \in 1 .. Len(s) - k /\ k + (i - (k - 1)) = i + 1
      BY <1>1, <2>4
    <3>2. b[i - (k - 1)] = s[k + (i - (k - 1))]
      BY <1>3, <3>1
    <3> QED
      BY <2>2, <2>4, <3>1, <3>2
  <2> QED
    BY <2>3, <2>4
<1> QED
    BY <1>4, <1>5, <1>6, <1>7

\* list_add_tail in front of the k-th: what is behind moves down by one.
LEMMA InsertAtSpec ==
    ASSUME NEW S, NEW s \in Seq(S), NEW k \in 1 .. Len(s) + 1, NEW e \in S
    PROVE  /\ InsertAt(s, k, e) \in Seq(S) /\ Len(InsertAt(s, k, e)) = Len(s) + 1
           /\ \A i \in 1 .. Len(s) + 1 :
                 InsertAt(s, k, e)[i] = IF i < k THEN s[i] ELSE IF i = k THEN e ELSE s[i - 1]
<1> DEFINE a == SubSeq(s, 1, k - 1)
           b == SubSeq(s, k, Len(s))
           c == <<e>>
<1>1. Len(s) \in Nat /\ k \in 1 .. Len(s) + 1 /\ \A i \in 1 .. Len(s) : s[i] \in S
    OBVIOUS
<1>2. a \in Seq(S) /\ Len(a) = k - 1 /\ \A i \in 1 .. k - 1 : a[i] = s[i]
  <2>1. \A i \in 1 .. k - 1 : s[i] \in S
    BY <1>1
  <2> QED
    BY <1>1, <2>1, SubSeqProperties
<1>3. b \in Seq(S) /\ Len(b) = Len(s) - k + 1 /\ \A i \in 1 .. Len(s) - k + 1 : b[i] = s[k + i - 1]
  <2>1. \A i \in k .. Len(s) : s[i] \in S
    BY <1>1
  <2>2. /\ b \in Seq(S) /\ Len(b) = IF k <= Len(s) THEN Len(s) - k + 1 ELSE 0
        /\ \A i \in 1 .. Len(s) - k + 1 : b[i] = s[k + i - 1]
    BY <1>1, <2>1, SubSeqProperties
  <2> QED
    BY <1>1, <2>2
<1>4. c \in Seq(S) /\ Len(c) = 1 /\ c[1] = e
    OBVIOUS
<1> HIDE DEF a, b, c
<1>5. /\ a \o c \in Seq(S) /\ Len(a \o c) = Len(a) + Len(c)
      /\ \A i \in 1 .. Len(a) + Len(c) :
            (a \o c)[i] = IF i <= Len(a) THEN a[i] ELSE c[i - Len(a)]
    BY <1>2, <1>4, ConcatProperties
<1>6. Len(a \o c) = k /\ (a \o c)[k] = e /\ \A i \in 1 .. k - 1 : (a \o c)[i] = s[i]
    BY <1>1, <1>2, <1>4, <1>5
<1> DEFINE ac == a \o c
<1> HIDE DEF ac
<1>7. ac \in Seq(S) /\ Len(ac) = k /\ ac[k] = e /\ \A i \in 1 .. k - 1 : ac[i] = s[i]
    BY <1>5, <1>6 DEF ac
<1> DEFINE r == ac \o b
<1> HIDE DEF r
<1>8. /\ r \in Seq(S) /\ Len(r) = k + Len(b)
      /\ \A i \in 1 .. k + Len(b) : r[i] = IF i <= k THEN ac[i] ELSE b[i - k]
    BY <1>3, <1>7, ConcatProperties DEF r
<1>9. InsertAt(s, k, e) = r
    BY DEF InsertAt, a, b, c, ac, r
<1>10. Len(r) = Len(s) + 1
    BY <1>1, <1>3, <1>8
<1>11. ASSUME NEW i \in 1 .. Len(s) + 1
       PROVE  r[i] = IF i < k THEN s[i] ELSE IF i = k THEN e ELSE s[i - 1]
  <2>1. CASE i <= k
    BY <1>1, <1>3, <1>7, <1>8, <2>1
  <2>2. CASE i > k
    <3>1. r[i] = b[i - k] /\ i - k \in 1 .. Len(s) - k + 1
      BY <1>1, <1>3, <1>8, <2>2
    <3>2. k + (i - k) - 1 = i - 1
      BY <1>1
    <3> QED
      BY <1>1, <1>3, <2>2, <3>1, <3>2
  <2> QED
    BY <1>1, <2>1, <2>2
<1> QED
    BY <1>8, <1>9, <1>10, <1>11

\* The position of the first file of s whose descriptor, by g, is d.
FirstWith(s, g, d) ==
    LET I == {i \in 1 .. Len(s) : g[s[i]] = d} IN IF I # {} THEN Min(I) ELSE 0

\* filp_find is that search, before a step and after it.
LEMMA FindIsFirst ==
    ASSUME NEW t, NEW d
    PROVE  /\ Find(t, d) = FirstWith(files[t], fd, d)
           /\ Find(t, d)' = FirstWith(files'[t], fd', d)
    BY DEF Find, FirstWith, SelectInSeq

\* filp_find returns a file with the descriptor if there is one.
LEMMA FirstWithSpec ==
    ASSUME NEW s \in Seq(Files), NEW g, NEW d
    PROVE  /\ FirstWith(s, g, d) = 0 <=> \A k \in DOMAIN s : g[s[k]] # d
           /\ FirstWith(s, g, d) # 0 => /\ FirstWith(s, g, d) \in DOMAIN s
                                        /\ g[s[FirstWith(s, g, d)]] = d
<1> DEFINE I == {i \in 1 .. Len(s) : g[s[i]] = d}
<1>1. I \in SUBSET Nat /\ DOMAIN s = 1 .. Len(s) /\ Len(s) \in Nat
    OBVIOUS
<1>2. I # {} => Min(I) \in I
    BY <1>1, LeastNatural DEF Min
<1> QED
    BY <1>1, <1>2 DEF FirstWith

-----------------------------------------------------------------------------
(* Lists of struct files, sorted by a field g.                             *)

Sorted(s, g) == \A j, k \in DOMAIN s : j < k => g[s[j]] < g[s[k]]
Once(s)      == \A j, k \in DOMAIN s : s[j] = s[k] => j = k

\* list_del keeps a list sorted and loses the one file.
LEMMA RemovedList ==
    ASSUME NEW s \in Seq(Files), NEW g \in [Files -> Fds], NEW k \in DOMAIN s,
           Sorted(s, g), Once(s)
    PROVE  LET r == RemoveAt(s, k) IN
           /\ r \in Seq(Files) /\ Sorted(r, g) /\ Once(r)
           /\ Range(r) = Range(s) \ {s[k]}
<1> DEFINE r == RemoveAt(s, k)
           from(i) == IF i < k THEN i ELSE i + 1
<1>1. /\ r \in Seq(Files) /\ Len(r) = Len(s) - 1
      /\ \A i \in 1 .. Len(s) - 1 : r[i] = IF i < k THEN s[i] ELSE s[i + 1]
    BY RemoveAtSpec
<1> HIDE DEF r
<1>2. /\ DOMAIN r = 1 .. Len(s) - 1 /\ DOMAIN s = 1 .. Len(s) /\ Len(s) \in Nat
      /\ k \in 1 .. Len(s)
    BY <1>1
<1>3. \A i \in DOMAIN r : from(i) \in DOMAIN s /\ from(i) # k /\ r[i] = s[from(i)]
    BY <1>1, <1>2
<1>4. /\ \A i, j \in DOMAIN r : i < j => from(i) < from(j)
      /\ \A i, j \in DOMAIN r : from(i) = from(j) => i = j
    BY <1>2
<1>5. \A j \in DOMAIN s \ {k} : \E i \in DOMAIN r : from(i) = j
  <2> TAKE j \in DOMAIN s \ {k}
  <2>1. CASE j < k
    BY <1>2, <2>1
  <2>2. CASE j > k
    <3>1. j - 1 \in DOMAIN r /\ from(j - 1) = j
      BY <1>2, <2>2
    <3> QED
      BY <3>1
  <2> QED
    BY <1>2, <2>1, <2>2
<1> HIDE DEF from
<1>6. Sorted(r, g) /\ Once(r)
    BY <1>3, <1>4 DEF Sorted, Once
<1>7. Range(r) = Range(s) \ {s[k]}
    BY <1>3, <1>5 DEF Range, Once
<1> QED
    BY <1>1, <1>6, <1>7 DEF r

\* filp_insert_point_find: every file before the point has a smaller descriptor
\* or the same, every file from there on a greater one.
LEMMA InsertPointSpec ==
    ASSUME NEW s \in Seq(Files), fd \in [Files -> Fds], NEW d \in Fds, Sorted(s, fd)
    PROVE  /\ InsertPoint(s, d) \in 1 .. Len(s) + 1
           /\ \A k \in 1 .. InsertPoint(s, d) - 1 : fd[s[k]] <= d
           /\ \A k \in InsertPoint(s, d) .. Len(s) : fd[s[k]] > d
<1> DEFINE I == {i \in 1 .. Len(s) : fd[s[i]] > d}
<1>1. I \in SUBSET Nat /\ DOMAIN s = 1 .. Len(s) /\ Len(s) \in Nat
      /\ \A i \in 1 .. Len(s) : fd[s[i]] \in Int /\ d \in Int
    BY FileConstants DEF Fds
<1>2. InsertPoint(s, d) = LET k == IF I # {} THEN Min(I) ELSE 0 IN IF k = 0 THEN Len(s) + 1 ELSE k
    BY DEF InsertPoint, SelectInSeq
<1>3. I # {} => Min(I) \in I /\ \A i \in I : Min(I) <= i
    BY <1>1, LeastNatural DEF Min
<1>4. CASE I = {}
  <2>1. InsertPoint(s, d) = Len(s) + 1
    BY <1>2, <1>4
  <2> QED
    BY <1>1, <1>4, <2>1
<1>5. CASE I # {}
  <2>1. PICK m \in I : m = Min(I) /\ \A i \in I : m <= i
    BY <1>3, <1>5
  <2>2. m \in 1 .. Len(s) /\ fd[s[m]] > d /\ InsertPoint(s, d) = m
    BY <1>1, <1>2, <1>5, <2>1
  <2>3. \A k \in 1 .. m - 1 : fd[s[k]] <= d
    BY <1>1, <2>1, <2>2
  <2>4. \A k \in m .. Len(s) : fd[s[k]] > d
    <3> TAKE k \in m .. Len(s)
    <3>1. CASE k = m
      BY <2>2, <3>1
    <3>2. CASE k # m
      <4>1. m \in DOMAIN s /\ k \in DOMAIN s /\ m < k
        BY <1>1, <2>2, <3>2
      <4>2. fd[s[m]] < fd[s[k]]
        BY <4>1 DEF Sorted
      <4> QED
        BY <1>1, <2>2, <4>1, <4>2
    <3> QED
      BY <3>1, <3>2
  <2> QED
    BY <1>1, <2>2, <2>3, <2>4
<1> QED
    BY <1>4, <1>5

\* A file with a descriptor that is not in the list goes to its place.
LEMMA InsertedList ==
    ASSUME NEW s \in Seq(Files), fd \in [Files -> Fds], NEW d \in Fds, NEW n \in Files,
           Sorted(s, fd), Once(s), n \notin Range(s),
           \A k \in DOMAIN s : fd[s[k]] # d,
           NEW g, g = [fd EXCEPT ![n] = d]
    PROVE  LET r == InsertAt(s, InsertPoint(s, d), n) IN
           /\ r \in Seq(Files) /\ Sorted(r, g) /\ Once(r)
           /\ Range(r) = Range(s) \cup {n}
<1> DEFINE p == InsertPoint(s, d)
           r == InsertAt(s, p, n)
           from(i) == IF i < p THEN i ELSE i - 1
<1>1. /\ p \in 1 .. Len(s) + 1
      /\ \A k \in 1 .. p - 1 : fd[s[k]] <= d
      /\ \A k \in p .. Len(s) : fd[s[k]] > d
    BY InsertPointSpec
<1> HIDE DEF p
<1>2. /\ r \in Seq(Files) /\ Len(r) = Len(s) + 1
      /\ \A i \in 1 .. Len(s) + 1 : r[i] = IF i < p THEN s[i] ELSE IF i = p THEN n ELSE s[i - 1]
    BY <1>1, InsertAtSpec
<1> HIDE DEF r
<1>3. DOMAIN r = 1 .. Len(s) + 1 /\ DOMAIN s = 1 .. Len(s) /\ Len(s) \in Nat /\ p \in DOMAIN r
    BY <1>1, <1>2
<1>4. \A i \in DOMAIN r \ {p} : from(i) \in DOMAIN s /\ r[i] = s[from(i)]
    BY <1>1, <1>2, <1>3
<1>5. /\ \A i, j \in DOMAIN r \ {p} : i < j => from(i) < from(j)
      /\ \A i, j \in DOMAIN r \ {p} : from(i) = from(j) => i = j
    BY <1>1, <1>3
<1>6. \A j \in DOMAIN s : \E i \in DOMAIN r \ {p} : from(i) = j
  <2> TAKE j \in DOMAIN s
  <2>1. CASE j < p
    BY <1>1, <1>3, <2>1
  <2>2. CASE j >= p
    <3>1. j + 1 \in DOMAIN r \ {p} /\ from(j + 1) = j
      BY <1>1, <1>3, <2>2
    <3> QED
      BY <3>1
  <2> QED
    BY <1>1, <1>3, <2>1, <2>2
<1>7. /\ \A i \in DOMAIN r : i < p => fd[s[from(i)]] < d
      /\ \A i \in DOMAIN r : i > p => fd[s[from(i)]] > d
  <2>1. \A k \in DOMAIN s : fd[s[k]] \in Int /\ d \in Int
    BY FileConstants DEF Fds
  <2>2. ASSUME NEW i \in DOMAIN r, i < p PROVE fd[s[from(i)]] < d
    <3>1. from(i) \in 1 .. p - 1 /\ from(i) \in DOMAIN s
      BY <1>1, <1>3, <2>2
    <3> QED
      BY <1>1, <2>1, <3>1
  <2>3. ASSUME NEW i \in DOMAIN r, i > p PROVE fd[s[from(i)]] > d
    <3>1. from(i) \in p .. Len(s)
      BY <1>1, <1>3, <2>3
    <3> QED
      BY <1>1, <3>1
  <2> QED
    BY <2>2, <2>3
<1> HIDE DEF from
<1>8. r[p] = n /\ g[n] = d /\ \A j \in DOMAIN s : s[j] # n /\ g[s[j]] = fd[s[j]]
    BY <1>1, <1>2, <1>3 DEF Range
<1>9. Sorted(r, g)
  <2> SUFFICES ASSUME NEW i \in DOMAIN r, NEW j \in DOMAIN r, i < j
               PROVE  g[r[i]] < g[r[j]]
    BY DEF Sorted
  <2>1. CASE i # p /\ j # p
    BY <1>4, <1>5, <1>8, <2>1 DEF Sorted
  <2>2. CASE i = p
    <3>1. j > p /\ j # p
      BY <1>3, <2>2
    <3> QED
      BY <1>4, <1>7, <1>8, <2>2, <3>1
  <2>3. CASE j = p
    <3>1. i < p /\ i # p
      BY <1>3, <2>3
    <3> QED
      BY <1>4, <1>7, <1>8, <2>3, <3>1
  <2> QED
    BY <2>1, <2>2, <2>3
<1>10. Once(r)
    BY <1>4, <1>5, <1>8 DEF Once
<1>11. Range(r) = Range(s) \cup {n}
    BY <1>3, <1>4, <1>6, <1>8 DEF Range
<1> QED
    BY <1>2, <1>9, <1>10, <1>11 DEF r, p

-----------------------------------------------------------------------------
(* Every step works on the list of one task.                               *)

\* The variables have their types, the contents of the lists apart.
FieldTypes ==
    /\ fd \in [Files -> Fds]
    /\ inode \in [Files -> Inodes \cup {NoInode}]
    /\ offset \in [Files -> 0 .. MaxOffset]
    /\ used \subseteq Files
    /\ alive \subseteq Tasks
    /\ files \in [Tasks -> Seq(Files)]

\* The list of the task is in order.
OwnListOK(t) ==
    /\ Sorted(files[t], fd) /\ Once(files[t])
    /\ \A f \in Range(files[t]) : inode[f] \in Inodes

\* Slots that are in use by nobody but other tasks.
Foreign(t) == used \ Range(files[t])

\* A step changes neither the lists of other tasks nor a slot they may use, and
\* takes none of those slots.
TouchesOnly(t) ==
    /\ \A u \in Tasks \ {t} : files'[u] = files[u]
    /\ Foreign(t) \subseteq used'
    /\ Range(files'[t]) \subseteq used' \ Foreign(t)
    /\ \A f \in Foreign(t) : fd'[f] = fd[f] /\ inode'[f] = inode[f] /\ offset'[f] = offset[f]

\* The invariant, list by list.
LEMMA ListByList ==
    IInv <=> /\ FieldTypes
             /\ \A t \in Tasks : OwnListOK(t) /\ Range(files[t]) \subseteq used
             /\ \A t, u \in Tasks : t # u => Range(files[t]) \cap Range(files[u]) = {}
<1>1. TypeOK <=> FieldTypes /\ \A t \in Tasks : \A f \in Range(files[t]) : inode[f] \in Inodes
    BY DEF TypeOK, FieldTypes, Range
<1>2. FilesSortedByFd <=> \A t \in Tasks : Sorted(files[t], fd)
    BY DEF FilesSortedByFd, Sorted
<1>3. FilesOwnedOnce <=>
        /\ \A t \in Tasks : Once(files[t]) /\ Range(files[t]) \subseteq used
        /\ \A t, u \in Tasks : t # u => Range(files[t]) \cap Range(files[u]) = {}
    BY DEF FilesOwnedOnce, Once, Range
<1> QED
    BY <1>1, <1>2, <1>3 DEF IInv, OwnListOK

\* A step that leaves its own list in order leaves the invariant intact.
LEMMA OneListStep ==
    ASSUME IInv, NEW t \in Tasks, TouchesOnly(t), FieldTypes', OwnListOK(t)'
    PROVE  IInv'
<1>1. /\ FieldTypes
      /\ \A u \in Tasks : OwnListOK(u) /\ Range(files[u]) \subseteq used
      /\ \A u, v \in Tasks : u # v => Range(files[u]) \cap Range(files[v]) = {}
    BY ListByList
<1>2. ASSUME NEW u \in Tasks, u # t
      PROVE  /\ files'[u] = files[u] /\ Range(files[u]) \subseteq Foreign(t)
             /\ \A k \in DOMAIN files[u] : files[u][k] \in Foreign(t)
    BY SMTT(30), <1>1, <1>2 DEF TouchesOnly, Foreign, Range
<1>3. ASSUME NEW u \in Tasks, u # t
      PROVE  OwnListOK(u)' /\ Range(files'[u]) \subseteq used'
  <2>1. \A k \in DOMAIN files[u] : fd'[files[u][k]] = fd[files[u][k]]
    BY <1>2, <1>3 DEF TouchesOnly
  <2>2. Sorted(files[u], fd')
    BY <1>1, <2>1 DEF OwnListOK, Sorted
  <2>3. \A f \in Range(files[u]) : inode'[f] \in Inodes
    BY <1>1, <1>2, <1>3 DEF TouchesOnly, OwnListOK
  <2> QED
    BY <1>1, <1>2, <1>3, <2>2, <2>3 DEF OwnListOK, TouchesOnly
<1>4. Range(files'[t]) \subseteq used'
    BY DEF TouchesOnly
<1>5. ASSUME NEW u \in Tasks, NEW v \in Tasks, u # v
      PROVE  Range(files'[u]) \cap Range(files'[v]) = {}
    BY <1>1, <1>2, <1>5 DEF TouchesOnly
<1>6. \A u \in Tasks : OwnListOK(u)' /\ Range(files'[u]) \subseteq used'
    BY <1>3, <1>4
<1>7. TypeOK'
    BY <1>6 DEF TypeOK, FieldTypes, OwnListOK, Range
<1>8. FilesSortedByFd'
    BY <1>6 DEF FilesSortedByFd, OwnListOK, Sorted
<1>9. FilesOwnedOnce'
    BY <1>5, <1>6 DEF FilesOwnedOnce, OwnListOK, Once, Range
<1> QED
    BY <1>7, <1>8, <1>9 DEF IInv

\* What the invariant says of the list of one task.
LEMMA ListOf ==
    ASSUME IInv, NEW t \in Tasks
    PROVE  /\ FieldTypes /\ OwnListOK(t) /\ files[t] \in Seq(Files)
           /\ Range(files[t]) \subseteq used /\ used \subseteq Files
           /\ \A k \in DOMAIN files[t] : files[t][k] \in Range(files[t])
    BY ListByList DEF FieldTypes, Range

\* A search of the list: filp_find.
LEMMA FindSpec ==
    ASSUME IInv, NEW t \in Tasks, NEW d
    PROVE  /\ Find(t, d) = 0 <=> \A k \in DOMAIN files[t] : fd[files[t][k]] # d
           /\ Find(t, d) # 0 => /\ Find(t, d) \in DOMAIN files[t]
                                /\ fd[files[t][Find(t, d)]] = d
                                /\ files[t][Find(t, d)] \in Range(files[t])
    BY ListOf, FindIsFirst, FirstWithSpec

\* open: a fresh slot behind the last file, with a greater descriptor.
LEMMA OpenStep ==
    ASSUME IInv, NoFdWrap, NEW t \in Tasks, NEW i \in Inodes, Open(t, i)
    PROVE  TouchesOnly(t) /\ FieldTypes' /\ OwnListOK(t)'
<1> DEFINE s == files[t]
           d == NewFd(s)
<1>1. /\ FieldTypes /\ OwnListOK(t) /\ s \in Seq(Files) /\ Range(s) \subseteq used
      /\ used \subseteq Files
    BY ListOf
<1>2. PICK n \in Files \ used :
         /\ FillIn(inode, n, d, i, 0)
         /\ used' = used \cup {n}
         /\ files' = [files EXCEPT ![t] = Append(s, n)]
    BY DEF Open
<1>3. alive' = alive /\ (s # <<>> => fd[Last(s)] <= MaxFd)
    BY DEF Open
<1>4. /\ fd' = [fd EXCEPT ![n] = d]
      /\ inode' = [inode EXCEPT ![n] = i]
      /\ offset' = [offset EXCEPT ![n] = 0]
    BY <1>2 DEF FillIn
<1>5. /\ Len(s) \in Nat /\ DOMAIN s = 1 .. Len(s)
      /\ s # <<>> => Len(s) \in DOMAIN s
    BY <1>1
<1>6. /\ d \in Fds
      /\ s # <<>> => d = fd[s[Len(s)]] + 1
  <2>1. CASE s = <<>>
    BY <2>1, FileConstants DEF NewFd, Fds
  <2>2. CASE s # <<>>
    <3>1. fd[s[Len(s)]] \in Nat /\ fd[s[Len(s)]] + 1 < FdModulus
      BY <1>1, <1>3, <1>5, <2>2, FileConstants DEF Last, NoFdWrap, FieldTypes, Fds
    <3>2. (fd[s[Len(s)]] + 1) % FdModulus = fd[s[Len(s)]] + 1
      BY <3>1, SmallRemainder, FileConstants
    <3> QED
      BY <2>2, <3>1, <3>2, FileConstants DEF NewFd, Last, Fds
  <2> QED
    BY <2>1, <2>2
<1> HIDE DEF d
<1> DEFINE r == Append(s, n)
<1>7. /\ r \in Seq(Files) /\ Len(r) = Len(s) + 1 /\ DOMAIN r = 1 .. Len(s) + 1
      /\ r[Len(s) + 1] = n /\ \A k \in 1 .. Len(s) : r[k] = s[k]
    BY <1>1, <1>2
<1> HIDE DEF r
<1>8. files' = [files EXCEPT ![t] = r] /\ files'[t] = r
    BY <1>1, <1>2 DEF FieldTypes, r
<1>9. FieldTypes'
  <2>1. fd' \in [Files -> Fds] /\ inode' \in [Files -> Inodes \cup {NoInode}]
    BY <1>1, <1>4, <1>6 DEF FieldTypes
  <2>2. offset' \in [Files -> 0 .. MaxOffset]
    BY <1>1, <1>4, FileConstants DEF FieldTypes
  <2>3. files' \in [Tasks -> Seq(Files)]
    BY <1>1, <1>7, <1>8 DEF FieldTypes
  <2> QED
    BY <1>1, <1>2, <1>3, <2>1, <2>2, <2>3 DEF FieldTypes
<1>10. Range(r) = Range(s) \cup {n} /\ n \notin Range(s)
    BY SMTT(30), <1>1, <1>2, <1>5, <1>7 DEF Range
<1>11. TouchesOnly(t)
  <2>1. n \notin Foreign(t) /\ Range(s) \cap Foreign(t) = {}
    BY <1>2 DEF Foreign
  <2>2. \A f \in Foreign(t) : fd'[f] = fd[f] /\ inode'[f] = inode[f] /\ offset'[f] = offset[f]
    BY <1>1, <1>4, <2>1 DEF FieldTypes, Foreign
  <2> QED
    BY <1>1, <1>2, <1>8, <1>10, <2>1, <2>2 DEF TouchesOnly, Foreign, FieldTypes
<1>12. OwnListOK(t)'
  <2>1. \A k \in 1 .. Len(s) : s[k] \in Range(s) /\ s[k] \in Files /\ s[k] # n
    BY <1>1, <1>2, <1>5 DEF Range
  <2>2. fd'[n] = d /\ \A k \in 1 .. Len(s) : fd'[s[k]] = fd[s[k]] /\ fd[s[k]] \in Int
    BY <1>1, <1>4, <2>1, FileConstants DEF FieldTypes, Fds
  <2>3. \A k \in 1 .. Len(s) : fd[s[k]] < d
    <3> TAKE k \in 1 .. Len(s)
    <3>1. s # <<>> /\ Len(s) \in 1 .. Len(s)
      BY <1>5
    <3>2. k = Len(s) \/ fd[s[k]] < fd[s[Len(s)]]
      BY <1>1, <1>5, <3>1 DEF OwnListOK, Sorted
    <3> QED
      BY <1>6, <2>2, <3>1, <3>2
  <2>4. Sorted(r, fd')
    <3> SUFFICES ASSUME NEW j \in DOMAIN r, NEW k \in DOMAIN r, j < k
                 PROVE  fd'[r[j]] < fd'[r[k]]
      BY DEF Sorted
    <3>1. j \in 1 .. Len(s) /\ r[j] = s[j]
      BY <1>5, <1>7
    <3>2. CASE k \in 1 .. Len(s)
      BY <1>1, <1>5, <1>7, <2>2, <3>1, <3>2 DEF Sorted, OwnListOK
    <3>3. CASE k = Len(s) + 1
      BY <1>7, <2>2, <2>3, <3>1, <3>3
    <3> QED
      BY <1>5, <1>7, <3>2, <3>3
  <2>5. Once(r)
    BY <1>1, <1>5, <1>7, <2>1 DEF Once, OwnListOK
  <2>6. \A f \in Range(r) : inode'[f] \in Inodes
    BY <1>1, <1>2, <1>4, <1>10 DEF OwnListOK, FieldTypes
  <2> QED
    BY <1>8, <2>4, <2>5, <2>6 DEF OwnListOK
<1> QED
    BY <1>9, <1>11, <1>12

\* close: the file leaves the list, its slot is free.
LEMMA CloseStep ==
    ASSUME IInv, NEW t \in Tasks, NEW d \in 0 .. MaxFd, Close(t, d)
    PROVE  TouchesOnly(t) /\ FieldTypes' /\ OwnListOK(t)'
<1> DEFINE s == files[t]
           k == Find(t, d)
           r == RemoveAt(s, k)
<1>1. /\ FieldTypes /\ OwnListOK(t) /\ s \in Seq(Files) /\ Range(s) \subseteq used
      /\ used \subseteq Files
    BY ListOf
<1>2. k \in DOMAIN s /\ s[k] \in Range(s)
    BY FindSpec DEF Close
<1>3. /\ used' = used \ {s[k]}
      /\ files' = [files EXCEPT ![t] = r]
      /\ UNCHANGED <<fd, inode, offset, alive>>
    BY DEF Close, AfterFree, ListDel
<1> HIDE DEF k
<1>4. /\ r \in Seq(Files) /\ Sorted(r, fd) /\ Once(r)
      /\ Range(r) = Range(s) \ {s[k]}
    BY <1>1, <1>2, RemovedList DEF OwnListOK, FieldTypes
<1> HIDE DEF r
<1>5. files'[t] = r
    BY <1>1, <1>3 DEF FieldTypes
<1>6. FieldTypes'
    BY <1>1, <1>3, <1>4 DEF FieldTypes
<1>7. TouchesOnly(t)
    BY <1>1, <1>2, <1>3, <1>4, <1>5 DEF TouchesOnly, Foreign, FieldTypes
<1>8. OwnListOK(t)'
    BY <1>1, <1>3, <1>4, <1>5 DEF OwnListOK
<1> QED
    BY <1>6, <1>7, <1>8

\* In a sorted list, the search finds the one file with the descriptor.
LEMMA FoundFile ==
    ASSUME NEW s \in Seq(Files), NEW g \in [Files -> Fds], Sorted(s, g),
           NEW f \in Range(s)
    PROVE  FirstWith(s, g, g[f]) # 0 /\ s[FirstWith(s, g, g[f])] = f
<1>1. PICK j \in DOMAIN s : s[j] = f
    BY DEF Range
<1> DEFINE k == FirstWith(s, g, g[f])
<1>2. k \in DOMAIN s /\ g[s[k]] = g[s[j]] /\ k # 0
    BY <1>1, FirstWithSpec
<1> HIDE DEF k
<1>3. j \in Int /\ k \in Int /\ g[s[j]] \in Int
    BY <1>1, <1>2, FileConstants DEF Fds
<1>4. ~(j < k) /\ ~(k < j)
    BY <1>1, <1>2, <1>3 DEF Sorted
<1> QED
    BY <1>1, <1>2, <1>3, <1>4 DEF k

\* dup2, in terms of sets: the files with other descriptors stay, and a slot that
\* neither they nor other tasks use becomes a copy of the old file.
LEMMA Dup2Shape ==
    ASSUME IInv, NEW t \in Tasks, NEW a \in 0 .. MaxFd, NEW b \in 0 .. MaxFd, Dup2(t, a, b)
    PROVE  LET old  == files[t][Find(t, a)]
               keep == {f \in Range(files[t]) : fd[f] # b}
           IN  /\ old \in Range(files[t]) /\ fd[old] = a
               /\ \E n \in Files, r \in Seq(Files) :
                     /\ n \notin keep /\ n \notin Foreign(t)
                     /\ fd' = [fd EXCEPT ![n] = b]
                     /\ inode' = [inode EXCEPT ![n] = inode[old]]
                     /\ offset' = [offset EXCEPT ![n] = offset[old]]
                     /\ used' \subseteq Files /\ Foreign(t) \cup keep \cup {n} \subseteq used'
                     /\ files' = [files EXCEPT ![t] = r] /\ alive' = alive
                     /\ Sorted(r, fd') /\ Once(r) /\ Range(r) = keep \cup {n}
<1> DEFINE s == files[t]
           old == s[Find(t, a)]
           k == Find(t, b)
           keep == {f \in Range(s) : fd[f] # b}
           rest == IF k = 0 THEN s ELSE RemoveAt(s, k)
           inUse == IF k = 0 THEN used ELSE used \ {s[k]}
<1>1. /\ FieldTypes /\ OwnListOK(t) /\ s \in Seq(Files) /\ Range(s) \subseteq used
      /\ used \subseteq Files
    BY ListOf
<1>2. old \in Range(s) /\ fd[old] = a
    BY FindSpec DEF Dup2
<1>3. /\ k = 0 <=> \A j \in DOMAIN s : fd[s[j]] # b
      /\ k # 0 => k \in DOMAIN s /\ fd[s[k]] = b /\ s[k] \in Range(s)
    BY FindSpec
<1>4. /\ \E n \in Files \ inUse :
            /\ fd' = [fd EXCEPT ![n] = b]
            /\ inode' = [inode EXCEPT ![n] = inode[old]]
            /\ offset' = [offset EXCEPT ![n] = offset[old]]
            /\ used' = inUse \cup {n}
            /\ files' = [files EXCEPT ![t] = InsertAt(rest, InsertPoint(rest, b), n)]
      /\ alive' = alive
    BY DEF Dup2, FillIn, AfterFree, ListDel
<1> HIDE DEF k
<1>5. /\ rest \in Seq(Files) /\ Sorted(rest, fd) /\ Once(rest) /\ Range(rest) = keep
      /\ inUse \subseteq Files /\ keep \subseteq inUse /\ Foreign(t) \subseteq inUse
  <2>1. CASE k = 0
    <3>1. Range(s) = keep
      BY <1>3, <2>1 DEF Range
    <3> QED
      BY <1>1, <2>1, <3>1 DEF OwnListOK, Foreign
  <2>2. CASE k # 0
    <3>1. /\ rest \in Seq(Files) /\ Sorted(rest, fd) /\ Once(rest)
          /\ Range(rest) = Range(s) \ {s[k]}
      BY <1>1, <1>3, <2>2, RemovedList DEF OwnListOK, FieldTypes
    <3>2. ASSUME NEW f \in Range(s), fd[f] = b PROVE f = s[k]
      <4>1. /\ s[FirstWith(s, fd, fd[f])] = f
            /\ s[FirstWith(s, fd, fd[s[k]])] = s[k]
        BY <1>1, <1>3, <2>2, FoundFile DEF OwnListOK, FieldTypes
      <4> QED
        BY <1>3, <2>2, <3>2, <4>1
    <3>3. Range(s) \ {s[k]} = keep
      BY <1>3, <2>2, <3>2
    <3> QED
      BY <1>1, <1>3, <2>2, <3>1, <3>3 DEF Foreign
  <2> QED
    BY <2>1, <2>2
<1> HIDE DEF rest, inUse
<1>6. PICK n \in Files \ inUse :
            /\ fd' = [fd EXCEPT ![n] = b]
            /\ inode' = [inode EXCEPT ![n] = inode[old]]
            /\ offset' = [offset EXCEPT ![n] = offset[old]]
            /\ used' = inUse \cup {n}
            /\ files' = [files EXCEPT ![t] = InsertAt(rest, InsertPoint(rest, b), n)]
    BY <1>4
<1>7. b \in Fds /\ n \notin keep /\ \A j \in DOMAIN rest : fd[rest[j]] # b
    BY <1>5, <1>6, FileConstants DEF Fds, Range
<1>8. LET r == InsertAt(rest, InsertPoint(rest, b), n) IN
           /\ r \in Seq(Files) /\ Sorted(r, fd') /\ Once(r)
           /\ Range(r) = keep \cup {n}
    BY <1>1, <1>5, <1>6, <1>7, InsertedList DEF FieldTypes
<1>9. n \notin Foreign(t) /\ used' \subseteq Files /\ Foreign(t) \cup keep \cup {n} \subseteq used'
    BY <1>5, <1>6
<1> QED
    BY <1>2, <1>4, <1>6, <1>7, <1>8, <1>9

\* dup2: one file is replaced or added.
LEMMA Dup2Step ==
    ASSUME IInv, NEW t \in Tasks, NEW a \in 0 .. MaxFd, NEW b \in 0 .. MaxFd, Dup2(t, a, b)
    PROVE  TouchesOnly(t) /\ FieldTypes' /\ OwnListOK(t)'
<1> DEFINE old == files[t][Find(t, a)]
           keep == {f \in Range(files[t]) : fd[f] # b}
<1>1. PICK n \in Files, r \in Seq(Files) :
          /\ n \notin keep /\ n \notin Foreign(t)
          /\ fd' = [fd EXCEPT ![n] = b]
          /\ inode' = [inode EXCEPT ![n] = inode[old]]
          /\ offset' = [offset EXCEPT ![n] = offset[old]]
          /\ used' \subseteq Files /\ Foreign(t) \cup keep \cup {n} \subseteq used'
          /\ files' = [files EXCEPT ![t] = r] /\ alive' = alive
          /\ Sorted(r, fd') /\ Once(r) /\ Range(r) = keep \cup {n}
    BY Dup2Shape
<1>2. old \in Range(files[t])
    BY Dup2Shape
<1> HIDE DEF old
<1>3. FieldTypes /\ OwnListOK(t) /\ Range(files[t]) \subseteq Files /\ used \subseteq Files
    BY ListOf
<1>4. b \in Fds /\ old \in Files /\ inode[old] \in Inodes
    BY <1>2, <1>3, FileConstants DEF Fds, OwnListOK
<1>5. FieldTypes'
  <2>1. fd' \in [Files -> Fds] /\ files' \in [Tasks -> Seq(Files)] /\ alive' \subseteq Tasks
    BY <1>1, <1>3, <1>4 DEF FieldTypes
  <2>2. inode' \in [Files -> Inodes \cup {NoInode}] /\ offset' \in [Files -> 0 .. MaxOffset]
    BY <1>1, <1>3, <1>4 DEF FieldTypes
  <2> QED
    BY <1>1, <2>1, <2>2 DEF FieldTypes
<1>6. files'[t] = r /\ \A u \in Tasks \ {t} : files'[u] = files[u]
    BY <1>1, <1>3 DEF FieldTypes
<1>7. TouchesOnly(t)
  <2>1. keep \cap Foreign(t) = {}
    BY DEF Foreign
  <2>2. \A f \in Foreign(t) : fd'[f] = fd[f] /\ inode'[f] = inode[f] /\ offset'[f] = offset[f]
    BY <1>1, <1>3 DEF FieldTypes, Foreign
  <2> QED
    BY <1>1, <1>6, <2>1, <2>2 DEF TouchesOnly
<1>8. OwnListOK(t)'
  <2>1. \A f \in Range(r) : inode'[f] \in Inodes
    BY <1>1, <1>3, <1>4 DEF FieldTypes, OwnListOK
  <2> QED
    BY <1>1, <1>6, <2>1 DEF OwnListOK
<1> QED
    BY <1>5, <1>7, <1>8

\* lseek, read and write: an offset of the task's own file.
LEMMA SeekStep ==
    ASSUME IInv, NEW t \in Tasks, NEW d \in 0 .. MaxFd, NEW o \in 0 .. MaxOffset, Seek(t, d, o)
    PROVE  TouchesOnly(t) /\ FieldTypes' /\ OwnListOK(t)'
<1>1. /\ FieldTypes /\ OwnListOK(t) /\ Range(files[t]) \subseteq used /\ used \subseteq Files
    BY ListOf
<1>2. PICK f \in Range(files[t]) : offset' = [offset EXCEPT ![f] = o]
    BY FindSpec DEF Seek
<1>3. UNCHANGED <<fd, inode, used, files, alive>>
    BY DEF Seek
<1>4. FieldTypes'
    BY <1>1, <1>2, <1>3 DEF FieldTypes
<1>5. TouchesOnly(t)
    BY <1>1, <1>2, <1>3 DEF TouchesOnly, Foreign, FieldTypes
<1>6. OwnListOK(t)'
    BY <1>1, <1>3 DEF OwnListOK
<1> QED
    BY <1>4, <1>5, <1>6

\* A task is reaped: its list is gone, its files are not.
LEMMA ReapStep ==
    ASSUME IInv, NEW t \in Tasks, Reap(t)
    PROVE  TouchesOnly(t) /\ FieldTypes' /\ OwnListOK(t)'
<1>1. FieldTypes
    BY ListOf
<1>2. /\ files' = [files EXCEPT ![t] = <<>>] /\ alive' = alive \ {t}
      /\ UNCHANGED <<fd, inode, offset, used>>
    BY DEF Reap
<1>3. files'[t] = <<>> /\ \A u \in Tasks \ {t} : files'[u] = files[u]
    BY <1>1, <1>2 DEF FieldTypes
<1>4. DOMAIN files'[t] = {} /\ Range(files'[t]) = {}
    BY <1>3 DEF Range
<1>5. FieldTypes'
    BY <1>1, <1>2 DEF FieldTypes
<1>6. TouchesOnly(t) /\ OwnListOK(t)'
    BY <1>2, <1>3, <1>4 DEF TouchesOnly, Foreign, OwnListOK, Sorted, Once
<1> QED
    BY <1>5, <1>6

\* fork: the child's list is a copy, file by file, in slots nobody uses.
LEMMA ForkStep ==
    ASSUME IInv, NEW p \in Tasks, NEW c \in Tasks, Fork(p, c)
    PROVE  TouchesOnly(c) /\ FieldTypes' /\ OwnListOK(c)'
<1> DEFINE s == files[p]
<1>1. /\ FieldTypes /\ OwnListOK(p) /\ s \in Seq(Files) /\ Range(s) \subseteq used
      /\ used \subseteq Files
    BY ListOf
<1>2. PICK copy \in [DOMAIN s -> Files \ used] :
         /\ IsInjective(copy)
         /\ fd' = [f \in Files |-> IF \E k \in DOMAIN copy : copy[k] = f
                                   THEN fd[s[CHOOSE k \in DOMAIN copy : copy[k] = f]] ELSE fd[f]]
         /\ inode' = [f \in Files |-> IF \E k \in DOMAIN copy : copy[k] = f
                                   THEN inode[s[CHOOSE k \in DOMAIN copy : copy[k] = f]] ELSE inode[f]]
         /\ offset' = [f \in Files |-> IF \E k \in DOMAIN copy : copy[k] = f
                                   THEN offset[s[CHOOSE k \in DOMAIN copy : copy[k] = f]] ELSE offset[f]]
         /\ used' = used \cup Range(copy)
         /\ files' = [files EXCEPT ![c] = copy]
    BY DEF Fork
<1>3. alive' = alive \cup {c}
    BY DEF Fork
<1>4. /\ DOMAIN copy = DOMAIN s /\ DOMAIN s = 1 .. Len(s) /\ Len(s) \in Nat
      /\ copy \in Seq(Files) /\ Once(copy)
      /\ \A k \in DOMAIN s : s[k] \in Range(s) /\ s[k] \in Files
  <2>1. DOMAIN copy = DOMAIN s /\ DOMAIN s = 1 .. Len(s) /\ Len(s) \in Nat
    BY <1>1
  <2>2. copy \in [1 .. Len(s) -> Files]
    BY <2>1
  <2>3. copy \in Seq(Files)
    BY <2>1, <2>2
  <2> QED
    BY <1>1, <1>2, <2>1, <2>3 DEF IsInjective, Once, Range
<1>5. ASSUME NEW k \in DOMAIN s
      PROVE  /\ fd'[copy[k]] = fd[s[k]] /\ inode'[copy[k]] = inode[s[k]]
             /\ offset'[copy[k]] = offset[s[k]]
  <2>1. (CHOOSE j \in DOMAIN copy : copy[j] = copy[k]) = k
    BY <1>2, <1>4 DEF IsInjective
  <2>2. copy[k] \in Files /\ \E j \in DOMAIN copy : copy[j] = copy[k]
    BY <1>4
  <2> QED
    BY <1>2, <2>1, <2>2
<1>6. ASSUME NEW f \in Files, f \notin Range(copy)
      PROVE  fd'[f] = fd[f] /\ inode'[f] = inode[f] /\ offset'[f] = offset[f]
    BY <1>2, <1>6 DEF Range
<1>7. Range(copy) \subseteq Files \ used
    BY <1>4 DEF Range
<1>8. FieldTypes'
  <2>1. ASSUME NEW f \in Files
        PROVE  /\ fd'[f] \in Fds /\ inode'[f] \in Inodes \cup {NoInode}
               /\ offset'[f] \in 0 .. MaxOffset
    <3>1. CASE f \in Range(copy)
      <4>1. PICK k \in DOMAIN s : f = copy[k]
        BY <1>4, <3>1 DEF Range
      <4> QED
        BY <1>1, <1>4, <1>5, <4>1 DEF FieldTypes
    <3>2. CASE f \notin Range(copy)
      BY <1>1, <1>6, <3>2 DEF FieldTypes
    <3> QED
      BY <3>1, <3>2
  <2>2. /\ fd' \in [Files -> Fds] /\ inode' \in [Files -> Inodes \cup {NoInode}]
        /\ offset' \in [Files -> 0 .. MaxOffset]
    BY <1>2, <2>1
  <2>3. files' \in [Tasks -> Seq(Files)] /\ used' \subseteq Files /\ alive' \subseteq Tasks
    BY <1>1, <1>2, <1>3, <1>4, <1>7 DEF FieldTypes
  <2> QED
    BY <2>2, <2>3 DEF FieldTypes
<1>9. files'[c] = copy /\ \A u \in Tasks \ {c} : files'[u] = files[u]
    BY <1>1, <1>2 DEF FieldTypes
<1>10. TouchesOnly(c)
  <2>1. Foreign(c) \subseteq used
    BY DEF Foreign
  <2>2. \A f \in Foreign(c) : fd'[f] = fd[f] /\ inode'[f] = inode[f] /\ offset'[f] = offset[f]
    BY <1>1, <1>6, <1>7, <2>1
  <2> QED
    BY <1>2, <1>7, <1>9, <2>1, <2>2 DEF TouchesOnly
<1>11. OwnListOK(c)'
  <2>1. Sorted(copy, fd')
    BY <1>1, <1>4, <1>5 DEF OwnListOK, Sorted
  <2>2. \A f \in Range(copy) : inode'[f] \in Inodes
    BY <1>1, <1>4, <1>5 DEF OwnListOK, Range
  <2> QED
    BY <1>4, <1>9, <2>1, <2>2 DEF OwnListOK
<1> QED
    BY <1>8, <1>10, <1>11

-----------------------------------------------------------------------------
\* Every step works on the list of one task, and leaves it in order.
LEMMA StepTouchesOne ==
    ASSUME IInv, NoFdWrap, Next
    PROVE  \E t \in Tasks : TouchesOnly(t) /\ FieldTypes' /\ OwnListOK(t)'
    BY OpenStep, CloseStep, Dup2Step, SeekStep, ForkStep, ReapStep DEF Next

\* The list init starts with is empty.
LEMMA InitEstablishes == Init => IInv
<1> SUFFICES ASSUME Init PROVE IInv
    OBVIOUS
<1>1. \A t \in Tasks : files[t] = <<>> /\ DOMAIN files[t] = {}
    BY DEF Init
<1>2. TypeOK
    BY <1>1, FileConstants DEF Init, TypeOK, Fds
<1> QED
    BY <1>1, <1>2 DEF IInv, FilesSortedByFd, FilesOwnedOnce

\* Every step preserves the invariant.
LEMMA StepPreserves ==
    ASSUME IInv, NoFdWrap, [Next]_vars
    PROVE  IInv'
<1>1. CASE Next
    BY <1>1, StepTouchesOne, OneListStep
<1>2. CASE UNCHANGED vars
    BY <1>2 DEF vars, IInv, TypeOK, FilesSortedByFd, FilesOwnedOnce
<1> QED
    BY <1>1, <1>2

\* The invariant holds in every reachable state.
THEOREM Invariance == NoFdWrap => (Spec => []IInv)
<1> SUFFICES ASSUME NoFdWrap PROVE Spec => []IInv
    OBVIOUS
<1>1. IInv /\ [Next]_vars => IInv'
    BY StepPreserves
<1> QED
    BY <1>1, InitEstablishes, PTL DEF Spec

\* The fields keep their types, and every file in a list has an inode.
THEOREM TypeCorrect == NoFdWrap => (Spec => []TypeOK)
<1>1. IInv => TypeOK
    BY DEF IInv
<1> QED
    BY <1>1, Invariance, PTL

\* vfs.h:119: the list of a task's files is sorted by fd, through any mix of
\* open, close, dup2 and fork.
THEOREM ListsStaySorted == NoFdWrap => (Spec => []FilesSortedByFd)
<1>1. IInv => FilesSortedByFd
    BY DEF IInv
<1> QED
    BY <1>1, Invariance, PTL

\* No struct file is in two lists, or in a list and free.
THEOREM FilesStayOwned == NoFdWrap => (Spec => []FilesOwnedOnce)
<1>1. IInv => FilesOwnedOnce
    BY DEF IInv
<1> QED
    BY <1>1, Invariance, PTL

-----------------------------------------------------------------------------
(* What descriptors stand for.                                             *)

\* What descriptor d stands for in a list s with the fields g, i and o.
SeenIn(s, g, i, o, d) ==
    IF FirstWith(s, g, d) = 0 THEN <<>>
    ELSE <<i[s[FirstWith(s, g, d)]], o[s[FirstWith(s, g, d)]]>>

\* Seen is SeenIn of the task's list, before a step and after it.
LEMMA SeenIsSeenIn ==
    ASSUME NEW t, NEW d
    PROVE  /\ Seen(t, d) = SeenIn(files[t], fd, inode, offset, d)
           /\ Seen(t, d)' = SeenIn(files'[t], fd', inode', offset', d)
    BY FindIsFirst DEF Seen, SeenIn

\* A descriptor stands for the fields of the one file that has it, or nothing.
LEMMA SeenByFile ==
    ASSUME NEW s \in Seq(Files), NEW g \in [Files -> Fds], Sorted(s, g), NEW i, NEW o, NEW d
    PROVE  /\ \A f \in Range(s) : g[f] = d => SeenIn(s, g, i, o, d) = <<i[f], o[f]>>
           /\ (\A f \in Range(s) : g[f] # d) => SeenIn(s, g, i, o, d) = <<>>
<1>1. ASSUME NEW f \in Range(s), g[f] = d
      PROVE  SeenIn(s, g, i, o, d) = <<i[f], o[f]>>
    BY <1>1, FoundFile DEF SeenIn
<1>2. ASSUME \A f \in Range(s) : g[f] # d
      PROVE  SeenIn(s, g, i, o, d) = <<>>
  <2>1. \A k \in DOMAIN s : g[s[k]] # d
    BY <1>2 DEF Range
  <2>2. FirstWith(s, g, d) = 0
    BY <2>1, FirstWithSpec
  <2> QED
    BY <2>2 DEF SeenIn
<1> QED
    BY <1>1, <1>2

\* A step on one task's list changes no descriptor of another task.
LEMMA OthersSeeTheSame ==
    ASSUME IInv, IInv', NEW t \in Tasks, TouchesOnly(t), NEW u \in Tasks, u # t, NEW d
    PROVE  Seen(u, d)' = Seen(u, d)
<1>1. /\ FieldTypes /\ FieldTypes' /\ Sorted(files[u], fd) /\ Sorted(files'[u], fd')
      /\ Range(files[u]) \subseteq used /\ Range(files[t]) \cap Range(files[u]) = {}
  <2>1. FieldTypes /\ OwnListOK(u) /\ Range(files[u]) \subseteq used
        /\ Range(files[t]) \cap Range(files[u]) = {}
    BY ListByList
  <2>2. FieldTypes' /\ Sorted(files'[u], fd')
    BY DEF IInv, TypeOK, FilesSortedByFd, FieldTypes, Sorted
  <2> QED
    BY <2>1, <2>2 DEF OwnListOK
<1>2. /\ files'[u] = files[u]
      /\ \A f \in Range(files[u]) : fd'[f] = fd[f] /\ inode'[f] = inode[f] /\ offset'[f] = offset[f]
    BY <1>1 DEF TouchesOnly, Foreign
<1>3. /\ files[u] \in Seq(Files) /\ files'[u] \in Seq(Files)
      /\ fd \in [Files -> Fds] /\ fd' \in [Files -> Fds]
    BY <1>1 DEF FieldTypes
<1>4. /\ \A f \in Range(files[u]) :
             fd[f] = d => SeenIn(files[u], fd, inode, offset, d) = <<inode[f], offset[f]>>
      /\ (\A f \in Range(files[u]) : fd[f] # d) => SeenIn(files[u], fd, inode, offset, d) = <<>>
    BY <1>1, <1>3, SeenByFile
<1>5. /\ \A f \in Range(files'[u]) :
             fd'[f] = d => SeenIn(files'[u], fd', inode', offset', d) = <<inode'[f], offset'[f]>>
      /\ (\A f \in Range(files'[u]) : fd'[f] # d)
            => SeenIn(files'[u], fd', inode', offset', d) = <<>>
    BY <1>1, <1>3, SeenByFile
<1>6. SeenIn(files'[u], fd', inode', offset', d) = SeenIn(files[u], fd, inode, offset, d)
    BY <1>2, <1>4, <1>5
<1> QED
    BY <1>6, SeenIsSeenIn

\* dup2 copies a to b and leaves the task's other descriptors alone.
LEMMA Dup2CopiesStep ==
    ASSUME IInv, IInv', NEW t \in Tasks, NEW a \in 0 .. MaxFd, NEW b \in 0 .. MaxFd,
           Dup2(t, a, b)
    PROVE  /\ Seen(t, b)' = Seen(t, a)
           /\ \A d \in Fds \ {b} : Seen(t, d)' = Seen(t, d)
<1> DEFINE old == files[t][Find(t, a)]
           keep == {f \in Range(files[t]) : fd[f] # b}
<1>1. PICK n \in Files, r \in Seq(Files) :
          /\ n \notin keep /\ n \notin Foreign(t)
          /\ fd' = [fd EXCEPT ![n] = b]
          /\ inode' = [inode EXCEPT ![n] = inode[old]]
          /\ offset' = [offset EXCEPT ![n] = offset[old]]
          /\ used' \subseteq Files /\ Foreign(t) \cup keep \cup {n} \subseteq used'
          /\ files' = [files EXCEPT ![t] = r] /\ alive' = alive
          /\ Sorted(r, fd') /\ Once(r) /\ Range(r) = keep \cup {n}
    BY SMTT(30), Dup2Shape
<1>2. old \in Range(files[t]) /\ fd[old] = a
    BY Dup2Shape
<1> HIDE DEF old
<1>3. /\ FieldTypes /\ Sorted(files[t], fd) /\ files[t] \in Seq(Files)
      /\ Range(files[t]) \subseteq Files
    BY ListOf DEF OwnListOK
<1>4. FieldTypes'
    BY DEF IInv, TypeOK, FieldTypes
<1>5. /\ files'[t] = r /\ fd \in [Files -> Fds] /\ fd' \in [Files -> Fds]
      /\ fd'[n] = b /\ inode'[n] = inode[old] /\ offset'[n] = offset[old]
      /\ \A f \in keep : fd'[f] = fd[f] /\ inode'[f] = inode[f] /\ offset'[f] = offset[f]
    BY <1>1, <1>3, <1>4 DEF FieldTypes
<1>6. ASSUME NEW d
      PROVE  /\ \A f \in Range(files[t]) :
                   fd[f] = d => SeenIn(files[t], fd, inode, offset, d) = <<inode[f], offset[f]>>
             /\ (\A f \in Range(files[t]) : fd[f] # d)
                   => SeenIn(files[t], fd, inode, offset, d) = <<>>
    BY <1>3, <1>5, SeenByFile
<1>7. ASSUME NEW d
      PROVE  /\ \A f \in Range(r) :
                   fd'[f] = d => SeenIn(r, fd', inode', offset', d) = <<inode'[f], offset'[f]>>
             /\ (\A f \in Range(r) : fd'[f] # d) => SeenIn(r, fd', inode', offset', d) = <<>>
  <2>1. r \in Seq(Files) /\ fd' \in [Files -> Fds] /\ Sorted(r, fd')
    BY <1>1, <1>5
  <2> QED
    BY <2>1, SeenByFile
<1>8. n \in Range(r) /\ Range(r) = keep \cup {n}
    BY <1>1
<1>9. Seen(t, b)' = Seen(t, a)
  <2>1. SeenIn(r, fd', inode', offset', b) = <<inode[old], offset[old]>>
    BY <1>5, <1>7, <1>8
  <2>2. SeenIn(files[t], fd, inode, offset, a) = <<inode[old], offset[old]>>
    BY <1>2, <1>6
  <2> QED
    BY <1>5, <2>1, <2>2, SeenIsSeenIn
<1>10. ASSUME NEW d \in Fds \ {b} PROVE Seen(t, d)' = Seen(t, d)
  <2>1. SeenIn(r, fd', inode', offset', d) = SeenIn(files[t], fd, inode, offset, d)
    <3>1. CASE \E f \in Range(files[t]) : fd[f] = d
      <4>1. PICK f \in Range(files[t]) : fd[f] = d
        BY <3>1
      <4>2. f \in keep
        BY <1>10, <4>1
      <4> QED
        BY <1>5, <1>6, <1>7, <1>8, <4>1, <4>2
    <3>2. CASE \A f \in Range(files[t]) : fd[f] # d
      <4>1. \A f \in Range(r) : fd'[f] # d
        BY <1>5, <1>8, <1>10, <3>2
      <4> QED
        BY <1>6, <1>7, <3>2, <4>1
    <3> QED
      BY <3>1, <3>2
  <2> QED
    BY <1>5, <2>1, SeenIsSeenIn
<1> QED
    BY <1>9, <1>10

\* dup2(a, b) makes b stand for what a stood for, in every reachable state, also
\* when a = b frees the very struct file that is then copied.
THEOREM Dup2AlwaysCopies == NoFdWrap => (Spec => Dup2Copies)
<1> SUFFICES ASSUME NoFdWrap PROVE Spec => Dup2Copies
    OBVIOUS
<1> DEFINE Step == \A t \in Tasks : \A a, b \in 0 .. MaxFd :
                      Dup2(t, a, b) =>
                          /\ Seen(t, b)' = Seen(t, a)
                          /\ \A d \in Fds \ {b} : Seen(t, d)' = Seen(t, d)
<1>1. IInv /\ IInv' /\ [Next]_vars => [Step]_vars
    BY Dup2CopiesStep
<1>2. Spec => []IInv
    BY Invariance
<1> QED
    BY <1>1, <1>2, PTL DEF Spec, Dup2Copies

\* No step changes what descriptors stand for in two tasks: what fork copied is
\* never shared, and a reused slot never shows through.
THEOREM TasksStayIsolated == NoFdWrap => (Spec => TasksIsolated)
<1> SUFFICES ASSUME NoFdWrap PROVE Spec => TasksIsolated
    OBVIOUS
<1> DEFINE Step == \A t, u \in Tasks :
                      (\E d \in Fds : Seen(t, d)' # Seen(t, d))
                          /\ (\E d \in Fds : Seen(u, d)' # Seen(u, d)) => t = u
<1>1. IInv /\ IInv' /\ [Next]_vars => [Step]_vars
  <2> SUFFICES ASSUME IInv, IInv', Next PROVE Step
    OBVIOUS
  <2>1. PICK w \in Tasks : TouchesOnly(w)
    BY StepTouchesOne
  <2>2. \A u \in Tasks \ {w} : \A d \in Fds : Seen(u, d)' = Seen(u, d)
    BY <2>1, OthersSeeTheSame
  <2> QED
    BY <2>2
<1>2. Spec => []IInv
    BY Invariance
<1> QED
    BY <1>1, <1>2, PTL DEF Spec, TasksIsolated
=============================================================================
